--------------------------- MODULE MethodCallsProofs ----------------------------
(******************************************************************************)
(* Proofs about MethodCalls for every number of calls, whatever documents,    *)
(* names, types, messages and errors there are.                               *)
(*                                                                            *)
(* Each call is at one place: not made yet, in the queue of requests, held in *)
(* a context by an asynchronous method, or over.  An answer is only sent on   *)
(* the way from one of these to the next, which is why there is at most one.  *)
(* A failed assertion ends the service with all that it holds, or the caller.  *)
(******************************************************************************)
EXTENDS MethodCallsProps, Induction

--------------------------------------------------------------------------------
(* Sequences of anything *)

IsSeq(s) == s \in Seq({s[k] : k \in DOMAIN s})

LEMMA Retyped ==
  ASSUME NEW S, NEW t \in Seq(S), NEW R, \A k \in 1 .. Len(t) : t[k] \in R
  PROVE  t \in Seq(R)
OBVIOUS

LEMMA SeqIs == ASSUME NEW S, NEW t \in Seq(S) PROVE IsSeq(t)
<1>1. \A k \in 1 .. Len(t) : t[k] \in {t[j] : j \in DOMAIN t}
  OBVIOUS
<1> QED
  BY <1>1, Retyped DEF IsSeq

\* The queue of a message more.
LEMMA Appended ==
  ASSUME NEW s, IsSeq(s), NEW x
  PROVE  /\ IsSeq(Append(s, x))
         /\ Len(s) \in Nat /\ DOMAIN s = 1 .. Len(s)
         /\ DOMAIN Append(s, x) = 1 .. Len(s) + 1
         /\ \A k \in DOMAIN s : Append(s, x)[k] = s[k]
         /\ Append(s, x)[Len(s) + 1] = x
<1> DEFINE S == {s[k] : k \in DOMAIN s} \cup {x}
           t == Append(s, x)
<1>1. s \in Seq(S) /\ x \in S
  BY DEF IsSeq
<1>2. /\ t \in Seq(S) /\ Len(s) \in Nat /\ DOMAIN s = 1 .. Len(s)
      /\ Len(t) = Len(s) + 1 /\ DOMAIN t = 1 .. Len(s) + 1
      /\ \A k \in DOMAIN s : t[k] = s[k]
      /\ t[Len(s) + 1] = x
  <2> HIDE DEF S
  <2> QED
    BY <1>1
<1>3. IsSeq(t)
  BY <1>2, SeqIs
<1> QED
  BY <1>2, <1>3

\* The queue without its first message.
LEMMA Popped ==
  ASSUME NEW s, IsSeq(s), s # <<>>
  PROVE  /\ IsSeq(Tail(s))
         /\ Len(s) \in Nat \ {0} /\ DOMAIN s = 1 .. Len(s)
         /\ Head(s) = s[1]
         /\ DOMAIN Tail(s) = 1 .. Len(s) - 1
         /\ \A k \in 1 .. Len(s) - 1 : Tail(s)[k] = s[k + 1]
<1> DEFINE S == {s[k] : k \in DOMAIN s}
           t == Tail(s)
<1>1. s \in Seq(S)
  BY DEF IsSeq
<1>2. /\ t \in Seq(S) /\ Len(s) \in Nat \ {0} /\ DOMAIN s = 1 .. Len(s)
      /\ Head(s) = s[1]
      /\ Len(t) = Len(s) - 1 /\ DOMAIN t = 1 .. Len(s) - 1
      /\ \A k \in 1 .. Len(s) - 1 : t[k] = s[k + 1]
  <2> HIDE DEF S
  <2> QED
    BY <1>1
<1>3. IsSeq(t)
  BY <1>2, SeqIs
<1> QED
  BY <1>2, <1>3

\* One queue behind another.
LEMMA Concatenated ==
  ASSUME NEW s, IsSeq(s), NEW t, IsSeq(t), NEW u, u = s \o t
  PROVE  /\ IsSeq(u)
         /\ Len(s) \in Nat /\ Len(t) \in Nat
         /\ DOMAIN s = 1 .. Len(s) /\ DOMAIN t = 1 .. Len(t)
         /\ DOMAIN u = 1 .. Len(s) + Len(t) /\ Len(u) = Len(s) + Len(t)
         /\ \A k \in 1 .. Len(s) : u[k] = s[k]
         /\ \A k \in 1 .. Len(t) : u[Len(s) + k] = t[k]
<1> DEFINE S == {s[k] : k \in DOMAIN s} \cup {t[k] : k \in DOMAIN t}
<1>1. s \in Seq(S) /\ t \in Seq(S)
  BY DEF IsSeq
<1>2. /\ u \in Seq(S) /\ Len(s) \in Nat /\ Len(t) \in Nat
      /\ DOMAIN s = 1 .. Len(s) /\ DOMAIN t = 1 .. Len(t)
      /\ Len(u) = Len(s) + Len(t) /\ DOMAIN u = 1 .. Len(s) + Len(t)
      /\ \A k \in 1 .. Len(s) : u[k] = s[k]
      /\ \A k \in 1 .. Len(t) : u[Len(s) + k] = t[k]
  <2> HIDE DEF S
  <2> QED
    BY <1>1
<1>3. IsSeq(u)
  BY <1>2, SeqIs
<1> QED
  BY <1>2, <1>3

LEMMA EmptyIn == ASSUME NEW t, t = <<>>, NEW S PROVE t \in Seq(S) /\ Len(t) = 0
OBVIOUS

LEMMA EmptyIs == ASSUME NEW t, t = <<>> PROVE IsSeq(t) /\ Len(t) = 0
<1>1. t \in Seq({1})
  BY EmptyIn
<1>2. Len(t) = 0
  BY EmptyIn
<1>3. IsSeq(t)
  BY ONLY <1>1, SeqIs
<1> QED
  BY <1>2, <1>3

LEMMA OneElement == ASSUME NEW x PROVE IsSeq(<<x>>) /\ Len(<<x>>) = 1 /\ <<x>>[1] = x
<1>1. <<x>> \in Seq({x})
  OBVIOUS
<1> QED
  BY <1>1, SeqIs

--------------------------------------------------------------------------------
(* The invariant *)

Open(c)      == call[c].state \in {"waiting", "oneway"} /\ answers[c] = 0
Requested(c) == \E k \in DOMAIN requests : requests[k].serial = c

Records(f) ==
  f = [c \in Calls |-> [state |-> f[c].state, wrapper |-> f[c].wrapper,
                        message |-> f[c].message, result |-> f[c].result]]

\* call is a function of records, and no call was answered twice.
CallShape ==
  /\ Records(call)
  /\ answers \in [Calls -> {0, 1}]
  /\ IsSeq(requests) /\ IsSeq(replies)

\* A request is the only one of its call, which has no answer and no context yet.
RequestsOpen ==
  \A k \in DOMAIN requests :
    LET c == requests[k].serial IN
    /\ Open(c) /\ c \notin DOMAIN context
    /\ requests[k] = call[c].message
    /\ \A j \in DOMAIN requests : requests[j].serial = c => j = k

\* A context is that of a call without an answer.
ContextsOpen ==
  \A c \in DOMAIN context : Open(c) /\ context[c].send_reply = ~call[c].message.noreply

\* What is in the queue of replies is the answer of its call.
RepliesCounted == \A k \in DOMAIN replies : answers[replies[k].serial] = 1

\* The answers a call has in each of its states; and that one that waits without
\* an answer has somebody to answer it, or had a result that cannot be written, or
\* the service has ended.
Counted(c) ==
  /\ call[c].state = "idle" => answers[c] = 0
  /\ call[c].state = "done" => answers[c] = 1
  /\ call[c].state = "waiting" =>
       /\ ~call[c].message.noreply
       /\ answers[c] = 0 /\ ~Requested(c) /\ c \notin DOMAIN context =>
            Unwritable(c) \/ "service" \in aborted

CallsCounted == \A c \in Calls : Counted(c)

\* A message has the serial of its call.
MessagesNamed == \A c \in Calls : call[c].state # "idle" => call[c].message.serial = c

\* The contexts are gone with the service.
ContextsGone == "service" \in aborted => DOMAIN context = {}

Inv == /\ TypeOK /\ CallShape /\ RequestsOpen /\ ContextsOpen /\ RepliesCounted
       /\ CallsCounted /\ MessagesNamed /\ ContextsGone

--------------------------------------------------------------------------------
(* Replies *)

\* One reply to the call c.
One(c, reply) ==
  \E r : reply = <<r>> /\ r.serial = c /\ DOMAIN r = {"serial", "error", "args"}

LEMMA OneRecord ==
  ASSUME NEW c, NEW e, NEW args PROVE One(c, <<[serial |-> c, error |-> e, args |-> args]>>)
<1> DEFINE r == [serial |-> c, error |-> e, args |-> args]
<1>1. r.serial = c /\ DOMAIN r = {"serial", "error", "args"}
  OBVIOUS
<1> HIDE DEF r
<1>2. One(c, <<r>>)
  BY <1>1 DEF One
<1> QED
  BY <1>2 DEF r

LEMMA OneReturn == ASSUME NEW m, NEW args PROVE One(m.serial, Return(m, args))
BY OneRecord DEF Return

LEMMA OneError == ASSUME NEW m, NEW name PROVE One(m.serial, Error(m, name))
BY OneRecord DEF Error

\* An error is answered, unless its text cannot be written.
LEMMA OneGError ==
  ASSUME NEW m, NEW gerror
  PROVE  \/ One(m.serial, GErrorReply(m, gerror))
         \/ GErrorReply(m, gerror) = <<>> /\ gerror # None /\ ~gerror.utf8
BY OneError DEF GErrorReply

\* The error of an argument that cannot be read is always answered.
LEMMA OneRefusal ==
  ASSUME NEW m, NEW code PROVE One(m.serial, GErrorReply(m, GError(code)))
<1>1. GError(code).utf8
  BY DEF GError
<1> QED
  BY <1>1, OneGError

\* What was not given to a method is answered, whatever it asks for.
LEMMA OneIntrospect == ASSUME NEW m PROVE One(m.serial, Introspect(m).reply)
BY OneReturn DEF Introspect, Handled

LEMMA OneRefused ==
  ASSUME NEW m
  PROVE  /\ One(m.serial, AccessDenied(m).reply)
         /\ One(m.serial, InvalidArgs(m).reply)
         /\ One(m.serial, Failed(m).reply)
         /\ One(m.serial, NotHandled(m).reply)
BY OneError DEF AccessDenied, InvalidArgs, Failed, NotHandled, Handled

LEMMA OneGetAll == ASSUME NEW m PROVE One(m.serial, GetAll(m).reply)
BY OneReturn, OneRefused DEF GetAll, Handled

\* A value that can be read is of a type that fits.
LEMMA InsideRead ==
  ASSUME NEW variant, NEW g, Inside(variant, g) = "read" PROVE Demarshals(variant.of, g)
<1>1. PICK v : v = [t |-> variant.of, fault |-> variant.fault]
  OBVIOUS
<1>2. v.t = variant.of /\ Outcome(v, g) = "read"
  BY <1>1 DEF Inside
<1>3. ~Demarshals(v.t, g) => Outcome(v, g) = demarshals[v.t, g]
  BY DEF Outcome
<1> QED
  BY <1>2, <1>3 DEF Demarshals

\* A Get or a Set is refused, ends the process, reads a property, or writes one it
\* finds.
LEMMA GetOrSetCases ==
  ASSUME NEW m
  PROVE  \/ GetOrSet(m) = InvalidArgs(m) \/ GetOrSet(m) = AccessDenied(m)
         \/ GetOrSet(m) = Failed(m) \/ GetOrSet(m) = Aborted
         \/ \E args : GetOrSet(m) = Handled(Return(m, args))
         \/ \E p \in DOMAIN GProperties :
              /\ GetOrSet(m) = [reply |-> Return(m, <<>>), property |-> Set(p, m.args[3])]
              /\ m.member = "Set"
              /\ check_property_access(Text(m, 1), Text(m, 2),
                                       lookup_property_name(Text(m, 1), Text(m, 2)), TRUE)
              /\ 3 \in DOMAIN m.args /\ m.args[3].t = <<"v">>
              /\ Demarshals(m.args[3].of, GType(GProperties[p].type))
<1> DEFINE iface == Text(m, 1)
           asked == Text(m, 2)
           s     == lookup_property_name(iface, asked)
           isSet == m.member = "Set"
           p     == CHOOSE g \in Find(s) : TRUE
           outcome == Inside(m.args[3], GType(GProperties[p].type))
<1>1. Find(s) # {} => p \in DOMAIN GProperties
  BY DEF Find
<1>2. GetOrSet(m) =
        IF ~IsString(m, 1) \/ ~IsString(m, 2) THEN InvalidArgs(m)
        ELSE IF ~check_property_access(iface, asked, s, isSet) THEN AccessDenied(m)
        ELSE IF Find(s) = {} THEN InvalidArgs(m)
        ELSE IF ~isSet
        THEN IF Typed(p) /\ Marshals(p) THEN Handled(Return(m, <<Got(p)>>)) ELSE Failed(m)
        ELSE IF 3 \notin DOMAIN m.args THEN InvalidArgs(m)
        ELSE IF m.args[3].t # <<"v">> THEN InvalidArgs(m)
        ELSE IF outcome = "aborted" THEN Aborted
        ELSE IF outcome # "read" THEN InvalidArgs(m)
        ELSE [reply |-> Return(m, <<>>), property |-> Set(p, m.args[3])]
  BY Zenon DEF GetOrSet
<1>3. isSet => isSet = TRUE
  OBVIOUS
<1>4. check_property_access(iface, asked, s, isSet) /\ isSet =>
        check_property_access(iface, asked, s, TRUE)
  BY <1>3
<1>0. outcome = "read" => Demarshals(m.args[3].of, GType(GProperties[p].type))
  BY InsideRead
<1> HIDE DEF outcome, p, s, iface, asked
<1>5. \/ GetOrSet(m) = InvalidArgs(m) \/ GetOrSet(m) = AccessDenied(m)
      \/ GetOrSet(m) = Failed(m) \/ GetOrSet(m) = Aborted
      \/ GetOrSet(m) = Handled(Return(m, <<Got(p)>>))
      \/ /\ GetOrSet(m) = [reply |-> Return(m, <<>>), property |-> Set(p, m.args[3])]
         /\ m.member = "Set" /\ p \in DOMAIN GProperties
         /\ check_property_access(iface, asked, s, TRUE)
         /\ 3 \in DOMAIN m.args /\ m.args[3].t = <<"v">>
         /\ Demarshals(m.args[3].of, GType(GProperties[p].type))
  BY Zenon, <1>0, <1>1, <1>2, <1>4
<1> QED
  BY <1>5 DEF s, iface, asked

LEMMA OneGetOrSet ==
  ASSUME NEW m PROVE One(m.serial, GetOrSet(m).reply) \/ GetOrSet(m) = Aborted
<1>1. ASSUME NEW args PROVE Handled(Return(m, args)).reply = Return(m, args)
  BY DEF Handled
<1>2. ASSUME NEW reply, NEW p PROVE [reply |-> reply, property |-> p].reply = reply
  OBVIOUS
<1>3. ASSUME NEW args PROVE One(m.serial, Return(m, args))
  BY OneReturn
<1>4. CASE GetOrSet(m) \in {InvalidArgs(m), AccessDenied(m), Failed(m)}
  BY <1>4, OneRefused
<1>5. ASSUME NEW args, GetOrSet(m) = Handled(Return(m, args))
      PROVE  One(m.serial, GetOrSet(m).reply)
  BY Zenon, <1>1, <1>3, <1>5
<1>6. ASSUME NEW p, GetOrSet(m) = [reply |-> Return(m, <<>>), property |-> Set(p, m.args[3])]
      PROVE  One(m.serial, GetOrSet(m).reply)
  BY Zenon, <1>2, <1>3, <1>6
<1> QED
  BY Zenon, <1>4, <1>5, <1>6, GetOrSetCases

\* A method that returned has answered if an answer was wanted, unless its result
\* cannot be written.
LEMMA SyncAnswers ==
  ASSUME NEW at, NEW m, NEW result
  PROVE  \/ One(m.serial, SyncReply(at, m, result))
         \/ /\ SyncReply(at, m, result) = <<>>
            /\ \/ m.noreply
               \/ IF "error" \in DOMAIN result THEN result.error # None /\ ~result.error.utf8
                  ELSE \E k \in DOMAIN result.outs : result.outs[k].fault = "unwritable"
BY OneReturn, OneGError DEF SyncReply, ReturnOf

LEMMA AsyncAnswers ==
  ASSUME NEW at, NEW m, NEW result PROVE One(m.serial, AsyncReply(at, m, result))
BY OneReturn DEF AsyncReply, ReturnOf

--------------------------------------------------------------------------------
(* What a step does to the history of one call *)

\* The place of the call stays as it is.
SamePlace(c) ==
  /\ call'[c] = call[c] /\ answers'[c] = answers[c]
  /\ Requested(c)' <=> Requested(c)
  /\ c \in DOMAIN context' <=> c \in DOMAIN context
  /\ c \in DOMAIN context => context'[c] = context[c]
  /\ c \in DOMAIN given' <=> c \in DOMAIN given
  /\ c \in DOMAIN given => given'[c] = given[c]

\* What is in the queue of replies was there or answers c.
RepliesOf(c, n) ==
  /\ IsSeq(replies')
  /\ \A k \in DOMAIN replies' :
       \/ \E j \in DOMAIN replies : replies'[k] = replies[j]
       \/ /\ n = 1 /\ replies'[k].serial = c
          /\ DOMAIN replies'[k] = {"serial", "error", "args"}

\* An answer, or none, to a call that had none.
LEMMA SendsStep ==
  ASSUME CallShape, NEW c \in Calls, answers[c] = 0, NEW reply,
         One(c, reply) \/ reply = <<>>, Sends(c, reply)
  PROVE  \E n \in {0, 1} :
           /\ One(c, reply) => n = 1
           /\ reply = <<>> => n = 0
           /\ answers' \in [Calls -> {0, 1}]
           /\ answers' = [answers EXCEPT ![c] = n]
           /\ RepliesOf(c, n)
<1>1. answers \in [Calls -> {0, 1}] /\ IsSeq(replies)
  BY DEF CallShape
<1>2. replies' = replies \o reply /\ answers' = [answers EXCEPT ![c] = answers[c] + Len(reply)]
  BY DEF Sends
<1>3. CASE One(c, reply)
  <2>1. PICK r : reply = <<r>> /\ r.serial = c /\ DOMAIN r = {"serial", "error", "args"}
    BY <1>3 DEF One
  <2>2. IsSeq(reply) /\ Len(reply) = 1 /\ reply[1] = r
    BY <2>1, OneElement
  <2>3. /\ IsSeq(replies') /\ Len(replies) \in Nat
        /\ DOMAIN replies = 1 .. Len(replies) /\ DOMAIN replies' = 1 .. Len(replies) + 1
        /\ \A k \in 1 .. Len(replies) : replies'[k] = replies[k]
        /\ \A k \in 1 .. 1 : replies'[Len(replies) + k] = reply[k]
    <3>1. /\ IsSeq(replies') /\ Len(replies) \in Nat
          /\ DOMAIN replies = 1 .. Len(replies)
          /\ DOMAIN replies' = 1 .. Len(replies) + Len(reply)
          /\ \A k \in 1 .. Len(replies) : replies'[k] = replies[k]
          /\ \A k \in 1 .. Len(reply) : replies'[Len(replies) + k] = reply[k]
      <4>1. IsSeq(replies) /\ IsSeq(reply) /\ replies' = replies \o reply
        BY <1>1, <1>2, <2>2
      <4>2. IsSeq(replies')
        BY <4>1, Concatenated
      <4>3. Len(replies) \in Nat /\ DOMAIN replies = 1 .. Len(replies)
        BY <4>1, Concatenated
      <4>4. DOMAIN replies' = 1 .. Len(replies) + Len(reply)
        BY <4>1, Concatenated
      <4>5. \A k \in 1 .. Len(replies) : replies'[k] = replies[k]
        BY <4>1, Concatenated
      <4>6. \A k \in 1 .. Len(reply) : replies'[Len(replies) + k] = reply[k]
        BY <4>1, Concatenated
      <4> QED
        BY <4>2, <4>3, <4>4, <4>5, <4>6
    <3> QED
      BY Zenon, <2>2, <3>1
  <2>4. replies'[Len(replies) + 1] = r
    BY <2>2, <2>3
  <2>5. \A k \in DOMAIN replies' : k \in DOMAIN replies \/ k = Len(replies) + 1
    BY <2>3
  <2>6. RepliesOf(c, 1)
    BY <2>1, <2>3, <2>4, <2>5 DEF RepliesOf
  <2>7. answers' = [answers EXCEPT ![c] = 1]
    BY <1>2, <2>2
  <2>8. answers' \in [Calls -> {0, 1}]
    BY <1>1, <2>7
  <2>9. reply # <<>>
    BY <2>2, EmptyIs
  <2> QED
    BY <2>6, <2>7, <2>8, <2>9
<1>4. CASE reply = <<>>
  <2>1. IsSeq(replies') /\ DOMAIN replies' = 1 .. Len(replies) + 0 /\ Len(replies) \in Nat
        /\ DOMAIN replies = 1 .. Len(replies)
        /\ \A k \in 1 .. Len(replies) : replies'[k] = replies[k]
    BY <1>1, <1>2, <1>4, EmptyIs, Concatenated
  <2>2. DOMAIN replies' = DOMAIN replies
    BY <2>1
  <2>3. RepliesOf(c, 0)
    BY <2>1, <2>2 DEF RepliesOf
  <2>4. answers' = [answers EXCEPT ![c] = 0]
    BY <1>2, <1>4, EmptyIs
  <2>5. answers' \in [Calls -> {0, 1}]
    BY <1>1, <2>4
  <2>6. ~One(c, reply)
    <3>1. ASSUME NEW r, reply = <<r>> PROVE FALSE
      BY <1>4, <3>1, EmptyIs, OneElement
    <3> QED
      BY <3>1 DEF One
  <2> QED
    BY <2>3, <2>4, <2>5, <2>6
<1> QED
  BY <1>3, <1>4

\* The step for a request that is served: it leaves the queue.
LEMMA RequestServed ==
  ASSUME Inv, requests # <<>>, requests' = Tail(requests)
  PROVE  /\ Head(requests).serial \in Calls /\ Requested(Head(requests).serial)
         /\ Head(requests) = call[Head(requests).serial].message
         /\ Open(Head(requests).serial) /\ Head(requests).serial \notin DOMAIN context
         /\ IsSeq(requests')
         /\ \A k \in DOMAIN requests' :
              /\ k + 1 \in DOMAIN requests /\ requests'[k] = requests[k + 1]
              /\ requests'[k].serial # Head(requests).serial
         /\ \A d : Requested(d)' <=> Requested(d) /\ d # Head(requests).serial
<1> DEFINE m == Head(requests)
<1>1. /\ IsSeq(requests') /\ Len(requests) \in Nat \ {0} /\ DOMAIN requests = 1 .. Len(requests)
      /\ m = requests[1] /\ DOMAIN requests' = 1 .. Len(requests) - 1
      /\ \A k \in 1 .. Len(requests) - 1 : requests'[k] = requests[k + 1]
  BY Popped DEF Inv, CallShape
<1>2. 1 \in DOMAIN requests
  BY <1>1
<1>3. /\ m.serial \in Calls /\ m = call[m.serial].message /\ Open(m.serial)
      /\ m.serial \notin DOMAIN context
      /\ \A j \in DOMAIN requests : requests[j].serial = m.serial => j = 1
  BY <1>1, <1>2 DEF Inv, TypeOK, RequestsOpen
<1>4. ASSUME NEW k \in DOMAIN requests'
      PROVE  k + 1 \in DOMAIN requests /\ k + 1 # 1 /\ requests'[k] = requests[k + 1]
  BY <1>1
<1>5. \A k \in DOMAIN requests' : requests'[k].serial # m.serial
  BY <1>3, <1>4
<1>6. ASSUME NEW d PROVE Requested(d)' <=> Requested(d) /\ d # m.serial
  <2>1. ASSUME Requested(d)' PROVE Requested(d) /\ d # m.serial
    BY <1>4, <1>5, <2>1 DEF Requested
  <2>2. ASSUME Requested(d), d # m.serial PROVE Requested(d)'
    <3>1. PICK k \in DOMAIN requests : requests[k].serial = d
      BY <2>2 DEF Requested
    <3>2. k # 1
      BY <1>1, <2>2, <3>1
    <3>3. k - 1 \in DOMAIN requests' /\ requests'[k - 1] = requests[k]
      BY <1>1, <3>2
    <3> QED
      BY <3>1, <3>3 DEF Requested
  <2> QED
    BY <2>1, <2>2
<1>7. Requested(m.serial)
  BY <1>1, <1>2 DEF Requested
<1> QED
  BY <1>1, <1>3, <1>4, <1>5, <1>6, <1>7

\* The places of the other calls keep their part of the invariant.
LEMMA ContextsKept ==
  ASSUME Inv, DOMAIN context' \subseteq Calls, NEW c \in Calls,
         \A d \in Calls \ {c} : SamePlace(d),
         c \in DOMAIN context' =>
           Open(c)' /\ context'[c].send_reply = ~call'[c].message.noreply
  PROVE  ContextsOpen'
<1> SUFFICES ASSUME NEW d \in DOMAIN context', d # c
             PROVE  Open(d)' /\ context'[d].send_reply = ~call'[d].message.noreply
  BY DEF ContextsOpen
<1>1. d \in Calls /\ SamePlace(d)
  OBVIOUS
<1>2. d \in DOMAIN context /\ context'[d] = context[d] /\ call'[d] = call[d]
      /\ answers'[d] = answers[d]
  BY <1>1 DEF SamePlace
<1>3. Open(d) /\ context[d].send_reply = ~call[d].message.noreply
  BY <1>2 DEF Inv, ContextsOpen
<1> QED
  BY <1>2, <1>3 DEF Open

LEMMA CountedKept ==
  ASSUME Inv, NEW c \in Calls, \A d \in Calls \ {c} : SamePlace(d), Counted(c)',
         aborted \subseteq aborted'
  PROVE  CallsCounted'
<1> SUFFICES ASSUME NEW d \in Calls, d # c PROVE Counted(d)'
  BY DEF CallsCounted
<1>1. SamePlace(d)
  OBVIOUS
<1>2. Counted(d)
  BY DEF Inv, CallsCounted
<1>3. Unwritable(d)' <=> Unwritable(d)
  BY <1>1 DEF SamePlace, Unwritable
<1>4. /\ call'[d] = call[d] /\ answers'[d] = answers[d]
      /\ Requested(d)' <=> Requested(d)
      /\ d \in DOMAIN context' <=> d \in DOMAIN context
  BY <1>1 DEF SamePlace
<1> HIDE DEF Inv
<1> QED
  BY Zenon, <1>2, <1>3, <1>4 DEF Counted

\* The call stays what it is.
Still(c) ==
  /\ call'[c] = call[c] /\ answers'[c] = answers[c]
  /\ c \in DOMAIN context' => c \in DOMAIN context

LEMMA StillThere == ASSUME NEW c, SamePlace(c) PROVE Still(c)
BY DEF SamePlace, Still

\* The queue of requests is as before, or without its first.
QueueMoves ==
  \E i \in {0, 1} : \A k \in DOMAIN requests' :
    k + i \in DOMAIN requests /\ requests'[k] = requests[k + i]

LEMMA RequestsKept ==
  ASSUME Inv, NEW c \in Calls, \A d \in Calls \ {c} : Still(d), QueueMoves,
         IsSeq(requests'), ~Requested(c)'
  PROVE  /\ RequestsOpen'
         /\ \A k \in DOMAIN requests' : requests'[k].serial \in Calls
<1>1. PICK i \in {0, 1} : \A k \in DOMAIN requests' :
        k + i \in DOMAIN requests /\ requests'[k] = requests[k + i]
  BY DEF QueueMoves
<1>2. DOMAIN requests' \subseteq Nat
  BY DEF IsSeq
<1>3. \A k \in DOMAIN requests : requests[k].serial \in Calls
  BY DEF Inv, TypeOK
<1>4. RequestsOpen
  BY DEF Inv
<1> HIDE DEF Inv
<1>5. ASSUME NEW k \in DOMAIN requests', NEW d, d = requests'[k].serial
      PROVE  /\ call'[d].state \in {"waiting", "oneway"} /\ answers'[d] = 0
             /\ d \notin DOMAIN context'
             /\ requests'[k] = call'[d].message
             /\ \A j \in DOMAIN requests' : requests'[j].serial = d => j = k
             /\ d \in Calls
  <2>1. k + i \in DOMAIN requests /\ requests'[k] = requests[k + i]
    BY <1>1
  <2>2. /\ Open(d) /\ d \notin DOMAIN context /\ requests[k + i] = call[d].message
        /\ \A j \in DOMAIN requests : requests[j].serial = d => j = k + i
    BY <1>4, <1>5, <2>1 DEF RequestsOpen
  <2>3. d \in Calls /\ d # c
    BY <1>3, <1>5, <2>1 DEF Requested
  <2>4. Still(d)
    BY <2>3
  <2>5. call'[d].state \in {"waiting", "oneway"} /\ answers'[d] = 0 /\ d \notin DOMAIN context' /\ requests'[k] = call'[d].message
    <3>1. /\ call'[d] = call[d] /\ answers'[d] = answers[d]
          /\ d \in DOMAIN context' => d \in DOMAIN context
      BY <2>4 DEF Still
    <3> QED
      BY <2>1, <2>2, <3>1 DEF Open
  <2>6. ASSUME NEW j \in DOMAIN requests', requests'[j].serial = d
        PROVE  j = k
    <3>1. j + i \in DOMAIN requests /\ requests[j + i].serial = d
      BY <1>1, <2>6
    <3>2. j + i = k + i
      BY <2>2, <3>1
    <3>3. j \in Nat /\ k \in Nat
      BY <1>2
    <3> QED
      BY <3>2, <3>3
  <2> QED
    BY <2>3, <2>5, <2>6
<1>6. RequestsOpen'
  BY Zenon, <1>5 DEF RequestsOpen, Open
<1> QED
  BY <1>5, <1>6

\* The replies in the queue are those of calls that were answered.
LEMMA RepliesKept ==
  ASSUME Inv, NEW c \in Calls, NEW n \in {0, 1}, answers[c] = 0, RepliesOf(c, n),
         answers' = [answers EXCEPT ![c] = n]
  PROVE  /\ RepliesCounted'
         /\ \A k \in DOMAIN replies' : /\ replies'[k].serial \in Calls
                                      /\ DOMAIN replies'[k] = {"serial", "error", "args"}
<1>1. /\ answers \in [Calls -> {0, 1}] /\ RepliesCounted
      /\ \A k \in DOMAIN replies : /\ replies[k].serial \in Calls
                                  /\ DOMAIN replies[k] = {"serial", "error", "args"}
  BY DEF Inv, TypeOK, CallShape
<1> HIDE DEF Inv
<1> SUFFICES ASSUME NEW k \in DOMAIN replies'
             PROVE  /\ answers'[replies'[k].serial] = 1
                    /\ replies'[k].serial \in Calls
                    /\ DOMAIN replies'[k] = {"serial", "error", "args"}
  BY DEF RepliesCounted
<1>2. CASE \E j \in DOMAIN replies : replies'[k] = replies[j]
  <2>1. PICK j \in DOMAIN replies : replies'[k] = replies[j]
    BY <1>2
  <2>2. answers[replies[j].serial] = 1 /\ replies[j].serial \in Calls
    BY <1>1 DEF RepliesCounted
  <2>3. replies[j].serial # c
    BY <2>2
  <2> QED
    BY <1>1, <2>1, <2>2, <2>3
<1>3. CASE n = 1 /\ replies'[k].serial = c /\ DOMAIN replies'[k] = {"serial", "error", "args"}
  BY <1>1, <1>3
<1> QED
  BY <1>2, <1>3 DEF RepliesOf

--------------------------------------------------------------------------------
(* The steps *)

\* The variables whose part of the type invariant is not about one call.
SetupTypes ==
  /\ world \in DOMAIN Worlds
  /\ shadow \subseteq Shadows /\ legacy \in BOOLEAN /\ domains \subseteq DOMAIN ErrorDomains
  /\ DOMAIN property = DOMAIN GProperties

CallTypes ==
  \A c \in Calls :
    /\ call[c].state \in {"idle", "waiting", "oneway", "done"}
    /\ IF call[c].state = "idle" THEN call[c].message = None
       ELSE DOMAIN call[c].message = {"serial", "iface", "member", "args", "noreply"}
    /\ IF call[c].state = "done" THEN DOMAIN call[c].result \in {{"outs"}, {"error"}}
       ELSE call[c].result = None

LEMMA TypeParts ==
  TypeOK <=> /\ SetupTypes /\ CallTypes
             /\ DOMAIN call = Calls /\ answers \in [Calls -> Nat]
             /\ aborted \subseteq {"caller", "service"}
             /\ DOMAIN context \cup DOMAIN given \cup DOMAIN seen \subseteq Calls
             /\ \A k \in DOMAIN requests : requests[k].serial \in Calls
             /\ \A k \in DOMAIN replies : /\ replies[k].serial \in Calls
                                         /\ DOMAIN replies[k] = {"serial", "error", "args"}
BY DEF TypeOK, SetupTypes, CallTypes

\* The call c gives up the place it had without an answer: it is answered (n = 1),
\* or gets a context, or had a result that cannot be written; the others stay.
LeavesPlace(c, n) ==
  /\ Open(c) /\ UNCHANGED <<call, aborted>> /\ "service" \notin aborted
  /\ \A d \in Calls \ {c} : SamePlace(d)
  /\ QueueMoves /\ IsSeq(requests') /\ ~Requested(c)'
  /\ answers' = [answers EXCEPT ![c] = n] /\ RepliesOf(c, n)
  /\ DOMAIN context' \cup DOMAIN given' \cup DOMAIN seen' \subseteq Calls
  /\ c \in DOMAIN context' => n = 0 /\ context'[c].send_reply = ~call[c].message.noreply
  /\ c \notin DOMAIN context' /\ n = 0 /\ call[c].state = "waiting" => Unwritable(c)'

LEMMA PlaceStep ==
  ASSUME Inv, SetupTypes', NEW c \in Calls, NEW n \in {0, 1}, LeavesPlace(c, n)
  PROVE  Inv'
<1>0. /\ Open(c) /\ UNCHANGED call /\ aborted' = aborted /\ "service" \notin aborted
      /\ \A d \in Calls \ {c} : SamePlace(d)
      /\ QueueMoves /\ IsSeq(requests') /\ ~Requested(c)'
      /\ answers' = [answers EXCEPT ![c] = n] /\ RepliesOf(c, n)
      /\ DOMAIN context' \cup DOMAIN given' \cup DOMAIN seen' \subseteq Calls
      /\ c \in DOMAIN context' => n = 0 /\ context'[c].send_reply = ~call[c].message.noreply
      /\ c \notin DOMAIN context' /\ n = 0 /\ call[c].state = "waiting" => Unwritable(c)'
  BY Zenon DEF LeavesPlace
<1>1. TypeOK /\ CallShape /\ CallsCounted /\ MessagesNamed /\ CallTypes /\ DOMAIN call = Calls
  BY TypeParts DEF Inv
<1>2. Counted(c) /\ answers[c] = 0 /\ call[c].state \in {"waiting", "oneway"}
  BY <1>0, <1>1 DEF CallsCounted, Open
<1>3. answers \in [Calls -> {0, 1}]
  BY <1>1 DEF CallShape
<1> HIDE DEF Inv
<1>4. answers' \in [Calls -> {0, 1}] /\ answers'[c] = n
  BY <1>0, <1>3
<1>5. RepliesCounted' /\ \A k \in DOMAIN replies' : /\ replies'[k].serial \in Calls
                                      /\ DOMAIN replies'[k] = {"serial", "error", "args"}
  BY <1>0, <1>2, RepliesKept
<1>6. RequestsOpen' /\ \A k \in DOMAIN requests' : requests'[k].serial \in Calls
  BY <1>0, StillThere, RequestsKept
<1>7. CallShape'
  <2>1. IsSeq(replies')
    BY <1>0 DEF RepliesOf
  <2> QED
    BY <1>0, <1>1, <1>4, <2>1 DEF CallShape, Records
<1>8. ContextsOpen'
  <2>1. c \in DOMAIN context' => Open(c)' /\ context'[c].send_reply = ~call'[c].message.noreply
    BY <1>0, <1>2, <1>4 DEF Open
  <2> QED
    BY <1>0, <2>1, ContextsKept
<1>9. CallsCounted'
  <2>1. Counted(c)'
    BY <1>0, <1>2, <1>4 DEF Counted
  <2> QED
    BY <1>0, <2>1, CountedKept
<1>10. TypeOK'
  <2>1. CallTypes'
    BY <1>0, <1>1 DEF CallTypes
  <2>2. answers' \in [Calls -> Nat]
    BY <1>4
  <2> QED
    BY <1>0, <1>1, <1>5, <1>6, <2>1, <2>2 DEF TypeOK, SetupTypes, CallTypes
<1>11. MessagesNamed' /\ ContextsGone'
  BY <1>0, <1>1 DEF MessagesNamed, ContextsGone
<1> QED
  BY <1>5, <1>6, <1>7, <1>8, <1>9, <1>10, <1>11 DEF Inv

\* What Set leaves of the properties is a value for each.
LEMMA SetDomain ==
  ASSUME NEW p, NEW v PROVE DOMAIN Set(p, v) = DOMAIN property
BY DEF Set

LEMMA StandardProperty ==
  ASSUME NEW m
  PROVE  DOMAIN GetOrSet(m).property = DOMAIN property
<1>1. ASSUME NEW reply PROVE Handled(reply).property = property
  BY DEF Handled
<1>2. ASSUME NEW reply, NEW p, NEW v
      PROVE  DOMAIN [reply |-> reply, property |-> Set(p, v)].property = DOMAIN property
  BY SetDomain
<1>3. CASE GetOrSet(m) \in {InvalidArgs(m), AccessDenied(m), Failed(m), Aborted}
  BY <1>1, <1>3 DEF InvalidArgs, AccessDenied, Failed, Aborted
<1>4. ASSUME NEW args, GetOrSet(m) = Handled(Return(m, args))
      PROVE  DOMAIN GetOrSet(m).property = DOMAIN property
  BY Zenon, <1>1, <1>4
<1>5. ASSUME NEW p, GetOrSet(m) = [reply |-> Return(m, <<>>), property |-> Set(p, m.args[3])]
      PROVE  DOMAIN GetOrSet(m).property = DOMAIN property
  BY Zenon, <1>2, <1>5
<1> QED
  BY Zenon, <1>3, <1>4, <1>5, GetOrSetCases

\* Introspection and GetAll change no property.
LEMMA NothingSet ==
  ASSUME NEW m
  PROVE  /\ Introspect(m).property = property
         /\ GetAll(m).property = property
         /\ NotHandled(m).property = property
BY DEF Introspect, GetAll, NotHandled, InvalidArgs, Failed, Handled

\* A request that the library serves itself is answered, or ends the service.
LEMMA StandardReply ==
  ASSUME NEW m, Standard(m), ~Ends
  PROVE  /\ \E reply : One(m.serial, reply) /\ Sends(m.serial, reply)
         /\ DOMAIN property' = DOMAIN property
         /\ \/ property' = property
            \/ /\ m.iface = PropertiesIface /\ property' = GetOrSet(m).property
         /\ UNCHANGED <<context, seen, given, aborted>>
<1> DEFINE is(iface, member) == m.iface = iface /\ m.member = member
           h == IF is(IntrospectableIface, "Introspect") THEN Introspect(m)
                ELSE IF is(PropertiesIface, "Get") \/ is(PropertiesIface, "Set") THEN GetOrSet(m)
                ELSE IF is(PropertiesIface, "GetAll") THEN GetAll(m)
                ELSE NotHandled(m)
<1>1. /\ h.reply # None /\ Sends(m.serial, h.reply) /\ property' = h.property
      /\ UNCHANGED <<context, seen, given, aborted>>
  BY DEF Standard
<1>2. \/ h = Introspect(m) \/ h = GetAll(m) \/ h = NotHandled(m)
      \/ h = GetOrSet(m) /\ m.iface = PropertiesIface
  BY Zenon
<1> HIDE DEF h
<1>3. One(m.serial, h.reply)
  <2>1. Aborted.reply = None
    BY DEF Aborted, Handled
  <2> QED
    BY <1>1, <1>2, <2>1, OneIntrospect, OneGetAll, OneRefused, OneGetOrSet
<1>4. \/ property' = property
      \/ m.iface = PropertiesIface /\ property' = GetOrSet(m).property
  BY <1>1, <1>2, NothingSet
<1> QED
  BY <1>1, <1>3, <1>4, StandardProperty

\* A step of the service on c leaves the places of the other calls alone.
LEMMA OthersStay ==
  ASSUME NEW c, NEW n \in {0, 1}, UNCHANGED call, answers' = [answers EXCEPT ![c] = n],
         \A d : d # c => (Requested(d)' <=> Requested(d)),
         \A d : d # c => /\ d \in DOMAIN context' <=> d \in DOMAIN context
                         /\ d \in DOMAIN context => context'[d] = context[d],
         \A d : d # c => /\ d \in DOMAIN given' <=> d \in DOMAIN given
                         /\ d \in DOMAIN given => given'[d] = given[d]
  PROVE  \A d \in Calls \ {c} : SamePlace(d)
BY DEF SamePlace

\* A request is served in one of these ways.
LEMMA Serves ==
  ASSUME NEW m, NEW at, Standard(m) \/ Invokes(at, m)
  PROVE  \/ Standard(m) /\ ~Ends
         \/ Ends
         \/ \E code : RefusesArguments(m, GError(code))
         \/ InvokesSync(at, m)
         \/ InvokesAsync(at, m)
BY Zenon DEF Invokes

\* A request that does not end the service is answered, or now held by its method.
LEMMA DispatchPlace ==
  ASSUME Inv, Dispatch, ~Ends
  PROVE  /\ SetupTypes'
         /\ LET c == Head(requests).serial IN
            c \in Calls /\ \E n \in {0, 1} : LeavesPlace(c, n)
<1> DEFINE m == Head(requests)
           at == lookup_object_and_method(m)
<1>1. PICK c : c = m.serial
  OBVIOUS
<1>2. /\ requests # <<>> /\ requests' = Tail(requests) /\ UNCHANGED <<setup, call>>
      /\ "service" \notin aborted
  BY DEF Dispatch
<1>3. /\ c \in Calls /\ Requested(c) /\ m = call[c].message
      /\ Open(c) /\ c \notin DOMAIN context
      /\ IsSeq(requests')
      /\ \A k \in DOMAIN requests' :
           /\ k + 1 \in DOMAIN requests /\ requests'[k] = requests[k + 1]
           /\ requests'[k].serial # c
      /\ \A d : Requested(d)' <=> Requested(d) /\ d # c
  BY <1>1, <1>2, RequestServed
<1>4. QueueMoves /\ ~Requested(c)' /\ UNCHANGED call
      /\ \A d : d # c => (Requested(d)' <=> Requested(d))
  <2>1. QueueMoves
    BY <1>3 DEF QueueMoves
  <2> QED
    BY <1>2, <1>3, <2>1
<1>5. /\ CallShape /\ SetupTypes /\ answers[c] = 0 /\ answers \in [Calls -> {0, 1}]
      /\ DOMAIN context \cup DOMAIN given \cup DOMAIN seen \subseteq Calls
      /\ IsSeq(replies)
  BY <1>3, TypeParts DEF Inv, CallShape, Open
<1>6. \/ Standard(m) /\ ~Ends
      \/ \E code : RefusesArguments(m, GError(code))
      \/ InvokesSync(at, m)
      \/ InvokesAsync(at, m)
  <2>1. Standard(m) \/ Invokes(at, m)
    BY Zenon DEF Dispatch
  <2> QED
    BY Zenon, <2>1, Serves
<1>7. DOMAIN property' = DOMAIN property => SetupTypes'
  BY <1>2, <1>5 DEF SetupTypes, setup, glue
<1> HIDE DEF m, at, Inv
<1>8. CASE Standard(m) /\ ~Ends
  <2>1. PICK reply : One(c, reply) /\ Sends(c, reply)
    BY <1>1, <1>8, StandardReply
  <2>2. UNCHANGED <<context, seen, given, aborted>> /\ DOMAIN property' = DOMAIN property
    BY <1>8, StandardReply
  <2>3. answers' = [answers EXCEPT ![c] = 1] /\ RepliesOf(c, 1)
    BY <1>3, <1>5, <2>1, SendsStep
  <2>4. \A d \in Calls \ {c} : SamePlace(d)
    BY <1>4, <2>2, <2>3, OthersStay
  <2>5. LeavesPlace(c, 1)
    BY <1>2, <1>3, <1>4, <1>5, <2>2, <2>3, <2>4 DEF LeavesPlace
  <2> QED
    BY <1>1, <1>3, <1>7, <2>2, <2>5 DEF m
<1>9. CASE \E code : RefusesArguments(m, GError(code))
  <2>1. PICK reply : One(c, reply) /\ Sends(c, reply)
    BY <1>1, <1>9, OneRefusal DEF RefusesArguments
  <2>2. UNCHANGED <<context, seen, given, property, aborted>>
    BY <1>9 DEF RefusesArguments
  <2>3. answers' = [answers EXCEPT ![c] = 1] /\ RepliesOf(c, 1)
    BY <1>3, <1>5, <2>1, SendsStep
  <2>4. \A d \in Calls \ {c} : SamePlace(d)
    BY <1>4, <2>2, <2>3, OthersStay
  <2>5. LeavesPlace(c, 1)
    BY <1>2, <1>3, <1>4, <1>5, <2>2, <2>3, <2>4 DEF LeavesPlace
  <2> QED
    BY <1>1, <1>3, <1>7, <2>2, <2>5 DEF m
<1>10. CASE InvokesSync(at, m)
  <2>1. PICK result : given' = With(given, c, result) /\ Sends(c, SyncReply(at, m, result))
    BY <1>1, <1>10 DEF InvokesSync
  <2>2. UNCHANGED <<property, context, aborted>> /\ seen' = With(seen, c, Passed(at, m))
    BY <1>1, <1>10 DEF InvokesSync
  <2>3. PICK reply : reply = SyncReply(at, m, result)
    OBVIOUS
  <2>4. \/ One(c, reply)
        \/ /\ reply = <<>>
           /\ \/ m.noreply
              \/ IF "error" \in DOMAIN result THEN result.error # None /\ ~result.error.utf8
                 ELSE \E k \in DOMAIN result.outs : result.outs[k].fault = "unwritable"
    BY <1>1, <2>3, SyncAnswers
  <2>5. PICK n \in {0, 1} : /\ One(c, reply) => n = 1
                            /\ answers' = [answers EXCEPT ![c] = n]
                            /\ RepliesOf(c, n)
    BY <1>3, <1>5, <2>1, <2>3, <2>4, SendsStep
  <2>6. /\ DOMAIN given' = DOMAIN given \cup {c} /\ given'[c] = result
        /\ DOMAIN seen' = DOMAIN seen \cup {c}
        /\ \A d : d # c => /\ d \in DOMAIN given' <=> d \in DOMAIN given
                           /\ d \in DOMAIN given => given'[d] = given[d]
    BY <2>1, <2>2 DEF With
  <2>7. \A d \in Calls \ {c} : SamePlace(d)
    BY <1>4, <2>2, <2>5, <2>6, OthersStay
  <2>8. n = 0 /\ call[c].state = "waiting" => Unwritable(c)'
    <3>1. call[c].state = "waiting" => ~m.noreply
      BY <1>3 DEF Inv, CallsCounted, Counted
    <3> QED
      BY <2>4, <2>5, <2>6, <3>1 DEF Unwritable
  <2>9. LeavesPlace(c, n)
    BY <1>2, <1>3, <1>4, <1>5, <2>2, <2>5, <2>6, <2>7, <2>8 DEF LeavesPlace
  <2> QED
    BY <1>1, <1>3, <1>7, <2>2, <2>9 DEF m
<1>11. CASE InvokesAsync(at, m)
  <2>1. /\ context' = With(context, c, [at |-> at, send_reply |-> ~m.noreply])
        /\ seen' = With(seen, c, Passed(at, m))
        /\ UNCHANGED <<property, replies, given, answers, aborted>>
    BY <1>1, <1>11 DEF InvokesAsync
  <2>2. /\ DOMAIN context' = DOMAIN context \cup {c}
        /\ context'[c].send_reply = ~m.noreply
        /\ DOMAIN seen' = DOMAIN seen \cup {c}
        /\ \A d : d # c => /\ d \in DOMAIN context' <=> d \in DOMAIN context
                           /\ d \in DOMAIN context => context'[d] = context[d]
    <3>1. [at |-> at, send_reply |-> ~m.noreply].send_reply = ~m.noreply
      OBVIOUS
    <3> DEFINE r == [at |-> at, send_reply |-> ~m.noreply]
    <3>2. context' = With(context, c, r) /\ r.send_reply = ~m.noreply
      BY <2>1, <3>1
    <3> HIDE DEF r
    <3>3. context'[c] = r
      BY <3>2 DEF With
    <3> QED
      BY <2>1, <3>2, <3>3 DEF With
  <2>3. answers' = [answers EXCEPT ![c] = 0]
    BY <1>5, <2>1
  <2>4. RepliesOf(c, 0)
    BY <1>5, <2>1 DEF RepliesOf
  <2>5. \A d \in Calls \ {c} : SamePlace(d)
    BY <1>4, <2>1, <2>2, <2>3, OthersStay
  <2>6. LeavesPlace(c, 0)
    BY <1>2, <1>3, <1>4, <1>5, <2>1, <2>2, <2>3, <2>4, <2>5 DEF LeavesPlace
  <2> QED
    BY <1>1, <1>3, <1>7, <2>1, <2>6 DEF m
<1> QED
  BY <1>6, <1>8, <1>9, <1>10, <1>11

\* A context is used up by an answer.
LEMMA AnswersPlace ==
  ASSUME Inv, NEW c \in Calls, NEW result, NEW reply, Answers(c, result, reply),
         \/ One(c, reply)
         \/ /\ reply = <<>>
            /\ \/ call[c].message.noreply
               \/ IF "error" \in DOMAIN result THEN result.error # None /\ ~result.error.utf8
                  ELSE \E k \in DOMAIN result.outs : result.outs[k].fault = "unwritable"
  PROVE  SetupTypes' /\ \E n \in {0, 1} : LeavesPlace(c, n)
<1>1. /\ c \in DOMAIN context /\ context' = Without(context, c)
      /\ given' = With(given, c, result) /\ Sends(c, reply)
      /\ UNCHANGED <<setup, property, call, requests, seen, aborted>>
  BY DEF Answers
<1>2. /\ CallShape /\ SetupTypes /\ Open(c) /\ answers[c] = 0 /\ RequestsOpen
      /\ DOMAIN context \cup DOMAIN given \cup DOMAIN seen \subseteq Calls
      /\ \A k \in DOMAIN requests : requests[k].serial \in Calls
      /\ "service" \notin aborted
  BY <1>1, TypeParts DEF Inv, ContextsOpen, ContextsGone, Open
<1>3. call[c].state = "waiting" => ~call[c].message.noreply
  BY DEF Inv, CallsCounted, Counted
<1> HIDE DEF Inv
<1>4. SetupTypes'
  BY <1>1, <1>2 DEF SetupTypes, setup, glue
<1>5. QueueMoves /\ IsSeq(requests') /\ ~Requested(c)'
  <2>1. DOMAIN requests \subseteq Nat
    BY <1>2 DEF CallShape, IsSeq
  <2>2. QueueMoves
    BY <1>1, <2>1 DEF QueueMoves
  <2>3. ~Requested(c)'
    BY <1>1, <1>2 DEF Requested, RequestsOpen
  <2> QED
    BY <1>1, <1>2, <2>2, <2>3 DEF CallShape
<1>6. PICK n \in {0, 1} : /\ One(c, reply) => n = 1
                          /\ answers' = [answers EXCEPT ![c] = n]
                          /\ RepliesOf(c, n)
  BY <1>1, <1>2, SendsStep
<1>7. /\ DOMAIN given' = DOMAIN given \cup {c} /\ given'[c] = result
      /\ \A d : d # c => /\ d \in DOMAIN given' <=> d \in DOMAIN given
                         /\ d \in DOMAIN given => given'[d] = given[d]
  BY <1>1 DEF With
<1>8. /\ DOMAIN context' = DOMAIN context \ {c}
      /\ \A d : d # c => /\ d \in DOMAIN context' <=> d \in DOMAIN context
                         /\ d \in DOMAIN context => context'[d] = context[d]
  BY <1>1 DEF Without
<1>9. \A d \in Calls \ {c} : SamePlace(d)
  <2>1. UNCHANGED call /\ \A d : Requested(d)' <=> Requested(d)
    BY <1>1 DEF Requested
  <2> QED
    BY <1>6, <1>7, <1>8, <2>1, OthersStay
<1>10. n = 0 /\ call[c].state = "waiting" => Unwritable(c)'
  BY <1>3, <1>6, <1>7 DEF Unwritable
<1>11. LeavesPlace(c, n)
  BY <1>1, <1>2, <1>5, <1>6, <1>7, <1>8, <1>9, <1>10 DEF LeavesPlace
<1> QED
  BY <1>4, <1>11

\* The message of a call that holds a context has the serial of the call.
LEMMA MethodPlace ==
  ASSUME Inv, NEW c \in Calls, MethodReturn(c) \/ MethodReturnError(c) \/ MethodSendReply(c)
  PROVE  SetupTypes' /\ \E n \in {0, 1} : LeavesPlace(c, n)
<1> DEFINE m == call[c].message
<1>1. c \in DOMAIN context
  BY DEF MethodReturn, MethodReturnError, MethodSendReply
<1>2. context[c].send_reply = ~m.noreply /\ m.serial = c
  BY <1>1 DEF Inv, ContextsOpen, MessagesNamed, Open
<1> HIDE DEF Inv
<1>3. CASE MethodReturn(c)
  <2>1. PICK result : Answers(c, result, IF context[c].send_reply
                                         THEN AsyncReply(context[c].at, m, result) ELSE <<>>)
    BY <1>3 DEF MethodReturn
  <2>2. PICK reply : reply = IF context[c].send_reply
                             THEN AsyncReply(context[c].at, m, result) ELSE <<>>
    OBVIOUS
  <2>3. One(c, reply) \/ (reply = <<>> /\ m.noreply)
    BY <1>2, <2>2, AsyncAnswers
  <2>4. Answers(c, result, reply)
    BY <2>1, <2>2
  <2> QED
    BY <2>3, <2>4, AnswersPlace DEF m
<1>4. CASE MethodReturnError(c)
  <2>1. PICK e : Answers(c, [error |-> e], IF context[c].send_reply THEN GErrorReply(m, e) ELSE <<>>)
    BY <1>4 DEF MethodReturnError
  <2>2. PICK reply : reply = IF context[c].send_reply THEN GErrorReply(m, e) ELSE <<>>
    OBVIOUS
  <2>3. PICK result : result = [error |-> e]
    OBVIOUS
  <2>4. "error" \in DOMAIN result /\ result.error = e
    BY <2>3
  <2>5. \/ One(c, reply)
        \/ reply = <<>> /\ (m.noreply \/ (e # None /\ ~e.utf8))
    BY <1>2, <2>2, OneGError
  <2>6. Answers(c, result, reply)
    BY <2>1, <2>2, <2>3
  <2> HIDE DEF m
  <2>7. \/ One(c, reply)
        \/ /\ reply = <<>>
           /\ \/ m.noreply
              \/ IF "error" \in DOMAIN result THEN result.error # None /\ ~result.error.utf8
                 ELSE \E k \in DOMAIN result.outs : result.outs[k].fault = "unwritable"
    BY <2>4, <2>5
  <2> QED
    BY <2>6, <2>7, AnswersPlace DEF m
<1>5. CASE MethodSendReply(c)
  <2>1. PICK result, args : Answers(c, result, Return(m, args))
    BY <1>5 DEF MethodSendReply
  <2>2. One(c, Return(m, args))
    BY <1>2, OneReturn
  <2> QED
    BY <2>1, <2>2, AnswersPlace
<1> QED
  BY <1>3, <1>4, <1>5

\* The record of one call is written.
Shaped(x) ==
  x = [state |-> x.state, wrapper |-> x.wrapper, message |-> x.message, result |-> x.result]

LEMMA RecordShaped ==
  ASSUME NEW st, NEW w, NEW m, NEW res, NEW r,
         r = [state |-> st, wrapper |-> w, message |-> m, result |-> res]
  PROVE  Shaped(r) /\ r.state = st /\ r.wrapper = w /\ r.message = m /\ r.result = res
BY DEF Shaped

LEMMA ShapeKept ==
  ASSUME CallShape, NEW c \in Calls, NEW r, Shaped(r), call' = [call EXCEPT ![c] = r]
  PROVE  /\ Records(call)'
         /\ call'[c] = r
         /\ \A d \in Calls \ {c} : call'[d] = call[d]
<1>1. call = [d \in Calls |-> [state |-> call[d].state, wrapper |-> call[d].wrapper,
                               message |-> call[d].message, result |-> call[d].result]]
  BY DEF CallShape, Records
<1>2. DOMAIN call = Calls /\ \A d \in Calls : Shaped(call[d])
  BY Zenon, <1>1 DEF Shaped
<1>3. call' = [d \in Calls |-> IF d = c THEN r ELSE call[d]]
  BY <1>1, <1>2
<1>4. call' = [d \in Calls |-> call'[d]] /\ \A d \in Calls : Shaped(call'[d])
  BY <1>2, <1>3
<1>5. call'[c] = r /\ \A d \in Calls \ {c} : call'[d] = call[d]
  BY <1>3
<1>6. Records(call)'
  BY Zenon, <1>4 DEF Shaped, Records
<1> QED
  BY <1>5, <1>6

\* A call is made: its message is behind the others in the queue.
MakesCall(c) ==
  /\ \E m \in {call'[c].message} :
       /\ m.serial = c /\ DOMAIN m = {"serial", "iface", "member", "args", "noreply"}
       /\ call'[c].state \in {"waiting", "oneway"} /\ call'[c].result = None
       /\ call'[c].state = "waiting" => ~m.noreply
       /\ requests' = Append(requests, m)
  /\ call[c].state = "idle"
  /\ \A d \in Calls \ {c} : call'[d] = call[d]
  /\ Records(call)'
  /\ aborted = {}
  /\ UNCHANGED <<setup, property, replies, context, seen, given, answers, aborted>>

LEMMA MadeMakes ==
  ASSUME CallShape, NEW c \in Calls, NEW w, NEW m, m.serial = c,
         DOMAIN m = {"serial", "iface", "member", "args", "noreply"}, Made(c, w, m)
  PROVE  MakesCall(c)
<1>1. /\ call[c].state = "idle" /\ requests' = Append(requests, m)
      /\ call' = [call EXCEPT ![c] = [state |-> IF m.noreply THEN "oneway" ELSE "waiting",
                                      wrapper |-> w, message |-> m, result |-> None]]
      /\ aborted = {}
      /\ UNCHANGED <<setup, property, replies, context, seen, given, answers, aborted>>
  BY DEF Made
<1>2. PICK st : st = IF m.noreply THEN "oneway" ELSE "waiting"
  OBVIOUS
<1>3. call' = [call EXCEPT ![c] = [state |-> st, wrapper |-> w, message |-> m, result |-> None]]
  BY <1>1, <1>2
<1>4. /\ Records(call)'
      /\ call'[c].state = st /\ call'[c].message = m /\ call'[c].result = None
      /\ \A d \in Calls \ {c} : call'[d] = call[d]
  <2>1. PICK r : r = [state |-> st, wrapper |-> w, message |-> m, result |-> None]
    OBVIOUS
  <2>2. Shaped(r) /\ r.state = st /\ r.message = m /\ r.result = None
    BY <2>1, RecordShaped
  <2>3. call' = [call EXCEPT ![c] = r]
    BY <1>3, <2>1
  <2>4. Records(call)' /\ call'[c] = r /\ \A d \in Calls \ {c} : call'[d] = call[d]
    BY <2>2, <2>3, ShapeKept
  <2> QED
    BY <2>2, <2>4
<1> QED
  BY <1>1, <1>2, <1>4 DEF MakesCall

LEMMA CallMakes ==
  ASSUME CallShape, NEW c \in Calls, Call(c) \/ SendRaw(c)
  PROVE  MakesCall(c)
<1>1. ASSUME NEW i, NEW mm, NEW args, NEW nr, NEW w,
             Made(c, w, [serial |-> c, iface |-> i, member |-> mm, args |-> args, noreply |-> nr])
      PROVE  MakesCall(c)
  <2> DEFINE m == [serial |-> c, iface |-> i, member |-> mm, args |-> args, noreply |-> nr]
  <2>1. m.serial = c /\ DOMAIN m = {"serial", "iface", "member", "args", "noreply"}
    OBVIOUS
  <2>2. Made(c, w, m)
    BY <1>1
  <2> HIDE DEF m
  <2> QED
    BY <2>1, <2>2, MadeMakes
<1>2. CASE Call(c)
  BY Zenon, <1>1, <1>2 DEF Call
<1>3. CASE SendRaw(c)
  BY Zenon, <1>1, <1>3 DEF SendRaw
<1> QED
  BY <1>2, <1>3

LEMMA MakesStep ==
  ASSUME Inv, NEW c \in Calls, MakesCall(c)
  PROVE  /\ Inv'
         /\ \A d \in Calls \ {c} : SamePlace(d)
<1>1. PICK m : /\ m = call'[c].message
               /\ m.serial = c /\ DOMAIN m = {"serial", "iface", "member", "args", "noreply"}
               /\ call'[c].state \in {"waiting", "oneway"} /\ call'[c].result = None
               /\ call'[c].state = "waiting" => ~m.noreply
               /\ requests' = Append(requests, m)
  BY DEF MakesCall
<1>2. /\ call[c].state = "idle"
      /\ \A d \in Calls \ {c} : call'[d] = call[d]
      /\ Records(call)'
      /\ aborted = {} /\ aborted' = aborted
      /\ UNCHANGED <<setup, property, replies, context, seen, given, answers>>
  BY Zenon DEF MakesCall
<1>3. /\ TypeOK /\ CallShape /\ RequestsOpen /\ ContextsOpen /\ RepliesCounted /\ CallsCounted
      /\ MessagesNamed /\ CallTypes /\ SetupTypes
  BY TypeParts DEF Inv
<1>4. answers[c] = 0 /\ c \notin DOMAIN context /\ ~Requested(c)
  <2>1. answers[c] = 0
    BY <1>2, <1>3 DEF CallsCounted, Counted
  <2>2. c \notin DOMAIN context
    BY <1>2, <1>3 DEF ContextsOpen, Open
  <2>3. ~Requested(c)
    BY <1>2, <1>3 DEF Requested, RequestsOpen, Open
  <2> QED
    BY <2>1, <2>2, <2>3
<1>5. /\ IsSeq(requests') /\ Len(requests) \in Nat /\ DOMAIN requests = 1 .. Len(requests)
      /\ DOMAIN requests' = 1 .. Len(requests) + 1
      /\ \A k \in DOMAIN requests : requests'[k] = requests[k]
      /\ requests'[Len(requests) + 1] = m
  BY <1>1, <1>3, Appended DEF CallShape
<1>6. /\ \A k \in DOMAIN requests' : k \in DOMAIN requests \/ k = Len(requests) + 1
      /\ Len(requests) + 1 \in DOMAIN requests'
      /\ \A k \in DOMAIN requests : k \in DOMAIN requests' /\ k # Len(requests) + 1
  BY <1>5
<1>7. Requested(c)' /\ \A d : d # c => (Requested(d)' <=> Requested(d))
  BY <1>1, <1>5, <1>6 DEF Requested
<1>8. \A d \in Calls \ {c} : SamePlace(d)
  BY <1>2, <1>7 DEF SamePlace
<1> HIDE DEF Inv
<1>9. RequestsOpen'
  <2> SUFFICES ASSUME NEW k \in DOMAIN requests', NEW d, d = requests'[k].serial
               PROVE  /\ call'[d].state \in {"waiting", "oneway"} /\ answers'[d] = 0
                      /\ d \notin DOMAIN context'
                      /\ requests'[k] = call'[d].message
                      /\ \A j \in DOMAIN requests' : requests'[j].serial = d => j = k
    BY Zenon DEF RequestsOpen, Open
  <2>1. CASE k \in DOMAIN requests
    <3>1. requests'[k] = requests[k] /\ d = requests[k].serial
      BY <1>5, <2>1
    <3>2. /\ Open(d) /\ d \notin DOMAIN context /\ requests[k] = call[d].message
          /\ \A j \in DOMAIN requests : requests[j].serial = d => j = k
      BY <1>3, <2>1, <3>1 DEF RequestsOpen
    <3>3. d \in Calls /\ d # c
      BY <1>3, <1>4, <2>1, <3>1 DEF TypeOK, Requested
    <3>4. call'[d] = call[d] /\ answers'[d] = answers[d]
      BY <1>2, <3>3
    <3>5. \A j \in DOMAIN requests' : requests'[j].serial = d => j = k
      BY <1>1, <1>5, <1>6, <3>2, <3>3
    <3> QED
      BY <1>2, <3>1, <3>2, <3>4, <3>5 DEF Open
  <2>2. CASE k = Len(requests) + 1
    <3>1. requests'[k] = m /\ d = c
      BY <1>1, <1>5, <2>2
    <3>2. \A j \in DOMAIN requests' : requests'[j].serial = d => j = k
      BY <1>4, <1>5, <1>6, <2>2, <3>1 DEF Requested
    <3> QED
      BY <1>1, <1>2, <1>4, <3>1, <3>2
  <2> QED
    BY <1>6, <2>1, <2>2
<1>10. ContextsOpen'
  BY <1>2, <1>3, <1>4, <1>8, ContextsKept DEF TypeOK
<1>11. CallsCounted'
  <2>1. Counted(c)'
    BY <1>1, <1>2, <1>4, <1>7 DEF Counted
  <2> QED
    BY <1>2, <1>8, <2>1, CountedKept
<1>12. CallShape'
  BY <1>2, <1>3, <1>5 DEF CallShape
<1>13. RepliesCounted' /\ MessagesNamed' /\ ContextsGone'
  <2>1. RepliesCounted'
    BY <1>2, <1>3 DEF RepliesCounted
  <2>2. MessagesNamed'
    BY <1>1, <1>2, <1>3 DEF MessagesNamed
  <2>3. ContextsGone'
    BY <1>2 DEF ContextsGone
  <2> QED
    BY <2>1, <2>2, <2>3
<1>14. TypeOK'
  <2>1. SetupTypes'
    BY <1>2, <1>3 DEF SetupTypes, setup, glue
  <2>2. CallTypes'
    <3> SUFFICES ASSUME NEW d \in Calls
                 PROVE  /\ call'[d].state \in {"idle", "waiting", "oneway", "done"}
                        /\ IF call'[d].state = "idle" THEN call'[d].message = None
                           ELSE DOMAIN call'[d].message = {"serial", "iface", "member", "args", "noreply"}
                        /\ IF call'[d].state = "done" THEN DOMAIN call'[d].result \in {{"outs"}, {"error"}}
                           ELSE call'[d].result = None
      BY Zenon DEF CallTypes
    <3>1. CASE d = c
      BY <1>1, <3>1
    <3>2. CASE d # c
      <4>1. call'[d] = call[d]
        BY <1>2, <3>2
      <4> QED
        BY <1>3, <4>1 DEF CallTypes
    <3> QED
      BY <3>1, <3>2
  <2>3. DOMAIN call' = Calls
    BY <1>2 DEF Records
  <2>4. \A k \in DOMAIN requests' : requests'[k].serial \in Calls
    BY <1>1, <1>3, <1>5, <1>6 DEF TypeOK
  <2> QED
    BY <1>2, <1>3, <2>1, <2>2, <2>3, <2>4 DEF TypeOK, SetupTypes, CallTypes
<1> QED
  BY <1>8, <1>9, <1>10, <1>11, <1>12, <1>13, <1>14 DEF Inv

\* What a caller makes of a reply is a result or an error, or the end of it.
LEMMA ResultShape ==
  ASSUME NEW r, Result(r) # None
  PROVE  DOMAIN Result(r) \in {{"outs"}, {"error"}}
<1>1. \A e : DOMAIN [error |-> e] = {"error"}
  OBVIOUS
<1>2. \A x : DOMAIN [outs |-> x] = {"outs"}
  OBVIOUS
<1>3. ASSUME NEW outs, NEW args
      PROVE  \/ Collected(outs, args) = None
             \/ \E e : Collected(outs, args) = [error |-> e]
             \/ \E x : Collected(outs, args) = [outs |-> x]
  BY Zenon DEF Collected
<1>4. (\E e : Result(r) = [error |-> e]) \/ (\E x : Result(r) = [outs |-> x])
  BY Zenon, <1>3 DEF Result
<1> QED
  BY <1>1, <1>2, <1>4

\* A reply ends the call that waits for it, or the caller; what nobody waits for is
\* dropped.
Settled(c) ==
  /\ call'[c].state = "done" /\ call'[c].message = call[c].message
  /\ DOMAIN call'[c].result \in {{"outs"}, {"error"}}
  /\ Records(call)'

LEMMA ReceiveCases ==
  ASSUME Inv, Receive
  PROVE  /\ "caller" \notin aborted
         /\ \E c \in Calls :
              /\ answers[c] = 1
              /\ \/ call' = call /\ aborted' \in {aborted, aborted \cup {"caller"}}
                 \/ call[c].state = "waiting" /\ Settled(c) /\ aborted' = aborted
              /\ \A d \in Calls \ {c} : call'[d] = call[d]
<1> DEFINE r == Head(replies)
           result == Result(r)
<1>1. /\ replies # <<>> /\ "caller" \notin aborted
      /\ \/ call' = call /\ aborted' \in {aborted, aborted \cup {"caller"}}
         \/ /\ call[r.serial].state = "waiting" /\ result # None /\ aborted' = aborted
            /\ call' = [call EXCEPT ![r.serial].state = "done", ![r.serial].result = result]
  BY Zenon DEF Receive
<1>2. IsSeq(replies) /\ CallShape
  BY DEF Inv, CallShape
<1>3. 1 \in DOMAIN replies /\ r = replies[1]
  BY <1>1, <1>2, Popped
<1>4. r.serial \in Calls /\ answers[r.serial] = 1
  BY <1>3 DEF Inv, TypeOK, RepliesCounted
<1>5. result # None => DOMAIN result \in {{"outs"}, {"error"}}
  BY ResultShape
<1> HIDE DEF Inv, r, result
<1>6. PICK c \in Calls : c = r.serial
  BY <1>4
<1>7. CASE call' = call /\ aborted' \in {aborted, aborted \cup {"caller"}}
  BY <1>1, <1>4, <1>6, <1>7
<1>8. CASE /\ call[c].state = "waiting" /\ result # None /\ aborted' = aborted
           /\ call' = [call EXCEPT ![c].state = "done", ![c].result = result]
  <2>1. call = [d \in Calls |-> call[d]] /\ Shaped(call[c])
    BY <1>2 DEF CallShape, Records, Shaped
  <2>2. call' = [call EXCEPT ![c] = [call[c] EXCEPT !.state = "done", !.result = result]]
    <3>1. call' = [call EXCEPT ![c].state = "done", ![c].result = result]
      BY <1>8
    <3> QED
      BY <2>1, <3>1
  <2>3. PICK y, x, res : /\ y = call[c] /\ res = result
                         /\ x = [y EXCEPT !.state = "done", !.result = res]
    OBVIOUS
  <2>4. call' = [call EXCEPT ![c] = x]
    BY <2>2, <2>3
  <2>5. Shaped(x) /\ x.state = "done" /\ x.message = y.message /\ x.result = res
    <3>1. y = [state |-> y.state, wrapper |-> y.wrapper, message |-> y.message, result |-> y.result]
      BY <2>1, <2>3 DEF Shaped
    <3>2. x = [state |-> "done", wrapper |-> y.wrapper, message |-> y.message, result |-> res]
      BY <2>3, <3>1
    <3> QED
      BY <3>2, RecordShaped
  <2>6. Records(call)' /\ call'[c] = x /\ \A d \in Calls \ {c} : call'[d] = call[d]
    BY <1>2, <2>4, <2>5, ShapeKept
  <2>7. Settled(c) /\ \A d \in Calls \ {c} : call'[d] = call[d]
    BY <1>5, <1>8, <2>3, <2>5, <2>6 DEF Settled
  <2> QED
    BY <1>1, <1>4, <1>6, <1>8, <2>7
<1> QED
  BY <1>1, <1>6, <1>7, <1>8

LEMMA ReceiveStep ==
  ASSUME Inv, Receive
  PROVE  Inv'
<1>1. PICK c \in Calls :
        /\ answers[c] = 1
        /\ call' = call \/ (call[c].state = "waiting" /\ Settled(c))
        /\ aborted' \in {aborted, aborted \cup {"caller"}}
        /\ \A d \in Calls \ {c} : call'[d] = call[d]
  BY ReceiveCases
<1>2. /\ replies # <<>> /\ replies' = Tail(replies)
      /\ UNCHANGED <<setup, property, requests, context, seen, given, answers>>
  BY DEF Receive
<1>3. /\ TypeOK /\ CallShape /\ RequestsOpen /\ ContextsOpen /\ RepliesCounted /\ CallsCounted
      /\ MessagesNamed /\ CallTypes /\ SetupTypes
  BY TypeParts DEF Inv
<1>4. c \notin DOMAIN context /\ ~Requested(c)
  BY <1>1, <1>3 DEF Requested, RequestsOpen, ContextsOpen, Open
<1>5. \A d : Requested(d)' <=> Requested(d)
  BY <1>2 DEF Requested
<1>6. \A d \in Calls \ {c} : SamePlace(d)
  BY <1>1, <1>2, <1>5 DEF SamePlace
<1>7. /\ call'[c].message = call[c].message
      /\ call'[c].state = "idle" => call[c].state = "idle"
      /\ call'[c].state = call[c].state \/ call'[c].state = "done"
      /\ Records(call)'
  BY <1>1, <1>3 DEF Settled, CallShape, Records
<1>8. /\ IsSeq(replies') /\ \A k \in DOMAIN replies' : k + 1 \in DOMAIN replies /\ replies'[k] = replies[k + 1]
  BY <1>2, <1>3, Popped DEF CallShape
<1> HIDE DEF Inv
<1>9. RequestsOpen'
  <2>1. IsSeq(requests') /\ QueueMoves
    <3>1. DOMAIN requests \subseteq Nat
      BY <1>3 DEF CallShape, IsSeq
    <3> QED
      BY <1>2, <1>3, <3>1 DEF CallShape, QueueMoves
  <2> QED
    BY <1>4, <1>5, <1>6, <2>1, StillThere, RequestsKept
<1>10. ContextsOpen'
  BY <1>2, <1>3, <1>4, <1>6, ContextsKept DEF TypeOK
<1>11. CallsCounted'
  <2>1. Counted(c)'
    <3>1. CASE call' = call
      <4>1. Counted(c)
        BY <1>3 DEF CallsCounted
      <4> QED
        BY <1>1, <1>2, <3>1, <4>1 DEF Counted
    <3>2. CASE call'[c].state = "done"
      BY <1>1, <1>2, <3>2 DEF Counted
    <3> QED
      BY <1>1, <3>1, <3>2 DEF Settled
  <2> QED
    BY <1>1, <1>6, <2>1, CountedKept
<1>12. CallShape'
  BY <1>2, <1>3, <1>7, <1>8 DEF CallShape
<1>13. RepliesCounted'
  BY <1>2, <1>3, <1>8 DEF RepliesCounted
<1>14. MessagesNamed' /\ ContextsGone'
  <2>1. ContextsGone'
    BY <1>1, <1>2 DEF Inv, ContextsGone
  <2> QED
    BY <1>1, <1>3, <1>7, <2>1 DEF MessagesNamed
<1>15. TypeOK'
  <2>1. SetupTypes'
    BY <1>2, <1>3 DEF SetupTypes, setup, glue
  <2>2. CallTypes'
    <3> SUFFICES ASSUME NEW d \in Calls
                 PROVE  /\ call'[d].state \in {"idle", "waiting", "oneway", "done"}
                        /\ IF call'[d].state = "idle" THEN call'[d].message = None
                           ELSE DOMAIN call'[d].message = {"serial", "iface", "member", "args", "noreply"}
                        /\ IF call'[d].state = "done" THEN DOMAIN call'[d].result \in {{"outs"}, {"error"}}
                           ELSE call'[d].result = None
      BY Zenon DEF CallTypes
    <3>1. CASE call'[d] = call[d]
      BY <1>3, <3>1 DEF CallTypes
    <3>2. CASE d = c /\ call[c].state = "waiting" /\ Settled(c)
      BY <1>3, <3>2 DEF Settled, CallTypes
    <3> QED
      BY <1>1, <3>1, <3>2
  <2>3. DOMAIN call' = Calls
    BY <1>7 DEF Records
  <2>4. /\ \A k \in DOMAIN replies' : /\ replies'[k].serial \in Calls
                                     /\ DOMAIN replies'[k] = {"serial", "error", "args"}
    BY <1>3, <1>8 DEF TypeOK
  <2> QED
    BY <1>1, <1>2, <1>3, <2>1, <2>2, <2>3, <2>4 DEF TypeOK, SetupTypes, CallTypes
<1> QED
  BY <1>9, <1>10, <1>11, <1>12, <1>13, <1>14, <1>15 DEF Inv

\* An assertion ends the service: the request is lost, and every context.
LEMMA EndsStep ==
  ASSUME Inv, Dispatch, Ends
  PROVE  Inv'
<1>1. /\ requests # <<>> /\ requests' = Tail(requests) /\ UNCHANGED <<setup, call>>
      /\ aborted' = aborted \cup {"service"} /\ context' = Nothing
      /\ UNCHANGED <<property, replies, seen, given, answers>>
  BY Zenon DEF Dispatch, Ends
<1>2. DOMAIN context' = {}
  BY <1>1 DEF Nothing
<1>3. PICK c : c = Head(requests).serial
  OBVIOUS
<1>4. /\ c \in Calls /\ IsSeq(requests')
      /\ \A k \in DOMAIN requests' : k + 1 \in DOMAIN requests /\ requests'[k] = requests[k + 1]
      /\ ~Requested(c)'
  BY <1>1, <1>3, RequestServed
<1>5. /\ TypeOK /\ CallShape /\ RepliesCounted /\ CallsCounted /\ MessagesNamed
      /\ SetupTypes /\ CallTypes
  BY TypeParts DEF Inv
<1> HIDE DEF Inv
<1>6. RequestsOpen' /\ \A k \in DOMAIN requests' : requests'[k].serial \in Calls
  <2>1. QueueMoves
    BY <1>4 DEF QueueMoves
  <2>2. \A d \in Calls \ {c} : Still(d)
    BY <1>1, <1>2 DEF Still
  <2> QED
    BY <1>4, <2>1, <2>2, RequestsKept
<1>7. CallShape' /\ RepliesCounted' /\ MessagesNamed' /\ ContextsOpen' /\ ContextsGone'
  <2>1. CallShape'
    BY <1>1, <1>4, <1>5 DEF CallShape, Records
  <2>2. RepliesCounted' /\ MessagesNamed'
    BY <1>1, <1>5 DEF RepliesCounted, MessagesNamed
  <2>3. ContextsOpen' /\ ContextsGone'
    BY <1>2 DEF ContextsOpen, ContextsGone
  <2> QED
    BY <2>1, <2>2, <2>3
<1>8. CallsCounted'
  BY <1>1, <1>5 DEF CallsCounted, Counted
<1>9. TypeOK'
  BY <1>1, <1>2, <1>5, <1>6 DEF TypeOK, SetupTypes, setup, glue
<1> QED
  BY <1>6, <1>7, <1>8, <1>9 DEF Inv

\* Steps that leave the calls alone.
LEMMA SetupStep ==
  ASSUME Inv, SetupTypes',
         UNCHANGED <<call, requests, replies, context, seen, given, answers, aborted>>
  PROVE  Inv'
<1>1. TypeOK'
  BY DEF Inv, TypeOK, SetupTypes
<1>2. CallShape'
  BY DEF Inv, CallShape, Records, IsSeq
<1>3. RequestsOpen'
  BY DEF Inv, RequestsOpen, Open
<1>4. ContextsOpen'
  BY DEF Inv, ContextsOpen, Open
<1>5. RepliesCounted' /\ MessagesNamed' /\ ContextsGone'
  BY DEF Inv, RepliesCounted, MessagesNamed, ContextsGone
<1>6. CallsCounted'
  BY Zenon DEF Inv, CallsCounted, Counted, Requested, Unwritable
<1> QED
  BY <1>1, <1>2, <1>3, <1>4, <1>5, <1>6 DEF Inv

LEMMA InitInv == Init => Inv
<1> SUFFICES ASSUME Init PROVE Inv
  OBVIOUS
<1> DEFINE u == [state |-> "idle", wrapper |-> None, message |-> None, result |-> None]
<1>1. /\ call = [c \in Calls |-> u] /\ requests = <<>> /\ replies = <<>>
      /\ context = Nothing /\ given = Nothing /\ seen = Nothing
      /\ answers = [c \in Calls |-> 0] /\ aborted = {}
  BY DEF Init, Unmade
<1>2. u.state = "idle" /\ u.message = None /\ u.result = None /\ Shaped(u)
  BY DEF Shaped
<1>3. IsSeq(requests) /\ IsSeq(replies) /\ DOMAIN requests = {} /\ DOMAIN replies = {}
  BY <1>1, EmptyIs
<1>4. DOMAIN context = {} /\ DOMAIN given = {} /\ DOMAIN seen = {}
  BY <1>1 DEF Nothing
<1>5. SetupTypes
  BY DEF Init, SetupTypes
<1> HIDE DEF u
<1>6. \A c \in Calls : call[c] = u
  BY <1>1
<1>7. CallShape
  <2>1. call = [c \in Calls |-> call[c]] /\ \A c \in Calls : Shaped(call[c])
    BY <1>1, <1>2
  <2>2. Records(call)
    BY Zenon, <2>1 DEF Records, Shaped
  <2> QED
    BY <1>1, <1>3, <2>2 DEF CallShape
<1>8. TypeOK
  <2>1. CallTypes
    BY <1>2, <1>6 DEF CallTypes
  <2> QED
    BY <1>1, <1>3, <1>4, <1>5, <2>1 DEF TypeOK, CallTypes, SetupTypes
<1>9. CallsCounted
  BY <1>1, <1>2, <1>6 DEF CallsCounted, Counted
<1>10. MessagesNamed /\ ContextsGone
  BY <1>1, <1>2, <1>6 DEF MessagesNamed, ContextsGone
<1> QED
  BY <1>3, <1>4, <1>7, <1>8, <1>9, <1>10 DEF Inv, RequestsOpen, ContextsOpen, RepliesCounted

--------------------------------------------------------------------------------
(* The theorems *)

LEMMA NextInv == Inv /\ [Next]_vars => Inv'
<1> SUFFICES ASSUME Inv, [Next]_vars PROVE Inv'
  OBVIOUS
<1>1. TypeOK /\ CallShape
  BY DEF Inv
<1> HIDE DEF Inv
<1>2. ASSUME NEW s \in Shadows, RegisterShadow(s)
      PROVE  Inv'
  <2>1. SetupTypes'
    BY <1>1, <1>2 DEF RegisterShadow, TypeOK, SetupTypes, glue, traffic
  <2> QED
    BY <1>2, <2>1, SetupStep DEF RegisterShadow, traffic
<1>3. CASE DisableLegacy
  <2>1. SetupTypes'
    BY <1>1, <1>3 DEF DisableLegacy, TypeOK, SetupTypes, glue, traffic
  <2> QED
    BY <1>3, <2>1, SetupStep DEF DisableLegacy, traffic
<1>4. ASSUME NEW d \in DOMAIN ErrorDomains, RegisterDomain(d)
      PROVE  Inv'
  <2>1. SetupTypes'
    BY <1>1, <1>4 DEF RegisterDomain, TypeOK, SetupTypes, glue, traffic
  <2> QED
    BY <1>4, <2>1, SetupStep DEF RegisterDomain, traffic
<1>5. ASSUME NEW c \in Calls, Call(c) \/ SendRaw(c)
      PROVE  Inv'
  BY <1>1, <1>5, CallMakes, MakesStep
<1>6. CASE Dispatch
  BY <1>6, EndsStep, DispatchPlace, PlaceStep
<1>7. CASE Receive
  BY <1>7, ReceiveStep
<1>8. ASSUME NEW c \in Calls, MethodReturn(c) \/ MethodReturnError(c) \/ MethodSendReply(c)
      PROVE  Inv'
  <2>1. PICK n \in {0, 1} : LeavesPlace(c, n)
    BY <1>8, MethodPlace
  <2>2. SetupTypes'
    BY <1>8, MethodPlace
  <2> QED
    BY <2>1, <2>2, PlaceStep
<1>9. CASE UNCHANGED vars
  <2>1. SetupTypes'
    BY <1>1, <1>9 DEF TypeOK, SetupTypes, vars, setup, glue, traffic
  <2> QED
    BY <1>9, <2>1, SetupStep DEF vars, traffic
<1> QED
  BY Zenon, <1>2, <1>3, <1>4, <1>5, <1>6, <1>7, <1>8, <1>9 DEF Next, Done

\* Every call is at one place, and was answered at most once from there.
THEOREM MethodsInvariance == Spec => []Inv
<1>1. Init => Inv
  BY InitInv
<1>2. Inv /\ [Next]_vars => Inv'
  BY NextInv
<1> QED
  BY <1>1, <1>2, PTL DEF Spec

\* TypeOK holds whatever the documents, messages and errors are.
THEOREM MethodsTypeCorrect == Spec => []TypeOK
<1>1. Inv => TypeOK
  BY DEF Inv
<1> QED
  BY <1>1, MethodsInvariance, PTL

--------------------------------------------------------------------------------
(* The service implements Rpc, step by step *)

Stands(c) ==
  CASE call[c].state = "idle" -> "idle"
    [] call[c].state = "done" -> "answered"
    [] call[c].state = "oneway" -> IF answers[c] = 1 THEN "answered" ELSE "oneway"
    [] call[c].state = "waiting" ->
         IF "caller" \in aborted \/ Unanswered(c) THEN "lost" ELSE "waiting"

\* No call is answered twice, and none is forgotten.
Standing == Status = [c \in Calls |-> Stands(c)]

LEMMA StandingHolds == Inv => Standing
<1> SUFFICES ASSUME Inv, NEW c \in Calls
             PROVE  Status[c] = Stands(c)
  BY DEF Standing, Status
<1>1. /\ answers[c] \in {0, 1} /\ Counted(c)
      /\ call[c].state \in {"idle", "waiting", "oneway", "done"}
  BY TypeParts DEF Inv, CallShape, CallsCounted, CallTypes
<1>2. /\ ~(answers[c] > 1)
      /\ Unanswered(c) /\ call[c].state = "waiting" => "service" \in aborted \/ Unwritable(c)
  BY <1>1 DEF Counted, Requested, Unanswered
<1>3. Status[c] = IF answers[c] > 1 THEN "twice"
          ELSE CASE call[c].state = "idle" -> "idle"
                 [] call[c].state = "done" -> "answered"
                 [] call[c].state = "oneway" -> IF answers[c] = 1 THEN "answered" ELSE "oneway"
                 [] call[c].state = "waiting" ->
                      IF \/ "caller" \in aborted
                         \/ Unanswered(c) /\ ("service" \in aborted \/ Unwritable(c)) THEN "lost"
                      ELSE IF Unanswered(c) THEN "forgotten" ELSE "waiting"
  BY DEF Status
<1> HIDE DEF Inv
<1>4. CASE call[c].state = "idle"
  BY <1>2, <1>3, <1>4 DEF Stands
<1>5. CASE call[c].state = "done"
  BY <1>2, <1>3, <1>5 DEF Stands
<1>6. CASE call[c].state = "oneway"
  BY <1>2, <1>3, <1>6 DEF Stands
<1>7. CASE call[c].state = "waiting"
  BY <1>1, <1>2, <1>3, <1>7 DEF Stands
<1> QED
  BY <1>1, <1>4, <1>5, <1>6, <1>7

LEMMA StandingNext == Inv' => Standing'
BY StandingHolds, PTL

\* A call that stays in its place stands where it stood.
LEMMA SameStands ==
  ASSUME NEW c, SamePlace(c), UNCHANGED aborted PROVE Stands(c)' = Stands(c)
<1>1. Unanswered(c)' <=> Unanswered(c)
  BY DEF SamePlace, Unanswered, Requested
<1> QED
  BY <1>1 DEF SamePlace, Stands

\* A step on one call changes where that one stands.
LEMMA OneStands ==
  ASSUME Standing, Standing', NEW c \in Calls, NEW s, Stands(c)' = s,
         \A d \in Calls \ {c} : SamePlace(d), UNCHANGED aborted
  PROVE  /\ Status' = [Status EXCEPT ![c] = s] /\ Status[c] = Stands(c)
         /\ s = Stands(c) => Status' = Status
<1>1. \A d \in Calls \ {c} : Stands(d)' = Stands(d)
  BY SameStands
<1> QED
  BY <1>1 DEF Standing

\* A step by which no call moves but that some which waited are lost.
LEMMA LosingStands ==
  ASSUME Standing, Standing',
         \A d \in Calls : \/ Stands(d)' = Stands(d)
                          \/ Stands(d) = "waiting" /\ Stands(d)' = "lost"
  PROVE  [Abstract!Next]_Status
<1>1. PICK S \in SUBSET Calls : S = {d \in Calls : Stands(d)' # Stands(d)}
  OBVIOUS
<1>2. \A d \in S : Status[d] = "waiting"
  BY <1>1 DEF Standing
<1>3. Status' = [d \in Calls |-> IF d \in S THEN "lost" ELSE Status[d]]
  BY <1>1 DEF Standing
<1>4. CASE S = {}
  BY <1>3, <1>4 DEF Standing
<1>5. CASE S # {}
  BY <1>2, <1>3, <1>5 DEF Abstract!Next, Abstract!Lose
<1> QED
  BY <1>4, <1>5

LEMMA PlaceStands ==
  ASSUME Inv, Inv', NEW c \in Calls, NEW n \in {0, 1}, LeavesPlace(c, n),
         Requested(c) \/ c \in DOMAIN context
  PROVE  [Abstract!Next]_Status
<1>1. /\ Open(c) /\ UNCHANGED <<call, aborted>> /\ "service" \notin aborted /\ ~Requested(c)'
      /\ answers' = [answers EXCEPT ![c] = n]
      /\ c \in DOMAIN context' => n = 0
      /\ \A d \in Calls \ {c} : SamePlace(d)
  BY DEF LeavesPlace
<1>2. answers'[c] = n
  BY <1>1 DEF Inv, CallShape
<1>3. Standing /\ Standing'
  BY StandingHolds, StandingNext
<1> HIDE DEF Inv
<1>4. CASE call[c].state = "waiting"
  <2>1. ~Unanswered(c)
    BY <1>1 DEF Unanswered, Requested
  <2>2. \/ Stands(c)' = Stands(c)
        \/ Stands(c) = "waiting" /\ Stands(c)' = "lost"
    BY <1>1, <1>4, <2>1 DEF Stands
  <2>3. \A d \in Calls \ {c} : Stands(d)' = Stands(d)
    BY <1>1, SameStands
  <2> QED
    BY <1>3, <2>2, <2>3, LosingStands
<1>5. CASE call[c].state = "oneway"
  <2>1. Stands(c) = "oneway" /\ Stands(c)' \in {"oneway", "answered"}
    BY <1>1, <1>2, <1>5 DEF Stands, Open
  <2>2. PICK s \in {"oneway", "answered"} : s = Stands(c)'
    BY <2>1
  <2> QED
    BY <1>1, <1>3, <2>1, <2>2, OneStands DEF Abstract!Next, Abstract!Answer, Abstract!Becomes
<1> QED
  BY <1>1, <1>4, <1>5 DEF Open

LEMMA MakesStands ==
  ASSUME Inv, Inv', NEW c \in Calls, MakesCall(c)
  PROVE  [Abstract!Next]_Status
<1>1. /\ call[c].state = "idle" /\ call'[c].state \in {"waiting", "oneway"}
      /\ requests' = Append(requests, call'[c].message) /\ call'[c].message.serial = c
      /\ answers' = answers /\ aborted = {} /\ aborted' = aborted
  BY DEF MakesCall
<1>2. /\ answers[c] = 0 /\ IsSeq(requests)
  BY <1>1 DEF Inv, CallsCounted, Counted, CallShape
<1>3. Standing /\ Standing' /\ \A d \in Calls \ {c} : SamePlace(d)
  BY StandingHolds, StandingNext, MakesStep
<1> HIDE DEF Inv
<1>4. Requested(c)'
  <2>1. /\ Len(requests) + 1 \in DOMAIN requests'
        /\ requests'[Len(requests) + 1] = call'[c].message
    BY <1>1, <1>2, Appended
  <2> QED
    BY <1>1, <2>1 DEF Requested
<1>5. Stands(c) = "idle" /\ Stands(c)' \in {"waiting", "oneway"}
  BY <1>1, <1>2, <1>4 DEF Stands, Unanswered, Requested
<1>6. PICK s \in {"waiting", "oneway"} : s = Stands(c)'
  BY <1>5
<1> QED
  BY <1>1, <1>3, <1>5, <1>6, OneStands DEF Abstract!Next, Abstract!Issue, Abstract!Becomes

LEMMA ReceiveStands ==
  ASSUME Inv, Inv', Receive
  PROVE  [Abstract!Next]_Status
<1>1. PICK c \in Calls :
        /\ answers[c] = 1
        /\ \/ call' = call /\ aborted' \in {aborted, aborted \cup {"caller"}}
           \/ call[c].state = "waiting" /\ Settled(c) /\ aborted' = aborted
        /\ \A d \in Calls \ {c} : call'[d] = call[d]
  BY ReceiveCases
<1>2. UNCHANGED <<requests, context, seen, given, answers>> /\ "caller" \notin aborted
  BY DEF Receive
<1>3. Standing /\ Standing'
  BY StandingHolds, StandingNext
<1>4. \A d \in Calls : call[d].state \in {"idle", "waiting", "oneway", "done"}
  BY TypeParts DEF Inv, CallTypes
<1> HIDE DEF Inv
<1>5. CASE call' = call /\ aborted' \in {aborted, aborted \cup {"caller"}}
  <2>1. ASSUME NEW d \in Calls
        PROVE  \/ Stands(d)' = Stands(d)
               \/ Stands(d) = "waiting" /\ Stands(d)' = "lost"
    <3>1. Unanswered(d)' <=> Unanswered(d)
      BY <1>2, <1>5 DEF Unanswered
    <3>2. CASE call[d].state = "waiting"
      BY <1>2, <1>5, <3>1, <3>2 DEF Stands
    <3>3. CASE call[d].state # "waiting"
      BY <1>2, <1>4, <1>5, <3>3 DEF Stands
    <3> QED
      BY <3>2, <3>3
  <2> QED
    BY <1>3, <2>1, LosingStands
<1>6. CASE call[c].state = "waiting" /\ Settled(c) /\ aborted' = aborted
  <2>1. Stands(c) = "waiting" /\ Stands(c)' = "answered"
    BY <1>1, <1>2, <1>6 DEF Stands, Settled, Unanswered
  <2>2. \A d \in Calls \ {c} : SamePlace(d)
    BY <1>1, <1>2 DEF SamePlace, Requested
  <2> QED
    BY <1>3, <1>6, <2>1, <2>2, OneStands DEF Abstract!Next, Abstract!Answer, Abstract!Becomes
<1> QED
  BY <1>1, <1>5, <1>6

\* The calls that the service had in its hands when it ended are lost.
LEMMA EndsStands ==
  ASSUME Inv, Inv', Dispatch, Ends
  PROVE  [Abstract!Next]_Status
<1>1. UNCHANGED <<call, answers>> /\ aborted' = aborted \cup {"service"}
  BY Zenon DEF Dispatch, Ends
<1>2. Standing /\ Standing'
  BY StandingHolds, StandingNext
<1>3. \A d \in Calls : call[d].state \in {"idle", "waiting", "oneway", "done"}
  BY TypeParts DEF Inv, CallTypes
<1> HIDE DEF Inv
<1>4. ASSUME NEW d \in Calls
      PROVE  \/ Stands(d)' = Stands(d)
             \/ Stands(d) = "waiting" /\ Stands(d)' = "lost"
  <2>1. Unanswered(d) => Unanswered(d)'
    BY <1>1 DEF Unanswered
  <2>2. "caller" \in aborted' <=> "caller" \in aborted
    BY <1>1
  <2>3. CASE call[d].state = "waiting"
    BY <1>1, <2>1, <2>2, <2>3 DEF Stands
  <2>4. CASE call[d].state # "waiting"
    BY <1>1, <1>3, <2>4 DEF Stands
  <2> QED
    BY <2>3, <2>4
<1> QED
  BY <1>2, <1>4, LosingStands

LEMMA NextStands == Inv /\ Inv' /\ [Next]_vars => [Abstract!Next]_Status
<1> SUFFICES ASSUME Inv, Inv', [Next]_vars PROVE [Abstract!Next]_Status
  OBVIOUS
<1>1. CallShape
  BY DEF Inv
<1> HIDE DEF Inv
<1>2. ASSUME UNCHANGED traffic
      PROVE  [Abstract!Next]_Status
  <2>1. Status' = Status
    BY <1>2 DEF traffic, Status, Unanswered, Unwritable
  <2> QED
    BY <2>1
<1>3. ASSUME NEW c \in Calls, Call(c) \/ SendRaw(c)
      PROVE  [Abstract!Next]_Status
  BY <1>1, <1>3, CallMakes, MakesStands
<1>4. CASE Dispatch
  <2>0. CASE Ends
    BY <1>4, <2>0, EndsStands
  <2> SUFFICES ASSUME ~Ends PROVE [Abstract!Next]_Status
    BY <2>0
  <2>1. PICK c : c = Head(requests).serial
    OBVIOUS
  <2>2. c \in Calls /\ \E n \in {0, 1} : LeavesPlace(c, n)
    BY <1>4, <2>1, DispatchPlace
  <2>3. Requested(c)
    <3>1. requests # <<>> /\ IsSeq(requests)
      BY <1>1, <1>4 DEF Dispatch, CallShape
    <3>2. 1 \in DOMAIN requests /\ requests[1] = Head(requests)
      BY <3>1, Popped
    <3> QED
      BY <2>1, <3>2 DEF Requested
  <2> QED
    BY <2>2, <2>3, PlaceStands
<1>5. CASE Receive
  BY <1>5, ReceiveStands
<1>6. ASSUME NEW c \in Calls, MethodReturn(c) \/ MethodReturnError(c) \/ MethodSendReply(c)
      PROVE  [Abstract!Next]_Status
  <2>1. PICK n \in {0, 1} : LeavesPlace(c, n)
    BY <1>6, MethodPlace
  <2>2. c \in DOMAIN context
    BY <1>6 DEF MethodReturn, MethodReturnError, MethodSendReply
  <2> QED
    BY <2>1, <2>2, PlaceStands
<1>7. CASE UNCHANGED vars
  BY <1>2, <1>7 DEF vars
<1>8. \/ \E c \in Calls : Call(c) \/ SendRaw(c)
      \/ Dispatch \/ Receive
      \/ \E c \in Calls : MethodReturn(c) \/ MethodReturnError(c) \/ MethodSendReply(c)
      \/ UNCHANGED traffic
      \/ UNCHANGED vars
  BY Zenon DEF Next, Done, RegisterShadow, DisableLegacy, RegisterDomain
<1> QED
  BY Zenon, <1>2, <1>3, <1>4, <1>5, <1>6, <1>7, <1>8

\* The service takes no step that Rpc does not: every call is answered at most
\* once, after it was made, and none is forgotten: as long as a call waits, it is in
\* the queue, held by its method or answered, or its result could not be written, or
\* a failed assertion has ended one of the processes, and with it every call that it
\* had in its hands (ImplementsRpc without fairness).
THEOREM StepsImplementRpc == Spec => Abstract!Init /\ [][Abstract!Next]_Status
<1>1. Init => Inv
  BY InitInv
<1>2. Init => Abstract!Init
  <2> SUFFICES ASSUME Init PROVE Abstract!Init
    OBVIOUS
  <2>1. Standing /\ \A c \in Calls : call[c].state = "idle"
    BY <1>1, StandingHolds DEF Init, Unmade
  <2>2. \A c \in Calls : Stands(c) = "idle"
    BY <2>1 DEF Stands
  <2> QED
    BY <2>1, <2>2 DEF Standing, Abstract!Init
<1>3. Inv /\ [Next]_vars => Inv'
  BY NextInv
<1>4. Inv /\ Inv' /\ [Next]_vars => [Abstract!Next]_Status
  BY NextStands
<1> QED
  BY <1>1, <1>2, <1>3, <1>4, PTL DEF Spec

--------------------------------------------------------------------------------
(* Properties hold values *)

\* What a message may have made of a property.
Came(p, x, m) ==
  /\ GProperties[p].writable
  /\ m.iface = PropertiesIface /\ m.member = "Set" /\ 3 \in DOMAIN m.args
  /\ m.args[3].t = <<"v">> /\ x = m.args[3].d
  /\ Demarshals(m.args[3].of, GType(GProperties[p].type))

\* A message is not changed once it was sent.
MessagesStay ==
  \A c \in Calls : call[c].state # "idle" =>
    call'[c].state # "idle" /\ call'[c].message = call[c].message

\* A property changes only to what a Set that was sent gave it.
PropertyMoves ==
  /\ DOMAIN property' = DOMAIN property
  /\ \A p \in DOMAIN GProperties :
       \/ property'[p] = property[p]
       \/ \E c \in Calls : call[c].state # "idle" /\ Came(p, property'[p], call[c].message)

LEMMA SetMoves ==
  ASSUME NEW m, property' = GetOrSet(m).property, m.iface = PropertiesIface,
         DOMAIN property = DOMAIN GProperties,
         NEW p \in DOMAIN GProperties, property'[p] # property[p]
  PROVE  Came(p, property'[p], m)
<1>1. ASSUME NEW reply PROVE Handled(reply).property = property
  BY DEF Handled
<1>2. ASSUME NEW args PROVE GetOrSet(m) # Handled(Return(m, args))
  BY Zenon, <1>1
<1>3. GetOrSet(m) \notin {InvalidArgs(m), AccessDenied(m), Failed(m), Aborted}
  BY <1>1 DEF InvalidArgs, AccessDenied, Failed, Aborted
<1>4. PICK q \in DOMAIN GProperties :
        /\ GetOrSet(m) = [reply |-> Return(m, <<>>), property |-> Set(q, m.args[3])]
        /\ m.member = "Set"
        /\ 3 \in DOMAIN m.args /\ m.args[3].t = <<"v">>
        /\ Demarshals(m.args[3].of, GType(GProperties[q].type))
  BY Zenon, <1>2, <1>3, GetOrSetCases
<1>5. ASSUME NEW reply, NEW f PROVE [reply |-> reply, property |-> f].property = f
  OBVIOUS
<1>6. property' = Set(q, m.args[3])
  BY Zenon, <1>4, <1>5
<1>7. GProperties[q].writable /\ property' = [property EXCEPT ![q] = m.args[3].d]
  BY <1>6 DEF Set
<1>8. q = p /\ property'[p] = m.args[3].d
  BY <1>7
<1> QED
  BY <1>4, <1>7, <1>8 DEF Came

LEMMA DispatchMoves ==
  ASSUME Inv, Dispatch
  PROVE  PropertyMoves /\ MessagesStay
<1> DEFINE m == Head(requests)
           at == lookup_object_and_method(m)
<1>1. requests # <<>> /\ requests' = Tail(requests) /\ UNCHANGED call
  BY DEF Dispatch
<1>2. PICK c : c = m.serial
  OBVIOUS
<1>3. c \in Calls /\ m = call[c].message /\ Open(c)
  BY <1>1, <1>2, RequestServed
<1>4. DOMAIN property = DOMAIN GProperties
  BY DEF Inv, TypeOK
<1>5. \/ Standard(m) /\ ~Ends
      \/ Ends
      \/ \E code : RefusesArguments(m, GError(code))
      \/ InvokesSync(at, m)
      \/ InvokesAsync(at, m)
  <2>1. Standard(m) \/ Invokes(at, m)
    BY Zenon DEF Dispatch
  <2> QED
    BY Zenon, <2>1, Serves
<1> HIDE DEF m, at, Inv
<1>6. ASSUME property' = property PROVE PropertyMoves
  BY <1>6 DEF PropertyMoves
<1>7. ASSUME Standard(m), ~Ends PROVE PropertyMoves
  <2>1. /\ DOMAIN property' = DOMAIN property
        /\ property' = property \/ (m.iface = PropertiesIface /\ property' = GetOrSet(m).property)
    BY <1>7, StandardReply
  <2>2. call[c].state # "idle"
    BY <1>3 DEF Open
  <2>3. ASSUME NEW p \in DOMAIN GProperties, property'[p] # property[p]
        PROVE  Came(p, property'[p], call[c].message)
    BY <1>3, <1>4, <2>1, <2>3, SetMoves
  <2> QED
    BY <1>3, <2>1, <2>2, <2>3 DEF PropertyMoves
<1>8. PropertyMoves
  BY <1>5, <1>6, <1>7 DEF Ends, RefusesArguments, InvokesSync, InvokesAsync
<1> QED
  BY <1>1, <1>8 DEF MessagesStay

LEMMA NextMoves == Inv /\ [Next]_vars => PropertyMoves /\ MessagesStay
<1> SUFFICES ASSUME Inv, [Next]_vars PROVE PropertyMoves /\ MessagesStay
  OBVIOUS
<1>1. CallShape
  BY DEF Inv
<1> HIDE DEF Inv
<1>2. ASSUME UNCHANGED <<property, call>>
      PROVE  PropertyMoves /\ MessagesStay
  BY <1>2 DEF PropertyMoves, MessagesStay
<1>3. ASSUME NEW c \in Calls, Call(c) \/ SendRaw(c)
      PROVE  PropertyMoves /\ MessagesStay
  <2>1. MakesCall(c)
    BY <1>1, <1>3, CallMakes
  <2> QED
    BY <2>1 DEF MakesCall, PropertyMoves, MessagesStay
<1>4. CASE Dispatch
  BY <1>4, DispatchMoves
<1>5. CASE Receive
  <2>1. PICK c \in Calls :
          /\ call' = call \/ (call[c].state = "waiting" /\ Settled(c))
          /\ \A d \in Calls \ {c} : call'[d] = call[d]
    BY <1>5, ReceiveCases
  <2>2. MessagesStay
    BY <2>1 DEF MessagesStay, Settled
  <2> QED
    BY <1>5, <2>2 DEF Receive, PropertyMoves
<1>6. \/ \E c \in Calls : Call(c) \/ SendRaw(c)
      \/ Dispatch \/ Receive
      \/ UNCHANGED <<property, call>>
  BY DEF Next, Done, RegisterShadow, DisableLegacy, RegisterDomain, vars, traffic,
         MethodReturn, MethodReturnError, MethodSendReply, Answers
<1> QED
  BY Zenon, <1>2, <1>3, <1>4, <1>5, <1>6

\* A GObject property holds what it held at first or the value, of the type of the
\* property, that the variant of a Set held: never the variant itself, and never
\* what a property that cannot be written was given (GetOrSet, Set).
PropertiesHoldValues ==
  \A p \in DOMAIN GProperties :
    \/ property[p] = <<"initial">>
    \/ /\ GProperties[p].writable
       /\ \E c \in Calls :
            LET m == call[c].message IN
            /\ call[c].state # "idle"
            /\ m.iface = PropertiesIface /\ m.member = "Set" /\ 3 \in DOMAIN m.args
            /\ m.args[3].t = <<"v">> /\ property[p] = m.args[3].d
            /\ Demarshals(m.args[3].of, GType(GProperties[p].type))

\* What a property holds was checked against its own type, whatever the documents
\* and the messages are.
THEOREM PropertiesCorrect == Spec => []PropertiesHoldValues
<1> DEFINE PInv == Inv /\ PropertiesHoldValues
<1>1. Init => PInv
  <2>1. Init => PropertiesHoldValues
    BY DEF Init, PropertiesHoldValues
  <2> QED
    BY <2>1, InitInv
<1>2. PropertiesHoldValues /\ PropertyMoves /\ MessagesStay => PropertiesHoldValues'
  <2> SUFFICES ASSUME PropertiesHoldValues, PropertyMoves, MessagesStay,
                      NEW p \in DOMAIN GProperties,
                      property'[p] # <<"initial">>
               PROVE  \E c \in Calls : call'[c].state # "idle" /\ Came(p, property'[p], call'[c].message)
    BY DEF PropertiesHoldValues, Came
  <2>1. PICK c \in Calls : call[c].state # "idle" /\ Came(p, property'[p], call[c].message)
    <3>1. CASE property'[p] = property[p]
      BY <3>1 DEF PropertiesHoldValues, Came
    <3> QED
      BY <3>1 DEF PropertyMoves
  <2> QED
    BY <2>1 DEF MessagesStay
<1>3. PInv /\ [Next]_vars => PInv'
  BY <1>2, NextInv, NextMoves
<1> QED
  BY <1>1, <1>3, PTL DEF Spec

--------------------------------------------------------------------------------
(* Properties are written only where a document lets them be *)

\* A concatenation has what holds of the first sequence and is kept by each next.
LEMMA FlattenIn ==
  ASSUME NEW ss, NEW n \in Nat, n > 0, Len(ss) = n, NEW T, ss[1] \in T,
         \A x \in T : \A i \in 2..n : x \o ss[i] \in T
  PROVE  FlattenSeq(ss) \in T
<1> DEFINE R(g, k) == g = [i \in 1..k |-> IF i = 1 THEN ss[i] ELSE g[i - 1] \o ss[i]]
           S == {k \in Nat : \E g : R(g, k)}
<1>1. 0 \in S
  <2>1. R([i \in {} |-> 0], 0)
    OBVIOUS
  <2> QED
    BY <2>1
<1>2. ASSUME NEW k \in Nat, k \in S
      PROVE  k + 1 \in S
  <2>1. PICK g : R(g, k)
    BY <1>2
  <2>0. PICK last : last = IF k + 1 = 1 THEN ss[k + 1] ELSE g[k] \o ss[k + 1]
    OBVIOUS
  <2> DEFINE h == [i \in 1..k + 1 |-> IF i = k + 1 THEN last ELSE g[i]]
  <2>2. h = [i \in 1..k + 1 |-> h[i]]
    OBVIOUS
  <2>3. \A i \in 1..k : i \in 1..k + 1 /\ i # k + 1 /\ h[i] = g[i]
    OBVIOUS
  <2>4. k + 1 \in 1..k + 1 /\ k + 1 - 1 = k
    OBVIOUS
  <2>5. h[k + 1] = IF k + 1 = 1 THEN ss[k + 1] ELSE g[k] \o ss[k + 1]
    BY <2>0, <2>4
  <2>6. \A i \in 1..k : g[i] = IF i = 1 THEN ss[i] ELSE g[i - 1] \o ss[i]
    BY <2>1
  <2> HIDE DEF h
  <2>7. ASSUME NEW i \in 1..k + 1
        PROVE  h[i] = IF i = 1 THEN ss[i] ELSE h[i - 1] \o ss[i]
    <3>1. CASE i = k + 1 /\ i = 1
      BY <2>5, <3>1
    <3>2. CASE i = k + 1 /\ i # 1
      <4>1. k \in 1..k /\ i - 1 = k
        BY <3>2
      <4>2. h[i - 1] = g[k]
        BY <2>3, <4>1
      <4> QED
        BY <2>5, <3>2, <4>2
    <3>3. CASE i \in 1..k /\ i = 1
      BY <2>3, <2>6, <3>3
    <3>4. CASE i \in 1..k /\ i # 1
      <4>1. i - 1 \in 1..k
        BY <3>4
      <4>2. h[i - 1] = g[i - 1] /\ h[i] = g[i]
        BY <2>3, <3>4, <4>1
      <4> QED
        BY <2>6, <3>4, <4>2
    <3> QED
      BY <3>1, <3>2, <3>3, <3>4
  <2>8. R(h, k + 1)
    BY Zenon, <2>2, <2>7
  <2> HIDE DEF R
  <2> QED
    BY <2>8
<1>3. n \in S
  <2> HIDE DEF S
  <2>1. Nat \subseteq S
    BY <1>1, <1>2, SetInduction
  <2> QED
    BY <2>1
<1>4. PICK f : f = CHOOSE g : R(g, n)
  OBVIOUS
<1>5. R(f, n)
  BY <1>3, <1>4
<1>6. FlattenSeq(ss) = f[n]
  <2>1. FlattenSeq(ss) = (CHOOSE g : R(g, n))[n]
    BY DEF FlattenSeq
  <2> QED
    BY <1>4, <2>1
<1>7. n \in {k \in Nat : k \in 1..n => f[k] \in T}
  <2> DEFINE U == {k \in Nat : k \in 1..n => f[k] \in T}
  <2>1. 0 \in U
    OBVIOUS
  <2>2. ASSUME NEW k \in Nat, k \in U PROVE k + 1 \in U
    <3> SUFFICES ASSUME k + 1 \in 1..n PROVE f[k + 1] \in T
      OBVIOUS
    <3>1. f[k + 1] = IF k + 1 = 1 THEN ss[k + 1] ELSE f[k + 1 - 1] \o ss[k + 1]
      <4>1. \A i \in 1..n : f[i] = IF i = 1 THEN ss[i] ELSE f[i - 1] \o ss[i]
        BY <1>5
      <4> QED
        BY <4>1
    <3>2. CASE k = 0
      BY <3>1, <3>2
    <3>3. CASE k # 0
      <4>1. f[k] \in T /\ k + 1 \in 2..n /\ k + 1 - 1 = k /\ k + 1 # 1
        BY <2>2, <3>3
      <4> QED
        BY <3>1, <4>1
    <3> QED
      BY <3>2, <3>3
  <2> HIDE DEF U
  <2>3. Nat \subseteq U
    BY <2>1, <2>2, SetInduction
  <2> QED
    BY <2>3 DEF U
<1> QED
  BY <1>6, <1>7

LEMMA PropertiesField ==
  ASSUME NEW d
  PROVE  ServerGlue(d).properties =
           FlattenSeq([i \in DOMAIN d |->
             FlattenSeq([k \in DOMAIN d[i].properties |-> PropertyEntry(d[i], d[i].properties[k])])])
BY Zenon DEF ServerGlue, ForEach

LEMMA VersionField == ASSUME NEW d PROVE ServerGlue(d).version = 1
BY Zenon DEF ServerGlue

\* A table of the entries E: four strings for each.
Quads(E, S) ==
  {x \in Seq(S) : \E q \in Nat :
     /\ Len(x) = 4 * q
     /\ \A k \in 1..q : \E e \in E : /\ x[4 * k - 3] = e[1] /\ x[4 * k - 2] = e[2]
                                     /\ x[4 * k - 1] = e[3] /\ x[4 * k] = e[4]}

LEMMA QuadsJoin ==
  ASSUME NEW E, NEW S, NEW x \in Quads(E, S), NEW y \in Quads(E, S)
  PROVE  x \o y \in Quads(E, S)
<1>1. PICK q \in Nat :
        /\ Len(x) = 4 * q
        /\ \A k \in 1..q : \E e \in E : /\ x[4 * k - 3] = e[1] /\ x[4 * k - 2] = e[2]
                                        /\ x[4 * k - 1] = e[3] /\ x[4 * k] = e[4]
  BY DEF Quads
<1>2. PICK r \in Nat :
        /\ Len(y) = 4 * r
        /\ \A k \in 1..r : \E e \in E : /\ y[4 * k - 3] = e[1] /\ y[4 * k - 2] = e[2]
                                        /\ y[4 * k - 1] = e[3] /\ y[4 * k] = e[4]
  BY DEF Quads
<1>3. x \in Seq(S) /\ y \in Seq(S)
  BY DEF Quads
<1>4. PICK z : z = x \o y
  OBVIOUS
<1>5. /\ z \in Seq(S) /\ Len(z) = 4 * (q + r)
      /\ \A i \in 1..4 * q : z[i] = x[i]
      /\ \A i \in 1..4 * r : z[4 * q + i] = y[i]
  <2>1. /\ z \in Seq(S) /\ Len(z) = Len(x) + Len(y)
        /\ \A i \in 1..Len(x) : z[i] = x[i]
        /\ \A i \in 1..Len(y) : z[Len(x) + i] = y[i]
    BY <1>3, <1>4
  <2> QED
    BY <1>1, <1>2, <2>1
<1>6. ASSUME NEW k \in 1..q + r
      PROVE  \E e \in E : /\ z[4 * k - 3] = e[1] /\ z[4 * k - 2] = e[2]
                          /\ z[4 * k - 1] = e[3] /\ z[4 * k] = e[4]
  <2>1. CASE k <= q
    <3>1. /\ k \in 1..q /\ 4 * k - 3 \in 1..4 * q /\ 4 * k - 2 \in 1..4 * q
          /\ 4 * k - 1 \in 1..4 * q /\ 4 * k \in 1..4 * q
      BY <2>1
    <3>2. /\ z[4 * k - 3] = x[4 * k - 3] /\ z[4 * k - 2] = x[4 * k - 2]
          /\ z[4 * k - 1] = x[4 * k - 1] /\ z[4 * k] = x[4 * k]
      BY <1>5, <3>1
    <3> QED
      BY Zenon, <1>1, <3>1, <3>2
  <2>2. CASE k > q
    <3>1. PICK j \in 1..r : k = q + j
      <4>1. k - q \in 1..r /\ k = q + (k - q)
        BY <2>2
      <4> QED
        BY <4>1
    <3>2. /\ 4 * j - 3 \in 1..4 * r /\ 4 * j - 2 \in 1..4 * r
          /\ 4 * j - 1 \in 1..4 * r /\ 4 * j \in 1..4 * r
          /\ 4 * k - 3 = 4 * q + (4 * j - 3) /\ 4 * k - 2 = 4 * q + (4 * j - 2)
          /\ 4 * k - 1 = 4 * q + (4 * j - 1) /\ 4 * k = 4 * q + 4 * j
      BY <3>1
    <3>3. /\ z[4 * k - 3] = y[4 * j - 3] /\ z[4 * k - 2] = y[4 * j - 2]
          /\ z[4 * k - 1] = y[4 * j - 1] /\ z[4 * k] = y[4 * j]
      BY <1>5, <3>2
    <3> QED
      BY <1>2, <3>3
  <2> QED
    BY <2>1, <2>2
<1>7. z \in Quads(E, S)
  <2>1. PICK u \in Nat : u = q + r
    OBVIOUS
  <2>2. Len(z) = 4 * u
    BY <1>5, <2>1
  <2>3. \A k \in 1..u : \E e \in E : /\ z[4 * k - 3] = e[1] /\ z[4 * k - 2] = e[2]
                                     /\ z[4 * k - 1] = e[3] /\ z[4 * k] = e[4]
    BY <1>6, <2>1
  <2> QED
    BY Zenon, <1>5, <2>2, <2>3 DEF Quads
<1> QED
  BY <1>4, <1>7

LEMMA QuadsNone ==
  ASSUME NEW E, NEW S, NEW x \in Seq(S), Len(x) = 0 PROVE x \in Quads(E, S)
<1>1. 0 \in Nat /\ Len(x) = 4 * 0 /\ 1..0 = {}
  OBVIOUS
<1> QED
  BY <1>1 DEF Quads

LEMMA QuadsOne ==
  ASSUME NEW E, NEW S, NEW a \in S, NEW b \in S, NEW c \in S, NEW d \in S, <<a, b, c, d>> \in E
  PROVE  <<a, b, c, d>> \in Quads(E, S)
<1>1. PICK x : x = <<a, b, c, d>>
  OBVIOUS
<1>2. x \in Seq(S) /\ Len(x) = 4 * 1 /\ x \in E
  BY <1>1
<1>3. \A k \in 1..1 : 4 * k - 3 = 1 /\ 4 * k - 2 = 2 /\ 4 * k - 1 = 3 /\ 4 * k = 4
  OBVIOUS
<1>4. x \in Quads(E, S)
  BY <1>2, <1>3 DEF Quads
<1> QED
  BY <1>1, <1>4

LEMMA QuadsFlatten ==
  ASSUME NEW E, NEW S, NEW ss, IsSeq(ss), \A k \in DOMAIN ss : ss[k] \in Quads(E, S)
  PROVE  FlattenSeq(ss) \in Quads(E, S)
<1>1. Len(ss) \in Nat /\ DOMAIN ss = 1..Len(ss)
  BY DEF IsSeq
<1>2. CASE Len(ss) = 0
  <2>1. ss \in Seq(S)
    <3>1. \A k \in 1..Len(ss) : ss[k] \in S
      BY <1>2
    <3> QED
      BY <3>1, Retyped DEF IsSeq
  <2>2. FlattenSeq(ss) = ss
    BY <1>2 DEF FlattenSeq
  <2> QED
    BY <1>2, <2>1, <2>2, QuadsNone
<1>3. CASE Len(ss) > 0
  <2>1. PICK n \in Nat : n = Len(ss)
    BY <1>1
  <2>2. ss[1] \in Quads(E, S) /\ \A i \in 2..n : ss[i] \in Quads(E, S)
    BY <1>1, <1>3, <2>1
  <2>3. \A x \in Quads(E, S) : \A i \in 2..n : x \o ss[i] \in Quads(E, S)
    BY <2>2, QuadsJoin
  <2> QED
    BY <1>3, <2>1, <2>2, <2>3, FlattenIn
<1> QED
  BY <1>1, <1>2, <1>3

\* A sequence made of each member of another.
LEMMA Mapped ==
  ASSUME NEW s, IsSeq(s), NEW t, t = [k \in DOMAIN s |-> t[k]]
  PROVE  IsSeq(t) /\ DOMAIN t = DOMAIN s
<1>1. Len(s) \in Nat /\ DOMAIN s = 1..Len(s)
  BY DEF IsSeq
<1>2. DOMAIN t = 1..Len(s)
  BY <1>1
<1> DEFINE R == {t[k] : k \in DOMAIN t}
<1>3. \A k \in 1..Len(s) : t[k] \in R
  BY <1>2
<1>4. t \in [1..Len(s) -> R]
  <2> HIDE DEF R
  <2> QED
    BY <1>1, <1>3
<1>5. t \in Seq(R)
  <2> HIDE DEF R
  <2> QED
    BY <1>1, <1>4
<1> QED
  BY <1>1, <1>2, <1>5 DEF IsSeq

\* The entries of the properties of a document that can be read or written.
Entries(d) ==
  UNION {{PropertyEntry(i, p) : p \in {q \in ToSet(i.properties) : q.access # {}}} : i \in ToSet(d)}
Strings(d) == UNION {{e[1], e[2], e[3], e[4]} : e \in Entries(d)}
Documented(d) ==
  /\ IsSeq(d)
  /\ \A i \in ToSet(d) : IsSeq(i.properties)

LEMMA EntryQuads ==
  ASSUME NEW d, NEW i \in ToSet(d), NEW p \in ToSet(i.properties)
  PROVE  PropertyEntry(i, p) \in Quads(Entries(d), Strings(d))
<1>1. CASE p.access = {}
  <2>1. PropertyEntry(i, p) = <<>>
    BY <1>1 DEF PropertyEntry
  <2> QED
    BY <2>1, EmptyIn, QuadsNone
<1>2. CASE p.access # {}
  <2>1. PICK a, b, c, x : PropertyEntry(i, p) = <<a, b, c, x>>
    BY <1>2 DEF PropertyEntry
  <2>2. PropertyEntry(i, p) \in Entries(d)
    <3>1. p \in {q \in ToSet(i.properties) : q.access # {}}
      BY <1>2
    <3>2. PropertyEntry(i, p) \in {PropertyEntry(i, r) : r \in {q \in ToSet(i.properties) : q.access # {}}}
      BY Zenon, <3>1
    <3> QED
      BY Zenon, <3>2 DEF Entries
  <2>3. PICK e \in Entries(d) : e = <<a, b, c, x>>
    BY <2>1, <2>2
  <2>4. e[1] = a /\ e[2] = b /\ e[3] = c /\ e[4] = x
    BY <2>3
  <2>5. a \in Strings(d) /\ b \in Strings(d) /\ c \in Strings(d) /\ x \in Strings(d)
    BY <2>4 DEF Strings
  <2> QED
    BY <2>1, <2>3, <2>5, QuadsOne
<1> QED
  BY <1>1, <1>2

LEMMA GlueQuads ==
  ASSUME NEW d, Documented(d)
  PROVE  ServerGlue(d).properties \in Quads(Entries(d), Strings(d))
<1> DEFINE part(i) == [k \in DOMAIN d[i].properties |-> PropertyEntry(d[i], d[i].properties[k])]
           whole == [i \in DOMAIN d |-> FlattenSeq(part(i))]
<1>1. ASSUME NEW i \in DOMAIN d
      PROVE  FlattenSeq(part(i)) \in Quads(Entries(d), Strings(d))
  <2>1. d[i] \in ToSet(d) /\ IsSeq(d[i].properties)
    BY DEF Documented, ToSet
  <2>2. PICK t : t = part(i)
    OBVIOUS
  <2>3. t = [k \in DOMAIN d[i].properties |-> t[k]]
    BY <2>2
  <2>4. IsSeq(t) /\ DOMAIN t = DOMAIN d[i].properties
    BY <2>1, <2>3, Mapped
  <2>5. \A k \in DOMAIN t : t[k] \in Quads(Entries(d), Strings(d))
    <3> SUFFICES ASSUME NEW k \in DOMAIN t PROVE t[k] \in Quads(Entries(d), Strings(d))
      OBVIOUS
    <3>1. t[k] = PropertyEntry(d[i], d[i].properties[k]) /\ d[i].properties[k] \in ToSet(d[i].properties)
      BY <2>2, <2>4 DEF ToSet
    <3> QED
      BY <2>1, <3>1, EntryQuads
  <2>6. FlattenSeq(t) \in Quads(Entries(d), Strings(d))
    BY <2>4, <2>5, QuadsFlatten
  <2> QED
    BY <2>2, <2>6
<1>2. PICK w : w = whole
  OBVIOUS
<1>3. /\ w = [i \in DOMAIN d |-> w[i]]
      /\ \A i \in DOMAIN d : w[i] = FlattenSeq(part(i))
  BY <1>2
<1>4. IsSeq(w) /\ DOMAIN w = DOMAIN d
  BY <1>3, Mapped DEF Documented
<1>5. FlattenSeq(w) \in Quads(Entries(d), Strings(d))
  BY <1>1, <1>3, <1>4, QuadsFlatten
<1> QED
  BY Zenon, <1>2, <1>5, PropertiesField

\* property_iterate reads the entries of the table.
LEMMA EntriesRead ==
  ASSUME NEW info, NEW E, NEW S, info.version = 1, info.properties \in Quads(E, S),
         NEW k \in DOMAIN Properties(info)
  PROVE  /\ k \in Nat
         /\ \E e \in E : /\ Properties(info)[k].iface = e[1] /\ Properties(info)[k].name = e[2]
                         /\ Properties(info)[k].uscored = e[3] /\ Properties(info)[k].access = e[4]
<1>1. PICK x : x = info.properties
  OBVIOUS
<1>2. PICK q \in Nat :
        /\ Len(x) = 4 * q
        /\ \A j \in 1..q : \E e \in E : /\ x[4 * j - 3] = e[1] /\ x[4 * j - 2] = e[2]
                                        /\ x[4 * j - 1] = e[3] /\ x[4 * j] = e[4]
  BY <1>1 DEF Quads
<1>3. Properties(info) =
        [j \in 1..(Len(x) \div 4) |->
           [iface |-> x[4 * (j - 1) + 1], name |-> x[4 * (j - 1) + 1 + 1],
            uscored |-> x[4 * (j - 1) + 1 + 2], access |-> x[4 * (j - 1) + 1 + 3]]]
  BY <1>1 DEF Properties
<1>4. k \in 1..q
  <2>1. Len(x) \div 4 = q
    BY <1>2
  <2> QED
    BY <1>3, <2>1
<1>5. /\ 4 * (k - 1) + 1 = 4 * k - 3 /\ 4 * (k - 1) + 1 + 1 = 4 * k - 2
      /\ 4 * (k - 1) + 1 + 2 = 4 * k - 1 /\ 4 * (k - 1) + 1 + 3 = 4 * k
  BY <1>4
<1>6. PICK a, b, c, d : a = x[4 * k - 3] /\ b = x[4 * k - 2] /\ c = x[4 * k - 1] /\ d = x[4 * k]
  OBVIOUS
<1>7. Properties(info)[k] = [iface |-> a, name |-> b, uscored |-> c, access |-> d]
  BY <1>3, <1>5, <1>6
<1>8. /\ Properties(info)[k].iface = a /\ Properties(info)[k].name = b
      /\ Properties(info)[k].uscored = c /\ Properties(info)[k].access = d
  BY <1>7
<1>9. \E e \in E : a = e[1] /\ b = e[2] /\ c = e[3] /\ d = e[4]
  BY <1>2, <1>4, <1>6
<1> QED
  BY <1>4, <1>8, <1>9

\* The least of a set of numbers is one of them.
LEMMA MinIn == ASSUME NEW S, S \subseteq Nat, S # {} PROVE Min(S) \in S
<1>1. PICK m \in S : \A k \in S : m <= k
  BY LeastNatural
<1> QED
  BY <1>1 DEF Min

\* The access that is found is that of a property of the interface which fits.
LEMMA AccessFound ==
  ASSUME NEW d, Documented(d), NEW info, info = ServerGlue(d), NEW iface, NEW asked,
         PropertyAccess(info, iface, asked) # None
  PROVE  \E e \in Entries(d) :
           /\ e[1] = iface /\ PropertyAccess(info, iface, asked) = e[4]
           /\ SameName(asked, e[2]) \/ SameName(asked, wincaps_to_uscore(e[2]))
<1>1. PICK ps, fits :
        /\ ps = Properties(info)
        /\ fits = {k \in DOMAIN ps : ps[k].iface = iface /\ NameFits(asked, ps[k])}
  OBVIOUS
<1>2. PropertyAccess(info, iface, asked) = IF fits = {} THEN None ELSE ps[Min(fits)].access
  BY <1>1 DEF PropertyAccess
<1>3. ASSUME NEW k \in DOMAIN ps
      PROVE  /\ k \in Nat
             /\ \E e \in Entries(d) : /\ ps[k].iface = e[1] /\ ps[k].name = e[2]
                                      /\ ps[k].uscored = e[3] /\ ps[k].access = e[4]
  BY <1>1, GlueQuads, VersionField, EntriesRead
<1>4. Min(fits) \in fits
  <2>1. fits \subseteq Nat
    BY <1>1, <1>3
  <2> QED
    BY <1>2, <2>1, MinIn
<1>5. PICK k \in DOMAIN ps : k = Min(fits) /\ ps[k].iface = iface /\ NameFits(asked, ps[k])
  BY <1>1, <1>4
<1>6. PICK e \in Entries(d) : /\ ps[k].iface = e[1] /\ ps[k].name = e[2]
                              /\ ps[k].uscored = e[3] /\ ps[k].access = e[4]
  BY <1>3
<1>7. SameName(asked, e[2]) \/ SameName(asked, wincaps_to_uscore(e[2]))
  BY <1>5, <1>6 DEF NameFits
<1>8. PropertyAccess(info, iface, asked) = e[4]
  BY <1>2, <1>5, <1>6
<1> QED
  BY <1>5, <1>6, <1>7, <1>8

\* The info that is asked is that of a type which has one.
LEMMA TypeFound ==
  ASSUME NEW iface, NEW fallback, NEW t, t = TypeByIface(Interfaces, Classes, infos, iface, fallback),
         t # None
  PROVE  t \in Types /\ infos[t] # None
<1> DEFINE fits(u) == infos[u] # None /\ AnswersFor(infos[u], iface, fallback)
<1>1. PICK is, own, cs :
        /\ is = {k \in DOMAIN Interfaces : fits(Interfaces[k])}
        /\ own = {k \in DOMAIN Classes : infos[Classes[k]] # None}
        /\ cs = {k \in DOMAIN Classes : fits(Classes[k])}
  OBVIOUS
<1>2. t = IF is = {} THEN IF cs = {} THEN None ELSE Classes[Min(cs)]
          ELSE IF own # {} /\ fits(Classes[Min(own)]) THEN Classes[Min(own)]
          ELSE Interfaces[Min(is)]
  BY Zenon, <1>1 DEF TypeByIface
<1>3. /\ Interfaces \in Seq(ToSet(Interfaces)) /\ Classes \in Seq(ToSet(Classes))
  BY DocumentsAssumption
<1>4. /\ \A k \in DOMAIN Interfaces : k \in Nat /\ Interfaces[k] \in Types
      /\ \A k \in DOMAIN Classes : k \in Nat /\ Classes[k] \in Types
  <2>1. PICK A, B : A = ToSet(Interfaces) /\ B = ToSet(Classes)
    OBVIOUS
  <2>2. Interfaces \in Seq(A) /\ Classes \in Seq(B)
    BY <1>3, <2>1
  <2>3. PICK z : z = Interfaces \o Classes
    OBVIOUS
  <2>4. /\ Len(Interfaces) \in Nat /\ Len(Classes) \in Nat
        /\ DOMAIN Interfaces = 1..Len(Interfaces) /\ DOMAIN Classes = 1..Len(Classes)
        /\ DOMAIN z = 1..Len(Interfaces) + Len(Classes)
        /\ \A k \in 1..Len(Interfaces) : z[k] = Interfaces[k]
        /\ \A k \in 1..Len(Classes) : z[Len(Interfaces) + k] = Classes[k]
    <3>1. Interfaces \in Seq(A \cup B) /\ Classes \in Seq(A \cup B)
      BY <2>2
    <3> QED
      BY <2>3, <3>1
  <2>5. Types = {z[k] : k \in DOMAIN z}
    BY <2>3 DEF Types, ToSet
  <2>6. ASSUME NEW k \in DOMAIN Interfaces PROVE k \in Nat /\ Interfaces[k] \in Types
    <3>1. k \in Nat /\ k \in DOMAIN z /\ z[k] = Interfaces[k]
      BY <2>4
    <3> QED
      BY <2>5, <3>1
  <2>7. ASSUME NEW k \in DOMAIN Classes PROVE k \in Nat /\ Classes[k] \in Types
    <3>1. k \in Nat /\ Len(Interfaces) + k \in DOMAIN z /\ z[Len(Interfaces) + k] = Classes[k]
      BY <2>4
    <3> QED
      BY <2>5, <3>1
  <2> QED
    BY <2>6, <2>7
<1>5. /\ is # {} => Min(is) \in is
      /\ cs # {} => Min(cs) \in cs
      /\ own # {} => Min(own) \in own
  <2>1. is \subseteq Nat /\ cs \subseteq Nat /\ own \subseteq Nat
    BY Zenon, <1>1, <1>4
  <2> QED
    BY <2>1, MinIn
<1>6. CASE is = {}
  <2>1. cs # {} /\ t = Classes[Min(cs)]
    BY <1>2, <1>6
  <2> QED
    BY <1>1, <1>4, <1>5, <2>1
<1>7. CASE is # {} /\ t = Interfaces[Min(is)]
  BY <1>1, <1>4, <1>5, <1>7
<1>8. CASE is # {} /\ own # {} /\ t = Classes[Min(own)]
  BY <1>1, <1>4, <1>5, <1>8
<1> QED
  BY <1>2, <1>6, <1>7, <1>8

\* The infos are those that were built of the documents.
InfosBuilt ==
  /\ world \in DOMAIN Worlds
  /\ infos = [t \in Types |-> Build(Worlds[world][t])]

\* A document lets a property of one of these names be written.
Writable(iface, asked, s) ==
  \E t \in Types : \E i \in ToSet(Worlds[world][t]) : \E p \in ToSet(i.properties) :
    /\ infos[t] # None /\ i.name = iface /\ "write" \in p.access
    /\ \E n \in {asked, s} : \E own \in {p.name, wincaps_to_uscore(p.name)} : SameName(n, own)

\* What check_property_access lets be set, some document lets be written.
LEMMA AccessChecked ==
  ASSUME InfosBuilt, NEW iface, NEW asked, NEW s, check_property_access(iface, asked, s, TRUE)
  PROVE  Writable(iface, asked, s)
<1>1. PICK t : t = TypeByIface(Interfaces, Classes, infos, iface, TRUE)
  OBVIOUS
<1>2. PICK access : /\ t # None /\ access # None /\ access # "read"
                    /\ \E n \in {asked, s} : access = PropertyAccess(infos[t], iface, n)
  <2> DEFINE of(n) == PropertyAccess(infos[t], iface, n)
             access == IF of(asked) # None THEN of(asked) ELSE of(s)
  <2>1. t # None /\ access # None /\ access # "read"
    BY Zenon, <1>1 DEF check_property_access
  <2>2. \E n \in {asked, s} : access = of(n)
    BY Zenon
  <2> QED
    BY Zenon, <2>1, <2>2
<1>3. PICK n \in {asked, s} : access = PropertyAccess(infos[t], iface, n)
  BY <1>2
<1>4. t \in Types /\ infos[t] # None
  BY <1>1, <1>2, TypeFound
<1>5. PICK d : d = Worlds[world][t]
  OBVIOUS
<1>6. infos[t] = ServerGlue(d)
  BY <1>4, <1>5 DEF InfosBuilt, Build
<1>7. /\ Documented(d)
      /\ \A i \in ToSet(d) : \A p \in ToSet(i.properties) : p.access \subseteq {"read", "write"}
  <2>1. \A i \in ToSet(d) : i.properties \in Seq(ToSet(i.properties))
    BY <1>4, <1>5, DocumentsAssumption DEF InfosBuilt
  <2>2. d \in Seq(ToSet(d))
    BY <1>4, <1>5, DocumentsAssumption DEF InfosBuilt
  <2>3. \A i \in ToSet(d) : \A p \in ToSet(i.properties) : p.access \subseteq {"read", "write"}
    BY <1>4, <1>5, DocumentsAssumption DEF InfosBuilt
  <2> QED
    BY <2>1, <2>2, <2>3 DEF Documented, IsSeq, ToSet
<1>8. PICK e \in Entries(d) :
        /\ e[1] = iface /\ access = e[4]
        /\ SameName(n, e[2]) \/ SameName(n, wincaps_to_uscore(e[2]))
  BY <1>2, <1>3, <1>6, <1>7, AccessFound
<1>9. PICK i \in ToSet(d) : \E p \in ToSet(i.properties) : p.access # {} /\ e = PropertyEntry(i, p)
  BY <1>8 DEF Entries
<1>10. PICK p \in ToSet(i.properties) : p.access # {} /\ e = PropertyEntry(i, p)
  BY <1>9
<1>11. /\ i.name = iface /\ e[2] = p.name
      /\ access = IF p.access = {"read", "write"} THEN "readwrite"
                  ELSE IF p.access = {"read"} THEN "read" ELSE "write"
  <2>1. PICK x : x = IF p.access = {"read", "write"} THEN "readwrite"
                  ELSE IF p.access = {"read"} THEN "read" ELSE "write"
    OBVIOUS
  <2>2. e = <<i.name, p.name, wincaps_to_uscore(p.name), x>>
    BY <1>10, <2>1 DEF PropertyEntry
  <2> QED
    BY <1>8, <2>1, <2>2
<1>12. "write" \in p.access
  BY <1>2, <1>7, <1>10, <1>11
<1> QED
  BY <1>2, <1>4, <1>5, <1>8, <1>11, <1>12 DEF Writable

LEMMA Looked ==
  ASSUME NEW iface, NEW asked
  PROVE  lookup_property_name(iface, asked)
           \in {wincaps_to_uscore(asked)} \cup {s[3] : s \in {x \in shadow : x[2] = asked}}
<1> DEFINE t == TypeByIface(Interfaces, Classes, infos, iface, FALSE)
           ours == {s \in shadow : s[1] = t /\ s[2] = asked}
<1>1. lookup_property_name(iface, asked) =
        IF ours # {} THEN (CHOOSE s \in ours : TRUE)[3] ELSE wincaps_to_uscore(asked)
  BY Zenon DEF lookup_property_name
<1>2. ours # {} => (CHOOSE s \in ours : TRUE) \in {x \in shadow : x[2] = asked}
  BY Zenon
<1> HIDE DEF ours, t
<1> QED
  BY <1>1, <1>2

\* A Set that changes a property was let through by a document, and gives it the
\* value that its variant holds.
SetWasLet ==
  property' # property =>
    LET m == Head(requests) IN
    /\ m.iface = PropertiesIface /\ m.member = "Set"
    /\ \E g \in DOMAIN GProperties :
         /\ GProperties[g].writable
         /\ Demarshals(m.args[3].of, GType(GProperties[g].type))
         /\ property' = [property EXCEPT ![g] = m.args[3].d]
    /\ LetsWrite(m)

LEMMA DispatchLet ==
  ASSUME InfosBuilt, Dispatch
  PROVE  SetWasLet
<1> SUFFICES ASSUME property' # property
             PROVE  SetWasLet
  BY DEF SetWasLet
<1> DEFINE m == Head(requests)
           at == lookup_object_and_method(m)
<1>1. \/ Standard(m) /\ ~Ends
      \/ Ends
      \/ \E code : RefusesArguments(m, GError(code))
      \/ InvokesSync(at, m)
      \/ InvokesAsync(at, m)
  <2>1. Standard(m) \/ Invokes(at, m)
    BY Zenon DEF Dispatch
  <2> QED
    BY Zenon, <2>1, Serves
<1> HIDE DEF m, at
<1>2. Standard(m) /\ ~Ends
  BY <1>1 DEF Ends, RefusesArguments, InvokesSync, InvokesAsync
<1>3. property' = GetOrSet(m).property /\ m.iface = PropertiesIface
  BY <1>2, StandardReply
<1>4. ASSUME NEW reply PROVE Handled(reply).property = property
  BY DEF Handled
<1>5. ASSUME NEW args PROVE GetOrSet(m) # Handled(Return(m, args))
  BY Zenon, <1>3, <1>4
<1>6. GetOrSet(m) \notin {InvalidArgs(m), AccessDenied(m), Failed(m), Aborted}
  BY <1>3, <1>4 DEF InvalidArgs, AccessDenied, Failed, Aborted
<1>7. PICK iface, asked, s : /\ iface = Text(m, 1) /\ asked = Text(m, 2)
                             /\ s = lookup_property_name(iface, asked)
                             /\ check_property_access(iface, asked, s, TRUE)
  BY Zenon, <1>5, <1>6, GetOrSetCases
<1>8. /\ m.member = "Set"
      /\ \E g \in DOMAIN GProperties :
           /\ GProperties[g].writable
           /\ Demarshals(m.args[3].of, GType(GProperties[g].type))
           /\ property' = [property EXCEPT ![g] = m.args[3].d]
  <2>1. PICK q \in DOMAIN GProperties :
          /\ GetOrSet(m) = [reply |-> Return(m, <<>>), property |-> Set(q, m.args[3])]
          /\ m.member = "Set"
          /\ Demarshals(m.args[3].of, GType(GProperties[q].type))
    BY Zenon, <1>5, <1>6, GetOrSetCases
  <2>2. ASSUME NEW reply, NEW f PROVE [reply |-> reply, property |-> f].property = f
    OBVIOUS
  <2>3. property' = Set(q, m.args[3])
    BY Zenon, <1>3, <2>1, <2>2
  <2>4. GProperties[q].writable /\ property' = [property EXCEPT ![q] = m.args[3].d]
    BY <2>3 DEF Set
  <2> QED
    BY <2>1, <2>4
<1>9. PICK t \in Types : \E i \in ToSet(Worlds[world][t]) : \E p \in ToSet(i.properties) :
        /\ infos[t] # None /\ i.name = iface /\ "write" \in p.access
        /\ \E n \in {asked, s} : \E own \in {p.name, wincaps_to_uscore(p.name)} : SameName(n, own)
  <2>1. Writable(iface, asked, s)
    BY <1>7, AccessChecked
  <2> QED
    BY Zenon, <2>1 DEF Writable
<1>10. PICK i \in ToSet(Worlds[world][t]) : \E p \in ToSet(i.properties) :
        /\ infos[t] # None /\ i.name = iface /\ "write" \in p.access
        /\ \E n \in {asked, s} : \E own \in {p.name, wincaps_to_uscore(p.name)} : SameName(n, own)
  BY <1>9
<1>11. PICK p \in ToSet(i.properties) :
        /\ infos[t] # None /\ i.name = iface /\ "write" \in p.access
        /\ \E n \in {asked, s} : \E own \in {p.name, wincaps_to_uscore(p.name)} : SameName(n, own)
  BY <1>10
<1>12. s \in {wincaps_to_uscore(asked)} \cup {x[3] : x \in {x \in shadow : x[2] = asked}}
  BY <1>7, Looked
<1>13. Names(asked, p)
  BY <1>11, <1>12 DEF Names
<1> QED
  BY <1>3, <1>7, <1>8, <1>11, <1>13 DEF SetWasLet, LetsWrite, m

LEMMA NextLet == InfosBuilt /\ [Next]_vars => SetWasLet /\ InfosBuilt'
<1> SUFFICES ASSUME InfosBuilt, [Next]_vars
             PROVE  SetWasLet /\ InfosBuilt'
  OBVIOUS
<1>1. UNCHANGED glue
  BY DEF Next, Done, RegisterShadow, DisableLegacy, RegisterDomain, Call, SendRaw, Made, Dispatch,
         Receive, MethodReturn, MethodReturnError, MethodSendReply, Answers, vars, setup
<1>2. property' = property \/ Dispatch
  BY DEF Next, Done, RegisterShadow, DisableLegacy, RegisterDomain, Call, SendRaw, Made,
         Receive, MethodReturn, MethodReturnError, MethodSendReply, Answers, vars, traffic
<1>3. SetWasLet
  BY <1>2, DispatchLet DEF SetWasLet
<1> QED
  BY <1>1, <1>3 DEF glue, InfosBuilt

\* SetNeedsWriteAccess holds whatever the documents, names, shadows and messages are.
THEOREM SetCorrect == Spec => SetNeedsWriteAccess
<1>1. Init => InfosBuilt
  BY DEF Init, InfosBuilt
<1>2. InfosBuilt /\ [Next]_vars => [SetWasLet]_vars /\ InfosBuilt'
  BY NextLet
<1>3. Spec => [][SetWasLet]_vars
  BY <1>1, <1>2, PTL DEF Spec
<1> QED
  BY <1>3 DEF SetNeedsWriteAccess, SetWasLet
================================================================================
