--------------------------- MODULE PendingCallsProofs ---------------------------
(******************************************************************************)
(* Proofs about PendingCalls for every number of calls and identifiers, also  *)
(* when identifiers wrap and entries of pending_calls are overwritten.        *)
(******************************************************************************)
EXTENDS PendingCallsProps, FiniteSetTheorems, TLAPS

\* An entry is under the identifier its call was given, and leads to a call
\* that was made: no call has two entries.
TableFollowsHandles ==
  \A i \in Ids : table[i] # NoCall =>
    /\ handle[table[i]] = i
    /\ phase[table[i]] \notin {"unused", "refused"}

\* A callback runs for a call that is over, and once.
FramesDistinct ==
  \A j \in DOMAIN stack : stack[j].kind = "notify" =>
    /\ phase[stack[j].call] \notin {"unused", "refused", "waiting"}
    /\ \A k \in DOMAIN stack :
         stack[k].kind = "notify" /\ stack[k].call = stack[j].call => j = k

\* That a count stays a natural number rests on its being exact, and that it
\* stays exact rests on no call being in the table twice or notified twice.
Inv == TypeOK /\ RefsExact /\ TableFollowsHandles /\ FramesDistinct

--------------------------------------------------------------------------------
(* The stack *)

\* What is pushed lies on top of what was there.
LEMMA Pushed ==
  ASSUME NEW s \in Seq(Frames), NEW f \in Frames
  PROVE  /\ Append(s, f) \in Seq(Frames)
         /\ DOMAIN s = 1 .. Len(s) /\ Len(s) \in Nat
         /\ DOMAIN Append(s, f) = 1 .. Len(s) + 1
         /\ \A k \in DOMAIN s : Append(s, f)[k] = s[k]
         /\ Append(s, f)[Len(s) + 1] = f
OBVIOUS

\* What is popped leaves what was below it.
LEMMA Popped ==
  ASSUME NEW s \in Seq(Frames), s # <<>>
  PROVE  /\ SubSeq(s, 1, Len(s) - 1) \in Seq(Frames)
         /\ DOMAIN s = 1 .. Len(s) /\ Len(s) \in Nat \ {0}
         /\ DOMAIN SubSeq(s, 1, Len(s) - 1) = 1 .. Len(s) - 1
         /\ \A k \in 1 .. Len(s) - 1 : SubSeq(s, 1, Len(s) - 1)[k] = s[k]
         /\ s[Len(s)] \in Frames
<1>1. Len(s) \in Nat \ {0} /\ DOMAIN s = 1 .. Len(s)
  OBVIOUS
<1>2. \A k \in 1 .. Len(s) : s[k] \in Frames
  BY <1>1
<1> QED
  BY <1>1, <1>2

\* Fields of a frame.
LEMMA FrameFields ==
  ASSUME NEW f \in Frames
  PROVE  f.kind \in {"notify", "end"} /\ f.call \in Calls /\ f.id \in Ids
BY DEF Frames

\* Every frame in progress.
LEMMA FrameOf ==
  ASSUME TypeOK, NEW k \in DOMAIN stack
  PROVE  stack[k].kind \in {"notify", "end"} /\ stack[k].call \in Calls /\ stack[k].id \in Ids
<1>1. stack \in Seq(Frames)
  BY DEF TypeOK
<1>2. stack[k] \in Frames
  BY <1>1
<1> QED
  BY <1>2, FrameFields

\* The innermost one.
LEMMA TopFrame ==
  ASSUME TypeOK, stack # <<>>
  PROVE  /\ Len(stack) \in DOMAIN stack
         /\ Top.kind \in {"notify", "end"} /\ Top.call \in Calls /\ Top.id \in Ids
<1>1. stack \in Seq(Frames)
  BY DEF TypeOK
<1>2. Len(stack) \in DOMAIN stack
  BY <1>1
<1> QED
  BY <1>2, FrameOf DEF Top

\* A callback in progress keeps a call from being notified once more.
LEMMA PushNotify ==
  ASSUME TypeOK, FramesDistinct, NEW c \in Calls, NEW i \in Ids, phase[c] = "waiting",
         phase' = [phase EXCEPT ![c] = "completed"],
         stack' = Append(stack, [kind |-> "notify", call |-> c, id |-> i])
  PROVE  /\ stack' \in Seq(Frames)
         /\ FramesDistinct'
         /\ ~Notifying(c)
         /\ \A d \in Calls : Notifying(d)' <=> (Notifying(d) \/ d = c)
<1> DEFINE f == [kind |-> "notify", call |-> c, id |-> i]
<1>1. f \in Frames /\ stack \in Seq(Frames) /\ phase \in [Calls -> Phases]
  BY DEF Frames, TypeOK
<1>2. f.kind = "notify" /\ f.call = c
  OBVIOUS
<1> HIDE DEF f
<1>3. stack' = Append(stack, f)
  BY DEF f
<1>4. /\ stack' \in Seq(Frames)
      /\ DOMAIN stack = 1 .. Len(stack) /\ Len(stack) \in Nat
      /\ DOMAIN stack' = 1 .. Len(stack) + 1
      /\ \A k \in DOMAIN stack : stack'[k] = stack[k]
      /\ stack'[Len(stack) + 1] = f
  BY <1>1, <1>3, Pushed
<1>5. ~Notifying(c)
  BY DEF Notifying, FramesDistinct
<1>6. ASSUME NEW k \in DOMAIN stack'
      PROVE  \/ k \in DOMAIN stack /\ stack'[k] = stack[k]
             \/ k = Len(stack) + 1 /\ stack'[k] = f
  BY <1>4
<1>7. \A k \in DOMAIN stack : stack[k] \in Frames /\ stack[k].call \in Calls
  BY <1>1, <1>4, FrameFields
<1>8. \A d \in Calls : Notifying(d)' <=> (Notifying(d) \/ d = c)
  <2> TAKE d \in Calls
  <2>1. ASSUME Notifying(d)' PROVE Notifying(d) \/ d = c
    BY <1>2, <1>6, <2>1 DEF Notifying
  <2>2. ASSUME Notifying(d) PROVE Notifying(d)'
    BY <1>4, <2>2 DEF Notifying
  <2>3. Notifying(c)'
    BY <1>2, <1>4 DEF Notifying
  <2> QED
    BY <2>1, <2>2, <2>3
<1>9. FramesDistinct'
  <2> SUFFICES ASSUME NEW j \in DOMAIN stack', stack'[j].kind = "notify"
               PROVE  /\ phase'[stack'[j].call] \notin {"unused", "refused", "waiting"}
                      /\ \A k \in DOMAIN stack' :
                           stack'[k].kind = "notify" /\ stack'[k].call = stack'[j].call => j = k
    BY DEF FramesDistinct
  <2>1. phase'[stack'[j].call] \notin {"unused", "refused", "waiting"}
    <3>1. CASE j \in DOMAIN stack /\ stack'[j] = stack[j]
      BY <1>1, <1>7, <3>1 DEF FramesDistinct
    <3>2. CASE stack'[j] = f
      BY <1>1, <1>2, <3>2
    <3> QED
      BY <1>6, <3>1, <3>2
  <2>2. ASSUME NEW k \in DOMAIN stack', stack'[k].kind = "notify",
               stack'[k].call = stack'[j].call
        PROVE  j = k
    <3>1. CASE j \in DOMAIN stack /\ k \in DOMAIN stack
      BY <1>4, <2>2, <3>1 DEF FramesDistinct
    <3>2. CASE j \in DOMAIN stack /\ k \notin DOMAIN stack
      BY <1>2, <1>4, <1>5, <1>6, <2>2, <3>2 DEF Notifying
    <3>3. CASE j \notin DOMAIN stack /\ k \in DOMAIN stack
      BY <1>2, <1>4, <1>5, <1>6, <2>2, <3>3 DEF Notifying
    <3>4. CASE j \notin DOMAIN stack /\ k \notin DOMAIN stack
      BY <1>6, <3>4
    <3> QED
      BY <3>1, <3>2, <3>3, <3>4
  <2> QED
    BY <2>1, <2>2
<1> QED
  BY <1>4, <1>5, <1>8, <1>9

\* What is pushed by end_call is no callback.
LEMMA PushEnd ==
  ASSUME TypeOK, FramesDistinct, NEW c \in Calls, NEW i \in Ids, phase' = phase,
         stack' = Append(stack, [kind |-> "end", call |-> c, id |-> i])
  PROVE  /\ stack' \in Seq(Frames)
         /\ FramesDistinct'
         /\ \A d \in Calls : Notifying(d)' <=> Notifying(d)
<1> DEFINE f == [kind |-> "end", call |-> c, id |-> i]
<1>1. f \in Frames /\ stack \in Seq(Frames)
  BY DEF Frames, TypeOK
<1>2. f.kind = "end"
  OBVIOUS
<1> HIDE DEF f
<1>3. stack' = Append(stack, f)
  BY DEF f
<1>4. /\ stack' \in Seq(Frames)
      /\ DOMAIN stack = 1 .. Len(stack) /\ Len(stack) \in Nat
      /\ DOMAIN stack' = 1 .. Len(stack) + 1
      /\ \A k \in DOMAIN stack : stack'[k] = stack[k]
      /\ stack'[Len(stack) + 1] = f
  BY <1>1, <1>3, Pushed
<1>5. \A k \in DOMAIN stack' : stack'[k].kind = "notify" => k \in DOMAIN stack
  BY <1>2, <1>4
<1>6. FramesDistinct'
  BY <1>4, <1>5 DEF FramesDistinct
<1>7. \A d \in Calls : Notifying(d)' <=> Notifying(d)
  BY <1>4, <1>5 DEF Notifying
<1> QED
  BY <1>4, <1>6, <1>7

\* What is popped was the only callback for its call.
LEMMA PopFrame ==
  ASSUME TypeOK, FramesDistinct, stack # <<>>, stack' = Pop,
         \A d \in Calls : phase'[d] \in {"unused", "refused", "waiting"}
                            => phase[d] \in {"unused", "refused", "waiting"}
  PROVE  /\ stack' \in Seq(Frames)
         /\ FramesDistinct'
         /\ \A d \in Calls :
              Notifying(d)' <=> Notifying(d) /\ ~(Top.kind = "notify" /\ Top.call = d)
<1>1. /\ stack' \in Seq(Frames)
      /\ DOMAIN stack = 1 .. Len(stack) /\ Len(stack) \in Nat \ {0}
      /\ DOMAIN stack' = 1 .. Len(stack) - 1
      /\ \A k \in DOMAIN stack' : k \in DOMAIN stack /\ stack'[k] = stack[k]
      /\ Len(stack) \in DOMAIN stack /\ Len(stack) \notin DOMAIN stack'
  <2>1. stack \in Seq(Frames)
    BY DEF TypeOK
  <2>2. /\ SubSeq(stack, 1, Len(stack) - 1) \in Seq(Frames)
        /\ DOMAIN stack = 1 .. Len(stack) /\ Len(stack) \in Nat \ {0}
        /\ DOMAIN SubSeq(stack, 1, Len(stack) - 1) = 1 .. Len(stack) - 1
        /\ \A k \in 1 .. Len(stack) - 1 : SubSeq(stack, 1, Len(stack) - 1)[k] = stack[k]
    BY <2>1, Popped
  <2>3. stack' = SubSeq(stack, 1, Len(stack) - 1)
    BY DEF Pop
  <2> QED
    BY <2>2, <2>3
<1>2. \A k \in DOMAIN stack : stack[k].call \in Calls
  BY FrameOf
<1>3. \A k \in DOMAIN stack : k \in DOMAIN stack' \/ (k = Len(stack) /\ stack[k] = Top)
  BY <1>1 DEF Top
<1>4. FramesDistinct'
  BY <1>1, <1>2 DEF FramesDistinct
<1>5. ASSUME NEW d \in Calls
      PROVE  Notifying(d)' <=> Notifying(d) /\ ~(Top.kind = "notify" /\ Top.call = d)
  <2>1. ASSUME Notifying(d)'
        PROVE  Notifying(d) /\ ~(Top.kind = "notify" /\ Top.call = d)
    <3>1. PICK k \in DOMAIN stack' : stack'[k].kind = "notify" /\ stack'[k].call = d
      BY <2>1 DEF Notifying
    <3>2. k \in DOMAIN stack /\ stack[k].kind = "notify" /\ stack[k].call = d
      BY <1>1, <3>1
    <3>3. k # Len(stack)
      BY <1>1
    <3>4. Top.kind = "notify" /\ Top.call = d => k = Len(stack)
      BY <1>1, <3>2 DEF FramesDistinct, Top
    <3> QED
      BY <3>2, <3>3, <3>4 DEF Notifying
  <2>2. ASSUME Notifying(d), ~(Top.kind = "notify" /\ Top.call = d)
        PROVE  Notifying(d)'
    <3>1. PICK k \in DOMAIN stack : stack[k].kind = "notify" /\ stack[k].call = d
      BY <2>2 DEF Notifying
    <3>2. k \in DOMAIN stack'
      BY <1>3, <2>2, <3>1
    <3> QED
      BY <1>1, <3>1, <3>2 DEF Notifying
  <2> QED
    BY <2>1, <2>2
<1> QED
  BY <1>1, <1>4, <1>5

\* A step that leaves the stack alone, and reopens no call.
LEMMA SameStack ==
  ASSUME TypeOK, FramesDistinct, stack' = stack,
         \A d \in Calls : phase'[d] \in {"unused", "refused", "waiting"}
                            => phase[d] \in {"unused", "refused", "waiting"}
  PROVE  /\ stack' \in Seq(Frames)
         /\ FramesDistinct'
         /\ \A d \in Calls : Notifying(d)' <=> Notifying(d)
<1>1. stack \in Seq(Frames)
  BY DEF TypeOK
<1>2. \A k \in DOMAIN stack : stack[k].call \in Calls
  BY FrameOf
<1>3. FramesDistinct'
  BY <1>2 DEF FramesDistinct
<1>4. \A d \in Calls : Notifying(d)' <=> Notifying(d)
  BY DEF Notifying
<1> QED
  BY <1>1, <1>3, <1>4

--------------------------------------------------------------------------------
(* References *)

\* The destructor of an entry gives one reference back.
LEMMA ReleasedOnce ==
  ASSUME NEW count \in [Calls -> Nat], NEW S, \A c \in Calls : c \in S => count[c] > 0
  PROVE  /\ Released(count, S) \in [Calls -> Nat]
         /\ \A c \in Calls : Released(count, S)[c] = count[c] - B(c \in S)
<1>1. \A c \in Calls : Released(count, S)[c] = IF c \in S THEN count[c] - 1 ELSE count[c]
  BY DEF Released
<1>2. \A c \in Calls : Released(count, S)[c] \in Nat
  BY <1>1
<1>3. Released(count, S) \in [Calls -> Nat]
  BY <1>2 DEF Released
<1>4. \A c \in Calls : Released(count, S)[c] = count[c] - B(c \in S)
  BY <1>1 DEF B
<1> QED
  BY <1>3, <1>4

\* No call has two entries.
LEMMA OneEntry ==
  ASSUME TableFollowsHandles, NEW i \in Ids, NEW j \in Ids,
         table[i] = table[j], table[i] # NoCall
  PROVE  i = j
BY DEF TableFollowsHandles

\* g_hash_table_remove.
LEMMA EntryRemoved ==
  ASSUME TypeOK, TableFollowsHandles, NEW i \in Ids, handle' = handle,
         table' = [table EXCEPT ![i] = NoCall],
         \A d \in Calls : phase'[d] \in {"unused", "refused"} => phase[d] \in {"unused", "refused"}
  PROVE  /\ table' \in [Ids -> Calls \union {NoCall}]
         /\ TableFollowsHandles'
         /\ \A d \in Calls : InTable(d)' <=> InTable(d) /\ d # table[i]
<1>1. table \in [Ids -> Calls \union {NoCall}]
  BY DEF TypeOK
<1>2. \A j \in Ids : table'[j] = IF j = i THEN NoCall ELSE table[j]
  BY <1>1
<1>3. TableFollowsHandles'
  BY <1>1, <1>2 DEF TableFollowsHandles
<1>4. ASSUME NEW d \in Calls
      PROVE  InTable(d)' <=> InTable(d) /\ d # table[i]
  <2>1. d # NoCall
    BY NoCallAssumption
  <2>2. \A j \in Ids : table[j] = d /\ table[i] = d => j = i
    BY <2>1, OneEntry
  <2> QED
    BY <1>2, <2>1, <2>2 DEF InTable
<1> QED
  BY <1>1, <1>3, <1>4

\* A step that leaves the table alone.
LEMMA SameTable ==
  ASSUME TypeOK, TableFollowsHandles, table' = table,
         \A d \in Calls : phase[d] \notin {"unused", "refused"} =>
           handle'[d] = handle[d] /\ phase'[d] \notin {"unused", "refused"}
  PROVE  /\ TableFollowsHandles'
         /\ \A d \in Calls : InTable(d)' <=> InTable(d)
<1>1. \A i \in Ids : table[i] # NoCall => table[i] \in Calls
  BY DEF TypeOK
<1>2. TableFollowsHandles'
  BY <1>1 DEF TableFollowsHandles
<1> QED
  BY <1>2 DEF InTable

\* A call that was not made has no reference, no entry and no callback.
LEMMA UnusedCall ==
  ASSUME Inv, Running, NEW c \in Calls, phase[c] \in {"unused", "refused"}
  PROVE  ~InTable(c) /\ ~Notifying(c) /\ refs[c] = 0
<1>1. ~InTable(c)
  BY NoCallAssumption DEF Inv, InTable, TableFollowsHandles
<1>2. ~Notifying(c)
  BY DEF Inv, Notifying, FramesDistinct
<1>3. phase[c] # "waiting"
  OBVIOUS
<1> QED
  BY <1>1, <1>2, <1>3 DEF Inv, RefsExact, B

--------------------------------------------------------------------------------
(* The steps *)

\* ++call_id_counter is an identifier, wrapped or not.
LEMMA NextIdType ==
  ASSUME counter \in Ids
  PROVE  NextId \in Ids
BY CallsAssumption DEF Ids, NextId

\* begin_call, which may overwrite the entry of an older call.
LEMMA BeginStep ==
  ASSUME Inv, NEW c \in Calls, NEW callback \in BOOLEAN, Begin(c, callback)
  PROVE  Inv'
<1> DEFINE e == table[NextId]
           made == [refs EXCEPT ![c] = 2]
<1>1. TypeOK /\ Running
  BY DEF Inv, Begin, AppRuns
<1>2. NextId \in Ids
  BY <1>1, NextIdType DEF TypeOK
<1>3. e \in Calls \union {NoCall} /\ c # NoCall
  BY <1>1, <1>2, NoCallAssumption DEF TypeOK
<1>4. ~InTable(c) /\ ~Notifying(c) /\ refs[c] = 0
  BY <1>1, UnusedCall DEF Begin
<1>5. e # c
  BY <1>2, <1>4 DEF InTable
<1>6. \A d \in Calls : d \in {e} => made[d] > 0
  <2> SUFFICES ASSUME e \in Calls PROVE made[e] > 0
    OBVIOUS
  <2>1. InTable(e)
    BY <1>2 DEF InTable
  <2>2. refs[e] > 0
    <3>1. refs[e] = B(phase[e] = "waiting") + 1 + B(Notifying(e))
      BY <1>1, <2>1 DEF Inv, RefsExact, B
    <3> QED
      BY <3>1 DEF B
  <2> QED
    BY <1>1, <1>5, <2>2 DEF TypeOK
<1>7. made \in [Calls -> Nat]
  BY <1>1 DEF TypeOK
<1>8. refs' = Released(made, {e})
  BY DEF Begin
<1>9. refs' \in [Calls -> Nat] /\ \A d \in Calls : refs'[d] = made[d] - B(d \in {e})
  BY <1>6, <1>7, <1>8, ReleasedOnce
<1>10. /\ table' = [table EXCEPT ![NextId] = c]
       /\ phase' = [phase EXCEPT ![c] = "waiting"]
       /\ handle' = [handle EXCEPT ![c] = NextId]
  BY DEF Begin
<1>11. stack' = stack /\ \A d \in Calls : phase'[d] \in {"unused", "refused", "waiting"}
                           => phase[d] \in {"unused", "refused", "waiting"}
  BY <1>1, <1>10 DEF Begin, TypeOK
<1>12. /\ stack' \in Seq(Frames)
       /\ FramesDistinct'
       /\ \A d \in Calls : Notifying(d)' <=> Notifying(d)
  BY <1>1, <1>11, SameStack DEF Inv
<1>13. TypeOK'
  <2>1. table' \in [Ids -> Calls \union {NoCall}] /\ phase' \in [Calls -> Phases]
        /\ handle' \in [Calls -> Ids]
    BY <1>1, <1>2, <1>10 DEF TypeOK, Phases
  <2>3. counter' \in Ids
    BY <1>2 DEF Begin, NextId
  <2>2. wanted' \in [Calls -> BOOLEAN] /\ open' \in [Calls -> BOOLEAN]
    BY <1>1 DEF TypeOK, Begin
  <2> QED
    BY <1>1, <1>9, <1>12, <2>1, <2>2, <2>3 DEF TypeOK, Begin
<1>14. \A d \in Calls : InTable(d)' <=> d = c \/ (InTable(d) /\ d # e)
  <2> TAKE d \in Calls
  <2>1. \A j \in Ids : table'[j] = IF j = NextId THEN c ELSE table[j]
    BY <1>1, <1>10 DEF TypeOK
  <2>2. \A j \in Ids : table[j] = d /\ e = d => j = NextId
    BY <1>2, NoCallAssumption, OneEntry DEF Inv
  <2> QED
    BY <1>2, <2>1, <2>2 DEF InTable
<1>15. TableFollowsHandles'
  <2> SUFFICES ASSUME NEW i \in Ids, table'[i] # NoCall
               PROVE  handle'[table'[i]] = i /\ phase'[table'[i]] \notin {"unused", "refused"}
    BY DEF TableFollowsHandles
  <2>1. CASE i = NextId
    BY <1>1, <1>10, <2>1 DEF TypeOK
  <2>2. CASE i # NextId
    <3>1. table'[i] = table[i] /\ table[i] # c
      BY <1>1, <1>4, <1>10, <2>2 DEF TypeOK, InTable
    <3>2. table[i] \in Calls
      BY <1>1, <3>1 DEF TypeOK
    <3> QED
      BY <1>1, <1>10, <3>1, <3>2 DEF Inv, TableFollowsHandles, TypeOK
  <2> QED
    BY <2>1, <2>2
<1>16. RefsExact'
  <2> SUFFICES ASSUME NEW d \in Calls
               PROVE  refs'[d] = B(phase'[d] = "waiting") + B(InTable(d)') + B(Notifying(d)')
    BY DEF RefsExact
  <2>1. CASE d = c
    <3>1. refs'[c] = 2
      <4>1. made[c] = 2 /\ c \notin {e}
        BY <1>1, <1>5 DEF TypeOK
      <4> QED
        BY <1>9, <4>1 DEF B
    <3>2. phase'[c] = "waiting" /\ InTable(c)' /\ ~Notifying(c)'
      BY <1>1, <1>4, <1>10, <1>12, <1>14 DEF TypeOK
    <3> QED
      BY <2>1, <3>1, <3>2 DEF B
  <2>2. CASE d # c
    <3>1. refs'[d] = refs[d] - B(d = e) /\ phase'[d] = phase[d]
      BY <1>1, <1>9, <1>10, <2>2 DEF B, TypeOK
    <3>2. refs[d] = B(phase[d] = "waiting") + B(InTable(d)) + B(Notifying(d))
      BY <1>1 DEF Inv, RefsExact
    <3>3. d = e => InTable(d)
      BY <1>2 DEF InTable
    <3> QED
      BY <1>12, <1>14, <2>2, <3>1, <3>2, <3>3 DEF B
  <2> QED
    BY <2>1, <2>2
<1> QED
  BY <1>12, <1>13, <1>15, <1>16 DEF Inv

\* The counts are exact if each changes by what it counted.
LEMMA CountsExact ==
  ASSUME Inv, Running,
         \A d \in Calls :
           refs'[d] - refs[d] = B(phase'[d] = "waiting") - B(phase[d] = "waiting")
                                  + B(InTable(d)') - B(InTable(d))
                                  + B(Notifying(d)') - B(Notifying(d)),
         refs' \in [Calls -> Nat]
  PROVE  RefsExact'
<1> SUFFICES ASSUME NEW d \in Calls
             PROVE  refs'[d] = B(phase'[d] = "waiting") + B(InTable(d)') + B(Notifying(d)')
  BY DEF RefsExact
<1>1. refs[d] = B(phase[d] = "waiting") + B(InTable(d)) + B(Notifying(d))
  BY DEF Inv, RefsExact
<1>2. refs[d] \in Nat /\ refs'[d] \in Nat
  BY DEF Inv, TypeOK
<1> QED
  BY <1>1, <1>2 DEF B

\* And if nothing that is counted changes.
LEMMA CountsSame ==
  ASSUME Inv, Running, refs' = refs,
         \A d \in Calls : phase'[d] = "waiting" <=> phase[d] = "waiting",
         \A d \in Calls : InTable(d)' <=> InTable(d),
         \A d \in Calls : Notifying(d)' <=> Notifying(d)
  PROVE  RefsExact'
<1> SUFFICES ASSUME NEW d \in Calls
             PROVE  refs'[d] = B(phase'[d] = "waiting") + B(InTable(d)') + B(Notifying(d)')
  BY DEF RefsExact
<1>1. refs[d] = B(phase[d] = "waiting") + B(InTable(d)) + B(Notifying(d))
  BY DEF Inv, RefsExact
<1>2. /\ B(phase'[d] = "waiting") = B(phase[d] = "waiting")
      /\ B(InTable(d)') = B(InTable(d))
      /\ B(Notifying(d)') = B(Notifying(d))
  BY DEF B
<1> QED
  BY <1>1, <1>2

\* Each of the three kinds of holder is worth a reference.
LEMMA Referenced ==
  ASSUME Inv, Running, NEW d \in Calls
  PROVE  /\ InTable(d) => refs[d] > 0
         /\ Notifying(d) => refs[d] > 0
         /\ phase[d] = "waiting" => refs[d] > 0
         /\ InTable(d) /\ phase[d] = "waiting" => refs[d] > 1
<1>1. refs[d] = B(phase[d] = "waiting") + B(InTable(d)) + B(Notifying(d))
  BY DEF Inv, RefsExact
<1> QED
  BY <1>1 DEF B

\* begin_call on a lost connection creates nothing.
LEMMA BeginRefusedStep ==
  ASSUME Inv, NEW c \in Calls, BeginRefused(c)
  PROVE  Inv'
<1>1. TypeOK /\ Running /\ phase[c] = "unused"
  BY DEF Inv, BeginRefused, AppRuns
<1>2. /\ phase' = [phase EXCEPT ![c] = "refused"]
      /\ handle' = [handle EXCEPT ![c] = 0]
      /\ UNCHANGED <<table, refs, stack>>
  BY DEF BeginRefused
<1>3. /\ \A d \in Calls : phase'[d] \in {"unused", "refused", "waiting"}
                           => phase[d] \in {"unused", "refused", "waiting"}
      /\ \A d \in Calls : phase[d] \notin {"unused", "refused"} =>
           handle'[d] = handle[d] /\ phase'[d] \notin {"unused", "refused"}
      /\ \A d \in Calls : phase'[d] = "waiting" <=> phase[d] = "waiting"
  BY <1>1, <1>2 DEF TypeOK
<1>4. FramesDistinct' /\ \A d \in Calls : Notifying(d)' <=> Notifying(d)
  BY <1>1, <1>2, <1>3, SameStack DEF Inv
<1>5. TableFollowsHandles' /\ \A d \in Calls : InTable(d)' <=> InTable(d)
  BY <1>1, <1>2, <1>3, SameTable DEF Inv
<1>6. TypeOK'
  <2>1. 0 \in Ids
    BY CallsAssumption DEF Ids
  <2> QED
    BY <1>1, <1>2, <2>1 DEF TypeOK, BeginRefused, Phases
<1>7. RefsExact'
  BY <1>1, <1>2, <1>3, <1>4, <1>5, CountsSame
<1> QED
  BY <1>4, <1>5, <1>6, <1>7 DEF Inv

\* end_call takes no reference before it blocks.
LEMMA EndBeginsStep ==
  ASSUME Inv, NEW c \in Calls, EndBegins(c)
  PROVE  Inv'
<1>1. TypeOK /\ Running
  BY DEF Inv, EndBegins, AppRuns
<1>2. UNCHANGED <<phase, handle, table, refs>>
  BY DEF EndBegins
<1>3. handle[c] \in Ids
  BY <1>1 DEF TypeOK
<1>4. /\ stack' \in Seq(Frames)
      /\ FramesDistinct'
      /\ \A d \in Calls : Notifying(d)' <=> Notifying(d)
  <2>1. CASE UNCHANGED stack
    BY <1>1, <1>2, <2>1, SameStack DEF Inv
  <2>2. CASE /\ table[handle[c]] # NoCall
             /\ stack' = Append(stack, [kind |-> "end", call |-> table[handle[c]],
                                        id |-> handle[c]])
    <3>1. table[handle[c]] \in Calls
      BY <1>1, <1>3, <2>2 DEF TypeOK
    <3> QED
      BY <1>1, <1>2, <1>3, <2>2, <3>1, PushEnd DEF Inv
  <2> QED
    BY <2>1, <2>2 DEF EndBegins
<1>5. TableFollowsHandles' /\ \A d \in Calls : InTable(d)' <=> InTable(d)
  BY <1>1, <1>2, SameTable DEF Inv
<1>6. TypeOK'
  <2>1. open' \in [Calls -> BOOLEAN]
    BY <1>1 DEF EndBegins, TypeOK
  <2>2. fault' \in {"none", "no reply", "freed call cancelled", "no such call"}
    BY <1>1 DEF EndBegins, TypeOK
  <2> QED
    BY <1>1, <1>4, <2>1, <2>2 DEF TypeOK, EndBegins
<1>7. RefsExact'
  BY <1>1, <1>2, <1>4, <1>5, CountsSame
<1> QED
  BY <1>4, <1>5, <1>6, <1>7 DEF Inv

\* end_call steals the reply and removes the entry, whose reference goes.
LEMMA EndReturnsStep ==
  ASSUME Inv, EndReturns
  PROVE  Inv'
<1>1. TypeOK /\ Running /\ stack # <<>> /\ Top.kind = "end"
  BY DEF Inv, EndReturns, Inside, Top
<1>2. Top.call \in Calls /\ Top.id \in Ids
  BY <1>1, TopFrame
<1>3. UNCHANGED <<connected, counter, disposed, handle, wanted, open, notified>>
  BY DEF EndReturns
<1>4. CASE fault' = "no reply" /\ UNCHANGED <<table, phase, refs, stack>>
  <2>1. FramesDistinct'
    BY <1>1, <1>4, SameStack DEF Inv
  <2>2. TableFollowsHandles'
    BY <1>1, <1>3, <1>4, SameTable DEF Inv
  <2>3. TypeOK' /\ RefsExact'
    BY <1>1, <1>3, <1>4 DEF TypeOK, RefsExact, Running
  <2> QED
    BY <2>1, <2>2, <2>3 DEF Inv
<1>5. CASE /\ phase[Top.call] = "completed"
           /\ phase' = [phase EXCEPT ![Top.call] = "stolen"]
           /\ refs' = Released(refs, {table[Top.id]})
           /\ table' = [table EXCEPT ![Top.id] = NoCall]
           /\ stack' = Pop
           /\ UNCHANGED fault
  <2>1. \A d \in Calls : phase'[d] = phase[d] \/ (phase[d] = "completed" /\ phase'[d] = "stolen")
    BY <1>1, <1>2, <1>5 DEF TypeOK
  <2>2. /\ stack' \in Seq(Frames)
        /\ FramesDistinct'
        /\ \A d \in Calls : Notifying(d)' <=> Notifying(d)
    <3>1. \A d \in Calls : phase'[d] \in {"unused", "refused", "waiting"}
                             => phase[d] \in {"unused", "refused", "waiting"}
      BY <2>1
    <3> QED
      BY <1>1, <1>5, <3>1, PopFrame DEF Inv
  <2>3. /\ table' \in [Ids -> Calls \union {NoCall}]
        /\ TableFollowsHandles'
        /\ \A d \in Calls : InTable(d)' <=> InTable(d) /\ d # table[Top.id]
    <3>1. \A d \in Calls : phase'[d] \in {"unused", "refused"} => phase[d] \in {"unused", "refused"}
      BY <2>1
    <3> QED
      BY <1>1, <1>2, <1>3, <1>5, <3>1, EntryRemoved DEF Inv
  <2>4. \A d \in Calls : d \in {table[Top.id]} => InTable(d) /\ refs[d] > 0
    BY <1>1, <1>2, Referenced DEF InTable
  <2>5. /\ refs' \in [Calls -> Nat]
        /\ \A d \in Calls : refs'[d] = refs[d] - B(d \in {table[Top.id]})
    BY <1>1, <1>5, <2>4, ReleasedOnce DEF TypeOK
  <2>6. TypeOK'
    <3>1. phase' \in [Calls -> Phases]
      BY <1>1, <1>2, <1>5 DEF TypeOK, Phases
    <3> QED
      BY <1>1, <1>3, <1>5, <2>2, <2>3, <2>5, <3>1 DEF TypeOK
  <2>7. RefsExact'
    <3>1. \A d \in Calls : phase'[d] = "waiting" <=> phase[d] = "waiting"
      BY <2>1
    <3>2. \A d \in Calls : refs[d] \in Nat
      BY <1>1 DEF TypeOK
    <3> QED
      BY <1>1, <2>2, <2>3, <2>4, <2>5, <3>1, <3>2, CountsExact DEF B
  <2> QED
    BY <2>2, <2>3, <2>6, <2>7 DEF Inv
<1> QED
  BY <1>4, <1>5 DEF EndReturns

\* libdbus completes a call: its reference goes, or stays with the callback.
LEMMA CompletesStep ==
  ASSUME Inv, NEW c \in Calls, Completes(c)
  PROVE  Inv'
<1>1. TypeOK /\ Running /\ phase[c] = "waiting"
  BY DEF Inv, Completes
<1>2. /\ phase' = [phase EXCEPT ![c] = "completed"]
      /\ UNCHANGED <<connected, counter, table, disposed, handle, wanted, open, fault>>
  BY DEF Completes
<1>3. /\ \A d \in Calls : phase'[d] = IF d = c THEN "completed" ELSE phase[d]
      /\ phase' \in [Calls -> Phases]
  BY <1>1, <1>2 DEF TypeOK, Phases
<1>4. TableFollowsHandles' /\ \A d \in Calls : InTable(d)' <=> InTable(d)
  BY <1>1, <1>2, <1>3, SameTable DEF Inv
<1>5. \A d \in Calls : refs[d] \in Nat
  BY <1>1 DEF TypeOK
<1>6. CASE /\ stack' = Append(stack, [kind |-> "notify", call |-> c, id |-> handle[c]])
           /\ notified' = [notified EXCEPT ![c] = @ + 1]
           /\ UNCHANGED refs
  <2>1. /\ stack' \in Seq(Frames)
        /\ FramesDistinct'
        /\ ~Notifying(c)
        /\ \A d \in Calls : Notifying(d)' <=> (Notifying(d) \/ d = c)
    <3>1. handle[c] \in Ids
      BY <1>1 DEF TypeOK
    <3> QED
      BY <1>1, <1>2, <1>6, <3>1, PushNotify DEF Inv
  <2>2. TypeOK'
    <3>1. notified' \in [Calls -> Nat]
      <4>1. notified \in [Calls -> Nat]
        BY <1>1 DEF TypeOK
      <4>2. notified[c] + 1 \in Nat
        BY <4>1
      <4> QED
        BY <1>6, <4>1, <4>2
    <3> QED
      BY <1>1, <1>2, <1>3, <1>6, <2>1, <3>1 DEF TypeOK
  <2>3. RefsExact'
    <3> SUFFICES ASSUME NEW d \in Calls
                 PROVE  refs'[d] = B(phase'[d] = "waiting") + B(InTable(d)') + B(Notifying(d)')
      BY DEF RefsExact
    <3>1. refs[d] = B(phase[d] = "waiting") + B(InTable(d)) + B(Notifying(d))
      BY <1>1 DEF Inv, RefsExact
    <3> QED
      BY <1>1, <1>3, <1>4, <1>6, <2>1, <3>1 DEF B
  <2> QED
    BY <1>4, <2>1, <2>2, <2>3 DEF Inv
<1>7. CASE refs' = Released(refs, {c}) /\ UNCHANGED <<stack, notified>>
  <2>1. FramesDistinct' /\ \A d \in Calls : Notifying(d)' <=> Notifying(d)
    <3>1. \A d \in Calls : phase'[d] \in {"unused", "refused", "waiting"}
                             => phase[d] \in {"unused", "refused", "waiting"}
      BY <1>3
    <3> QED
      BY <1>1, <1>7, <3>1, SameStack DEF Inv
  <2>2. \A d \in Calls : d \in {c} => refs[d] > 0
    BY <1>1, Referenced
  <2>3. /\ refs' \in [Calls -> Nat]
        /\ \A d \in Calls : refs'[d] = refs[d] - B(d \in {c})
    BY <1>1, <1>7, <2>2, ReleasedOnce DEF TypeOK
  <2>4. TypeOK'
    BY <1>1, <1>2, <1>3, <1>7, <2>3 DEF TypeOK
  <2>5. RefsExact'
    BY <1>1, <1>3, <1>4, <1>5, <2>1, <2>3, CountsExact DEF B
  <2> QED
    BY <1>4, <2>1, <2>4, <2>5 DEF Inv
<1> QED
  BY <1>6, <1>7 DEF Completes

\* A callback returns and gives up the reference it ran with.
LEMMA NotifyReturnsStep ==
  ASSUME Inv, NotifyReturns
  PROVE  Inv'
<1>1. TypeOK /\ Running /\ stack # <<>> /\ Top.kind = "notify"
  BY DEF Inv, NotifyReturns, Inside, Top
<1>2. Top.call \in Calls /\ Len(stack) \in DOMAIN stack
  BY <1>1, TopFrame
<1>3. /\ UNCHANGED <<connected, counter, table, disposed, phase, handle, wanted, open,
                     notified, fault>>
      /\ refs' = Released(refs, {Top.call})
      /\ stack' = Pop
  BY DEF NotifyReturns
<1>4. /\ stack' \in Seq(Frames)
      /\ FramesDistinct'
      /\ \A d \in Calls : Notifying(d)' <=> Notifying(d) /\ d # Top.call
  BY <1>1, <1>3, PopFrame DEF Inv
<1>5. TableFollowsHandles' /\ \A d \in Calls : InTable(d)' <=> InTable(d)
  BY <1>1, <1>3, SameTable DEF Inv
<1>6. Notifying(Top.call)
  BY <1>1, <1>2 DEF Notifying, Top
<1>7. \A d \in Calls : d \in {Top.call} => refs[d] > 0
  BY <1>1, <1>6, Referenced
<1>8. /\ refs' \in [Calls -> Nat]
      /\ \A d \in Calls : refs'[d] = refs[d] - B(d \in {Top.call})
  BY <1>1, <1>3, <1>7, ReleasedOnce DEF TypeOK
<1>9. TypeOK'
  BY <1>1, <1>3, <1>4, <1>8 DEF TypeOK
<1>10. RefsExact'
  <2> SUFFICES ASSUME NEW d \in Calls
               PROVE  refs'[d] = B(phase'[d] = "waiting") + B(InTable(d)') + B(Notifying(d)')
    BY DEF RefsExact
  <2>1. refs[d] = B(phase[d] = "waiting") + B(InTable(d)) + B(Notifying(d))
    BY <1>1 DEF Inv, RefsExact
  <2>2. phase' = phase /\ (InTable(d)' <=> InTable(d))
    BY <1>3, <1>5
  <2>3. CASE d = Top.call
    <3>1. Notifying(d) /\ ~Notifying(d)' /\ refs'[d] = refs[d] - 1
      BY <1>4, <1>6, <1>8, <2>3 DEF B
    <3> QED
      BY <2>1, <2>2, <3>1 DEF B
  <2>4. CASE d # Top.call
    <3>1. (Notifying(d)' <=> Notifying(d)) /\ refs'[d] = refs[d] - 0
      BY <1>4, <1>8, <2>4 DEF B
    <3> QED
      BY <2>1, <2>2, <3>1 DEF B
  <2> QED
    BY <2>3, <2>4
<1> QED
  BY <1>4, <1>5, <1>9, <1>10 DEF Inv

\* The connection is lost: nothing is counted yet.
LEMMA DisconnectsStep ==
  ASSUME Inv, Disconnects
  PROVE  Inv'
<1>1. TypeOK /\ Running
  BY DEF Inv, Disconnects
<1>2. UNCHANGED <<counter, table, disposed, phase, handle, wanted, open, refs, notified,
                  stack, fault>> /\ connected' = FALSE
  BY DEF Disconnects, callVars
<1>3. FramesDistinct' /\ \A d \in Calls : Notifying(d)' <=> Notifying(d)
  BY <1>1, <1>2, SameStack DEF Inv
<1>4. TableFollowsHandles' /\ \A d \in Calls : InTable(d)' <=> InTable(d)
  BY <1>1, <1>2, SameTable DEF Inv
<1>5. TypeOK' /\ RefsExact'
  BY <1>1, <1>2, <1>3, <1>4, CountsSame DEF TypeOK
<1> QED
  BY <1>3, <1>4, <1>5 DEF Inv

\* cancel_call removes the entry, then cancels the call if it waits.
LEMMA CancelCallStep ==
  ASSUME Inv, NEW c \in Calls, CancelCall(c)
  PROVE  Inv'
<1> DEFINE e == table[handle[c]]
<1>1. TypeOK /\ Running /\ handle[c] \in Ids
  BY DEF Inv, CancelCall, AppRuns, TypeOK
<1>2. UNCHANGED <<connected, counter, disposed, handle, wanted, notified, stack>>
  BY DEF CancelCall
<1>3. open' \in [Calls -> BOOLEAN]
  BY <1>1 DEF CancelCall, TypeOK
<1>4. CASE UNCHANGED <<table, phase, refs, fault>>
  <2>1. FramesDistinct' /\ \A d \in Calls : Notifying(d)' <=> Notifying(d)
    BY <1>1, <1>2, <1>4, SameStack DEF Inv
  <2>2. TableFollowsHandles' /\ \A d \in Calls : InTable(d)' <=> InTable(d)
    BY <1>1, <1>2, <1>4, SameTable DEF Inv
  <2>3. TypeOK' /\ RefsExact'
    BY <1>1, <1>2, <1>3, <1>4, <2>1, <2>2, CountsSame DEF TypeOK
  <2> QED
    BY <2>1, <2>2, <2>3 DEF Inv
<1>5. ASSUME e # NoCall, table' = [table EXCEPT ![handle[c]] = NoCall],
             \A d \in Calls : phase'[d] \in {"unused", "refused", "waiting"}
                                => phase[d] \in {"unused", "refused", "waiting"},
             \A d \in Calls : phase'[d] \in {"unused", "refused"}
                                => phase[d] \in {"unused", "refused"},
             phase' \in [Calls -> Phases], refs' \in [Calls -> Nat],
             \A d \in Calls : d # e => phase'[d] = phase[d] /\ refs'[d] = refs[d],
             refs'[e] = refs[e] - 1 - B(phase[e] = "waiting"),
             phase'[e] # "waiting",
             fault' \in {"none", "freed call cancelled"}
      PROVE  Inv'
  <2>1. e \in Calls /\ InTable(e)
    BY <1>1, <1>5 DEF TypeOK, InTable
  <2>2. FramesDistinct' /\ \A d \in Calls : Notifying(d)' <=> Notifying(d)
    BY <1>1, <1>2, <1>5, SameStack DEF Inv
  <2>3. /\ table' \in [Ids -> Calls \union {NoCall}]
        /\ TableFollowsHandles'
        /\ \A d \in Calls : InTable(d)' <=> InTable(d) /\ d # e
    BY <1>1, <1>2, <1>5, EntryRemoved DEF Inv
  <2>4. TypeOK'
    BY <1>1, <1>2, <1>3, <1>5, <2>3 DEF TypeOK
  <2>5. RefsExact'
    <3> SUFFICES ASSUME NEW d \in Calls
                 PROVE  refs'[d] = B(phase'[d] = "waiting") + B(InTable(d)') + B(Notifying(d)')
      BY DEF RefsExact
    <3>1. refs[d] = B(phase[d] = "waiting") + B(InTable(d)) + B(Notifying(d))
      BY <1>1 DEF Inv, RefsExact
    <3> HIDE DEF e
    <3>2. CASE d = e
      <4>1. InTable(d) /\ ~InTable(d)' /\ phase'[d] # "waiting"
            /\ (Notifying(d)' <=> Notifying(d))
            /\ refs'[d] = refs[d] - 1 - B(phase[d] = "waiting")
        BY <1>5, <2>1, <2>2, <2>3, <3>2
      <4> QED
        BY <3>1, <4>1 DEF B
    <3>3. CASE d # e
      BY <1>5, <2>2, <2>3, <3>1, <3>3 DEF B
    <3> QED
      BY <3>2, <3>3
  <2> QED
    BY <2>2, <2>3, <2>4, <2>5 DEF Inv
<1>6. CASE /\ e # NoCall
           /\ table' = [table EXCEPT ![handle[c]] = NoCall]
           /\ IF phase[e] = "waiting"
                THEN /\ phase' = [phase EXCEPT ![e] = "cancelled"]
                     /\ refs' = Released(Released(refs, {e}), {e})
                     /\ UNCHANGED fault
                ELSE /\ refs' = Released(refs, {e})
                     /\ fault' = IF refs'[e] = 0 THEN "freed call cancelled" ELSE "none"
                     /\ UNCHANGED phase
  <2>1. e \in Calls /\ InTable(e)
    BY <1>1, <1>6 DEF TypeOK, InTable
  <2>2. refs \in [Calls -> Nat] /\ phase \in [Calls -> Phases]
    BY <1>1 DEF TypeOK
  <2>3. /\ \A d \in Calls : d \in {e} => refs[d] > 0
        /\ phase[e] = "waiting" => refs[e] > 1
    BY <1>1, <2>1, Referenced
  <2> DEFINE once == Released(refs, {e})
  <2>4. once \in [Calls -> Nat] /\ \A d \in Calls : once[d] = refs[d] - B(d \in {e})
    BY <2>2, <2>3, ReleasedOnce
  <2> HIDE DEF e
  <2>5. CASE phase[e] = "waiting"
    <3> HIDE DEF once
    <3>1. /\ phase' = [phase EXCEPT ![e] = "cancelled"]
          /\ refs' = Released(once, {e})
          /\ fault' = "none"
      BY <1>1, <1>6, <2>5 DEF once, Running
    <3>2. \A d \in Calls : d \in {e} => once[d] > 0
      BY <2>1, <2>2, <2>3, <2>4, <2>5 DEF B
    <3>3. refs' \in [Calls -> Nat] /\ \A d \in Calls : refs'[d] = once[d] - B(d \in {e})
      BY <2>4, <3>1, <3>2, ReleasedOnce
    <3>4. \A d \in Calls : phase'[d] = IF d = e THEN "cancelled" ELSE phase[d]
      BY <2>2, <3>1
    <3>5. phase' \in [Calls -> Phases]
      BY <2>2, <3>1 DEF Phases
    <3>6. refs'[e] = refs[e] - 1 - B(phase[e] = "waiting")
      BY <2>1, <2>2, <2>4, <2>5, <3>3 DEF B
    <3>7. \A d \in Calls : d # e => phase'[d] = phase[d] /\ refs'[d] = refs[d]
      BY <2>2, <2>4, <3>3, <3>4 DEF B
    <3> QED
      BY <1>5, <1>6, <2>1, <3>1, <3>3, <3>4, <3>5, <3>6, <3>7 DEF e
  <2>6. CASE phase[e] # "waiting"
    <3> HIDE DEF once
    <3>1. phase' = phase /\ refs' = once /\ fault' \in {"none", "freed call cancelled"}
      BY <1>6, <2>6 DEF once
    <3>0. B(e \in {e}) = 1 /\ B(phase[e] = "waiting") = 0
          /\ \A d \in Calls : d # e => B(d \in {e}) = 0
      BY <2>6 DEF B
    <3>2. refs'[e] = refs[e] - 1 - B(phase[e] = "waiting")
      <4>1. refs'[e] = refs[e] - 1 /\ refs[e] \in Nat
        BY <2>1, <2>2, <2>4, <3>1, <3>0
      <4> QED
        BY <3>0, <4>1
    <3>3. ASSUME NEW d \in Calls, d # e PROVE refs'[d] = refs[d]
      <4>1. refs'[d] = refs[d] - 0 /\ refs[d] \in Nat
        BY <2>2, <2>4, <3>1, <3>3, <3>0
      <4> QED
        BY <4>1
    <3> QED
      BY <1>5, <1>6, <2>1, <2>2, <2>4, <2>6, <3>1, <3>2, <3>3 DEF e
  <2> QED
    BY <2>5, <2>6
<1> QED
  BY <1>4, <1>6 DEF CancelCall

\* dispose cancels every call in the table, then frees the table.
LEMMA DisposeStep ==
  ASSUME Inv, Dispose
  PROVE  Inv'
<1> DEFINE listed == {table[i] : i \in Ids} \ {NoCall}
           waiting == {c \in listed : phase[c] = "waiting"}
           cancelled == Released(refs, waiting)
<1>1. TypeOK /\ Running
  BY DEF Inv, Dispose, AppRuns
<1>2. /\ UNCHANGED <<connected, counter, handle, wanted, open, notified, stack, fault>>
      /\ disposed' = TRUE
      /\ table' = [i \in Ids |-> NoCall]
      /\ phase' = [c \in Calls |-> IF c \in waiting THEN "cancelled" ELSE phase[c]]
      /\ refs' = Released(cancelled, listed)
  BY DEF Dispose
<1>3. \A d \in Calls : d \in listed <=> InTable(d)
  BY NoCallAssumption DEF InTable
<1>4. \A d \in Calls : d \in waiting <=> InTable(d) /\ phase[d] = "waiting"
  BY <1>3
<1>5. refs \in [Calls -> Nat] /\ phase \in [Calls -> Phases]
  BY <1>1 DEF TypeOK
<1>6. \A d \in Calls : /\ d \in waiting => refs[d] > 1
                       /\ d \in listed => refs[d] > 0
  BY <1>1, <1>3, <1>4, Referenced
<1>7. cancelled \in [Calls -> Nat] /\ \A d \in Calls : cancelled[d] = refs[d] - B(d \in waiting)
  <2>1. \A d \in Calls : d \in waiting => refs[d] > 0
    BY <1>5, <1>6
  <2> QED
    BY <1>5, <2>1, ReleasedOnce
<1> HIDE DEF listed, waiting, cancelled
<1>8. \A d \in Calls : d \in listed => cancelled[d] > 0
  BY <1>5, <1>6, <1>7 DEF B
<1>9. refs' \in [Calls -> Nat] /\ \A d \in Calls : refs'[d] = cancelled[d] - B(d \in listed)
  BY <1>2, <1>7, <1>8, ReleasedOnce
<1>10. /\ \A d \in Calls : phase'[d] = IF d \in waiting THEN "cancelled" ELSE phase[d]
       /\ phase' \in [Calls -> Phases]
  BY <1>2, <1>5 DEF Phases
<1>11. FramesDistinct' /\ \A d \in Calls : Notifying(d)' <=> Notifying(d)
  BY <1>1, <1>2, <1>10, SameStack DEF Inv
<1>12. TableFollowsHandles' /\ \A d \in Calls : ~InTable(d)'
  BY <1>2, NoCallAssumption DEF TableFollowsHandles, InTable
<1>13. TypeOK'
  BY <1>1, <1>2, <1>9, <1>10 DEF TypeOK
<1>14. RefsExact'
  <2> SUFFICES ASSUME NEW d \in Calls
               PROVE  refs'[d] = B(phase'[d] = "waiting") + B(InTable(d)') + B(Notifying(d)')
    BY DEF RefsExact
  <2>1. refs[d] = B(phase[d] = "waiting") + B(InTable(d)) + B(Notifying(d))
    BY <1>1 DEF Inv, RefsExact
  <2>2. refs'[d] = refs[d] - B(d \in waiting) - B(d \in listed) /\ refs[d] \in Nat
    BY <1>5, <1>7, <1>9
  <2>3. CASE d \in waiting
    <3>1. InTable(d) /\ d \in listed /\ phase[d] = "waiting" /\ phase'[d] # "waiting"
      BY <1>3, <1>4, <1>10, <2>3
    <3> QED
      BY <1>11, <1>12, <2>1, <2>2, <2>3, <3>1 DEF B
  <2>4. CASE d \notin waiting /\ d \in listed
    <3>1. InTable(d) /\ phase[d] # "waiting" /\ phase'[d] # "waiting"
      BY <1>3, <1>4, <1>10, <2>4
    <3> QED
      BY <1>11, <1>12, <2>1, <2>2, <2>4, <3>1 DEF B
  <2>5. CASE d \notin waiting /\ d \notin listed
    <3>1. ~InTable(d) /\ phase'[d] = phase[d]
      BY <1>3, <1>10, <2>5
    <3> QED
      BY <1>11, <1>12, <2>1, <2>2, <2>5, <3>1 DEF B
  <2> QED
    BY <2>3, <2>4, <2>5
<1> QED
  BY <1>11, <1>12, <1>13, <1>14 DEF Inv

\* A step that changes nothing.
LEMMA StutterStep ==
  ASSUME Inv, UNCHANGED vars
  PROVE  Inv'
<1>1. UNCHANGED <<connected, counter, table, disposed, phase, handle, wanted, open, refs,
                  notified, stack, fault>>
  BY DEF vars, callVars
<1>2. TypeOK
  BY DEF Inv
<1>3. FramesDistinct' /\ \A d \in Calls : Notifying(d)' <=> Notifying(d)
  BY <1>1, <1>2, SameStack DEF Inv
<1>4. TableFollowsHandles' /\ \A d \in Calls : InTable(d)' <=> InTable(d)
  BY <1>1, <1>2, SameTable DEF Inv
<1>5. TypeOK'
  BY <1>1, <1>2 DEF TypeOK
<1>6. RefsExact'
  <2>1. CASE Running
    BY <1>1, <1>3, <1>4, <2>1, CountsSame
  <2>2. CASE ~Running
    BY <1>1, <2>2 DEF RefsExact, Running
  <2> QED
    BY <2>1, <2>2
<1> QED
  BY <1>3, <1>4, <1>5, <1>6 DEF Inv

\* Before the first call there is nothing to count.
LEMMA InitInv == Init => Inv
<1> SUFFICES ASSUME Init PROVE Inv
  OBVIOUS
<1>1. 0 \in Ids
  BY CallsAssumption DEF Ids
<1>2. TypeOK
  <2>1. table \in [Ids -> Calls \union {NoCall}] /\ handle \in [Calls -> Ids]
    BY <1>1 DEF Init
  <2>2. phase \in [Calls -> Phases] /\ wanted \in [Calls -> BOOLEAN] /\ open \in [Calls -> BOOLEAN]
    BY DEF Init, Phases
  <2>3. refs \in [Calls -> Nat] /\ notified \in [Calls -> Nat]
    BY DEF Init
  <2>4. stack \in Seq(Frames)
    BY DEF Init
  <2>5. connected \in BOOLEAN /\ counter \in Ids /\ disposed \in BOOLEAN
    BY <1>1 DEF Init
  <2>6. fault \in {"none", "no reply", "freed call cancelled", "no such call"}
    BY DEF Init
  <2> QED
    BY <2>1, <2>2, <2>3, <2>4, <2>5, <2>6 DEF TypeOK
<1>3. TableFollowsHandles /\ FramesDistinct
  BY DEF Init, TableFollowsHandles, FramesDistinct
<1>4. RefsExact
  <2>1. \A c \in Calls : ~InTable(c) /\ ~Notifying(c) /\ phase[c] # "waiting" /\ refs[c] = 0
    BY NoCallAssumption DEF Init, InTable, Notifying
  <2> QED
    BY <2>1 DEF RefsExact, B
<1> QED
  BY <1>2, <1>3, <1>4 DEF Inv

--------------------------------------------------------------------------------
\* The types, the counts and the two facts they rest on hold in every reachable
\* state of a proxy's calls, whatever is ended, cancelled or disposed of inside
\* which callback.
THEOREM CallsInvariance == Spec => []Inv
<1>1. Inv /\ [Next]_vars => Inv'
  <2> SUFFICES ASSUME Inv, [Next]_vars PROVE Inv'
    OBVIOUS
  <2>1. ASSUME NEW c \in Calls, NEW callback \in BOOLEAN, Begin(c, callback) PROVE Inv'
    BY <2>1, BeginStep
  <2>2. ASSUME NEW c \in Calls, BeginRefused(c) PROVE Inv'
    BY <2>2, BeginRefusedStep
  <2>3. ASSUME NEW c \in Calls, EndBegins(c) PROVE Inv'
    BY <2>3, EndBeginsStep
  <2>4. ASSUME NEW c \in Calls, CancelCall(c) PROVE Inv'
    BY <2>4, CancelCallStep
  <2>5. CASE Dispose
    BY <2>5, DisposeStep
  <2>6. ASSUME NEW c \in Calls, Completes(c) PROVE Inv'
    BY <2>6, CompletesStep
  <2>7. CASE EndReturns
    BY <2>7, EndReturnsStep
  <2>8. CASE NotifyReturns
    BY <2>8, NotifyReturnsStep
  <2>9. CASE Disconnects
    BY <2>9, DisconnectsStep
  <2>10. CASE UNCHANGED vars
    BY <2>10, StutterStep
  <2> QED
    BY <2>1, <2>2, <2>3, <2>4, <2>5, <2>6, <2>7, <2>8, <2>9, <2>10
       DEF Next, Application, Completion, Returns
<1> QED
  BY <1>1, InitInv, PTL DEF Spec

\* TypeOK: in particular no reference count drops below zero
\* (dbus_pending_call_unref is never called once too often).
THEOREM CallsTypeCorrect == Spec => []TypeOK
<1>1. Inv => TypeOK
  BY DEF Inv
<1> QED
  BY <1>1, CallsInvariance, PTL

\* RefsExact: every pending call is kept alive by exactly those who use it, also
\* when an identifier is given out again after 2^32 calls (begin_call_internal,
\* end_call_internal, cancel_call, dispose).
THEOREM RefsCorrect == Spec => []RefsExact
<1>1. Inv => RefsExact
  BY DEF Inv
<1> QED
  BY <1>1, CallsInvariance, PTL

--------------------------------------------------------------------------------
(* Identifiers, as long as none is given out twice: for every number of calls *)
(* below the number of identifiers, whatever the application ends, cancels or *)
(* disposes of inside which callback.                                         *)

\* There are fewer calls than identifiers.
Few == Cardinality(Calls) < IdCount

Made(c) == phase[c] \notin {"unused", "refused"}
MadeCalls == {c \in Calls : Made(c)}

\* Identifiers are given out one after the other, and 0 is none.
HandlesGiven ==
  /\ counter = Cardinality(MadeCalls)
  /\ \A c \in Calls :
       IF Made(c) THEN handle[c] \in 1 .. counter
       ELSE handle[c] = 0 /\ notified[c] = 0 /\ (phase[c] = "unused" => ~open[c])
  /\ \A c, d \in Calls : Made(c) /\ Made(d) /\ handle[c] = handle[d] => c = d

\* Until the proxy is disposed of, a call that waits or is the application's to
\* end has its entry.
EntriesKept ==
  ~disposed =>
    \A c \in Calls : Made(c) /\ (open[c] \/ phase[c] = "waiting") =>
      table[handle[c]] = c /\ (open[c] => phase[c] \in {"waiting", "completed"})

\* A proxy that was disposed of has no entry left.
TableGone == disposed => \A i \in Ids : table[i] = NoCall

\* An end_call in progress is for a call that was given up to it, with its entry.
Ends(k) == stack[k].kind = "end"
EndsKnown ==
  \A k \in DOMAIN stack : Ends(k) =>
    /\ ~disposed
    /\ ~open[stack[k].call]
    /\ stack[k].id = handle[stack[k].call]
    /\ table[stack[k].id] = stack[k].call
    /\ phase[stack[k].call] \in {"waiting", "completed"}
EndsDistinct ==
  \A j, k \in DOMAIN stack : Ends(j) /\ Ends(k) /\ stack[j].call = stack[k].call => j = k

\* A call that waits has not been notified, and somebody wants its reply.
Ending(c) == \E k \in DOMAIN stack : Ends(k) /\ stack[k].call = c
WaitsForSomebody ==
  \A c \in Calls : phase[c] = "waiting" => ~disposed /\ notified[c] = 0 /\ (open[c] \/ Ending(c))

\* None of the three follows from its own kind alone: entries are found because
\* identifiers are distinct, and stay because of who may end or cancel a call.
HInv == /\ Inv /\ HandlesGiven /\ EntriesKept /\ EndsKnown /\ EndsDistinct
        /\ WaitsForSomebody /\ EndFindsReply

--------------------------------------------------------------------------------
(* Frames *)

\* A frame that is pushed, and those below it.
LEMMA FramePushed ==
  ASSUME TypeOK, NEW f \in Frames, stack' = Append(stack, f)
  PROVE  /\ Len(stack) + 1 \in DOMAIN stack' /\ stack'[Len(stack) + 1] = f
         /\ Len(stack) + 1 \notin DOMAIN stack
         /\ \A k \in DOMAIN stack : k \in DOMAIN stack' /\ stack'[k] = stack[k]
         /\ \A k \in DOMAIN stack' : k \in DOMAIN stack \/ k = Len(stack) + 1
<1>1. stack \in Seq(Frames)
  BY DEF TypeOK
<1>2. /\ DOMAIN stack = 1 .. Len(stack) /\ Len(stack) \in Nat
      /\ DOMAIN stack' = 1 .. Len(stack) + 1
      /\ \A k \in DOMAIN stack : stack'[k] = stack[k]
      /\ stack'[Len(stack) + 1] = f
  BY <1>1, Pushed
<1> QED
  BY <1>2

\* A frame that is popped, and those below it.
LEMMA FramePopped ==
  ASSUME TypeOK, stack # <<>>, stack' = Pop
  PROVE  /\ Len(stack) \in DOMAIN stack /\ stack[Len(stack)] = Top
         /\ \A k \in DOMAIN stack' : k \in DOMAIN stack /\ k # Len(stack) /\ stack'[k] = stack[k]
         /\ \A k \in DOMAIN stack : k \in DOMAIN stack' \/ k = Len(stack)
<1>1. stack \in Seq(Frames)
  BY DEF TypeOK
<1>2. /\ DOMAIN stack = 1 .. Len(stack) /\ Len(stack) \in Nat \ {0}
      /\ DOMAIN stack' = 1 .. Len(stack) - 1
      /\ \A k \in 1 .. Len(stack) - 1 : stack'[k] = stack[k]
  BY <1>1, Popped DEF Pop
<1> QED
  BY <1>2 DEF Top

--------------------------------------------------------------------------------
(* Identifiers *)

\* A step that makes no call keeps the identifiers.
LEMMA HandlesKept ==
  ASSUME HandlesGiven, UNCHANGED <<counter, handle>>,
         \A c \in Calls : Made(c)' <=> Made(c),
         \A c \in Calls : ~Made(c) => notified'[c] = notified[c] /\ phase'[c] = phase[c],
         \A c \in Calls : open'[c] => open[c]
  PROVE  HandlesGiven'
<1>1. MadeCalls' = MadeCalls
  BY DEF MadeCalls
<1> QED
  BY <1>1 DEF HandlesGiven

\* While a call is left to make, the next identifier is a new one.
LEMMA NextIdNew ==
  ASSUME Few, TypeOK, HandlesGiven, NEW c \in Calls, ~Made(c)
  PROVE  NextId = counter + 1 /\ counter \in Nat /\ counter + 1 \in Ids \ {0}
<1>1. IsFiniteSet(Calls) /\ IdCount \in Nat \ {0}
  BY CallsAssumption
<1>2. MadeCalls \subseteq Calls \ {c}
  BY DEF MadeCalls
<1>3. IsFiniteSet(Calls \ {c}) /\ Cardinality(Calls \ {c}) = Cardinality(Calls) - 1
  BY <1>1, FS_RemoveElement
<1>4. IsFiniteSet(MadeCalls) /\ Cardinality(MadeCalls) <= Cardinality(Calls \ {c})
  BY <1>2, <1>3, FS_Subset
<1>5. Cardinality(Calls) \in Nat /\ Cardinality(MadeCalls) \in Nat
  BY <1>1, <1>4, FS_CardinalityType
<1>6. counter \in Nat /\ counter + 1 < IdCount
  BY <1>1, <1>3, <1>4, <1>5 DEF HandlesGiven, Few
<1>7. (counter + 1) % IdCount = counter + 1
  BY <1>1, <1>6
<1> QED
  BY <1>1, <1>6, <1>7 DEF NextId, Ids

\* A call more is made.
LEMMA MadeOneMore ==
  ASSUME NEW c \in Calls, c \notin MadeCalls, MadeCalls' = MadeCalls \union {c}
  PROVE  Cardinality(MadeCalls') = Cardinality(MadeCalls) + 1
<1>1. IsFiniteSet(MadeCalls)
  BY CallsAssumption, FS_Subset DEF MadeCalls
<1> QED
  BY <1>1, FS_AddElement

--------------------------------------------------------------------------------
(* The steps *)

\* begin_call: the new identifier leads to nothing yet, so no entry is lost.
LEMMA BeginHandles ==
  ASSUME Few, HInv, NEW c \in Calls, NEW callback \in BOOLEAN, Begin(c, callback)
  PROVE  HInv'
<1>1. TypeOK /\ HandlesGiven /\ TableFollowsHandles
  BY DEF HInv, Inv
<1>2. /\ ~disposed /\ phase[c] = "unused" /\ ~Made(c)
      /\ UNCHANGED <<connected, disposed, notified, stack, fault>>
  BY DEF Begin, Made
<1>3. NextId = counter + 1 /\ counter \in Nat /\ counter + 1 \in Ids \ {0}
  BY <1>1, <1>2, NextIdNew
<1>4. /\ counter' = counter + 1
      /\ \A i \in Ids : table'[i] = IF i = counter + 1 THEN c ELSE table[i]
      /\ \A d \in Calls : phase'[d] = IF d = c THEN "waiting" ELSE phase[d]
      /\ \A d \in Calls : handle'[d] = IF d = c THEN counter + 1 ELSE handle[d]
      /\ \A d \in Calls : open'[d] = IF d = c THEN TRUE ELSE open[d]
  <2>1. counter' = NextId
    BY DEF Begin, NextId
  <2>2. \A i \in Ids : table'[i] = IF i = NextId THEN c ELSE table[i]
    BY <1>1, <1>3 DEF Begin, TypeOK
  <2>3. \A d \in Calls : /\ phase'[d] = IF d = c THEN "waiting" ELSE phase[d]
                         /\ handle'[d] = IF d = c THEN NextId ELSE handle[d]
                         /\ open'[d] = IF d = c THEN TRUE ELSE open[d]
    BY <1>1 DEF Begin, TypeOK
  <2> QED
    BY <1>3, <2>1, <2>2, <2>3
<1>5. \A d \in Calls : Made(d)' <=> Made(d) \/ d = c
  BY <1>4 DEF Made
<1>6. \A d \in Calls : Made(d) => handle[d] \in 1 .. counter /\ d # c
  BY <1>1, <1>2 DEF HandlesGiven
<1>7. HandlesGiven'
  <2>1. MadeCalls' = MadeCalls \union {c} /\ c \notin MadeCalls
    BY <1>2, <1>5 DEF MadeCalls
  <2>2. counter' = Cardinality(MadeCalls')
    BY <1>1, <1>4, <2>1, MadeOneMore DEF HandlesGiven
  <2>3. ASSUME NEW d \in Calls
        PROVE  IF Made(d)' THEN handle'[d] \in 1 .. counter'
               ELSE handle'[d] = 0 /\ notified'[d] = 0 /\ (phase'[d] = "unused" => ~open'[d])
    <3>1. CASE d = c
      <4>1. Made(d)' /\ handle'[d] = counter + 1 /\ counter' = counter + 1
        BY <1>4, <1>5, <3>1
      <4> QED
        BY <1>3, <4>1
    <3>2. CASE d # c /\ Made(d)
      <4>1. Made(d)' /\ handle'[d] = handle[d] /\ handle[d] \in 1 .. counter
            /\ counter' = counter + 1
        BY <1>4, <1>5, <1>6, <3>2
      <4> QED
        BY <1>3, <4>1
    <3>3. CASE d # c /\ ~Made(d)
      <4>1. handle[d] = 0 /\ notified[d] = 0 /\ (phase[d] = "unused" => ~open[d])
        BY <1>1, <3>3 DEF HandlesGiven
      <4> QED
        BY <1>2, <1>4, <1>5, <3>3, <4>1
    <3> QED
      BY <3>1, <3>2, <3>3
  <2>4. ASSUME NEW d \in Calls, NEW e \in Calls, Made(d)', Made(e)', handle'[d] = handle'[e]
        PROVE  d = e
    <3>1. CASE d = c \/ e = c
      BY <1>3, <1>4, <1>5, <1>6, <2>4, <3>1
    <3>2. CASE d # c /\ e # c
      BY <1>1, <1>4, <1>5, <2>4, <3>2 DEF HandlesGiven
    <3> QED
      BY <3>1, <3>2
  <2> QED
    BY <2>2, <2>3, <2>4 DEF HandlesGiven
<1>8. \A d \in Calls : Made(d) => handle[d] \in Ids /\ handle[d] # counter + 1
  <2>1. handle \in [Calls -> Ids]
    BY <1>1 DEF TypeOK
  <2> SUFFICES ASSUME NEW d \in Calls, Made(d) PROVE handle[d] # counter + 1
    BY <2>1
  <2>2. handle[d] \in 1 .. counter
    BY <1>6
  <2> QED
    BY <1>3, <2>2
<1>9. EntriesKept'
  <2> SUFFICES ASSUME NEW d \in Calls, Made(d)', open'[d] \/ phase'[d] = "waiting"
               PROVE  table'[handle'[d]] = d /\ (open'[d] => phase'[d] \in {"waiting", "completed"})
    BY DEF EntriesKept
  <2>1. CASE d = c
    BY <1>3, <1>4, <2>1
  <2>2. CASE d # c
    <3>1. Made(d) /\ (open[d] \/ phase[d] = "waiting")
      BY <1>4, <1>5, <2>2
    <3>2. table[handle[d]] = d /\ (open[d] => phase[d] \in {"waiting", "completed"})
      BY <1>2, <3>1 DEF HInv, EntriesKept
    <3> QED
      BY <1>4, <1>8, <2>2, <3>1, <3>2
  <2> QED
    BY <2>1, <2>2
<1>10. \A k \in DOMAIN stack : Ends(k) =>
         /\ stack[k].call \in Calls /\ stack[k].call # c /\ Made(stack[k].call)
  <2> SUFFICES ASSUME NEW k \in DOMAIN stack, Ends(k)
               PROVE  stack[k].call \in Calls /\ Made(stack[k].call)
    BY <1>2
  <2> QED
    BY <1>1, FrameOf DEF HInv, EndsKnown, Made
<1>11. EndsKnown' /\ EndsDistinct'
  <2>1. EndsKnown'
    <3> SUFFICES ASSUME NEW k \in DOMAIN stack', Ends(k)'
                 PROVE  /\ ~disposed' /\ ~open'[stack'[k].call]
                        /\ stack'[k].id = handle'[stack'[k].call]
                        /\ table'[stack'[k].id] = stack'[k].call
                        /\ phase'[stack'[k].call] \in {"waiting", "completed"}
      BY DEF EndsKnown
    <3>1. stack' = stack /\ Ends(k)
      BY <1>2 DEF Ends
    <3>2. /\ stack[k].call \in Calls /\ stack[k].call # c /\ Made(stack[k].call)
          /\ ~open[stack[k].call]
          /\ stack[k].id = handle[stack[k].call]
          /\ table[stack[k].id] = stack[k].call
          /\ phase[stack[k].call] \in {"waiting", "completed"}
      BY <1>10, <3>1 DEF HInv, EndsKnown
    <3>3. PICK d \in Calls : d = stack[k].call
      BY <3>2
    <3>4. handle'[d] = handle[d] /\ handle[d] \in Ids /\ table'[handle[d]] = table[handle[d]]
          /\ open'[d] = open[d] /\ phase'[d] = phase[d]
      BY <1>4, <1>8, <3>2, <3>3
    <3> QED
      BY <1>2, <3>1, <3>2, <3>3, <3>4
  <2>2. EndsDistinct'
    BY <1>2 DEF HInv, EndsDistinct, Ends
  <2> QED
    BY <2>1, <2>2
<1>12. WaitsForSomebody'
  <2> SUFFICES ASSUME NEW d \in Calls, phase'[d] = "waiting"
               PROVE  ~disposed' /\ notified'[d] = 0 /\ (open'[d] \/ Ending(d)')
    BY DEF WaitsForSomebody
  <2>1. CASE d = c
    BY <1>1, <1>2, <1>4, <2>1 DEF HandlesGiven
  <2>2. CASE d # c
    BY <1>2, <1>4, <2>2 DEF HInv, WaitsForSomebody, Ending, Ends
  <2> QED
    BY <2>1, <2>2
<1>13. Inv' /\ EndFindsReply'
  BY <1>2, BeginStep DEF HInv, EndFindsReply
<1> QED
  BY <1>7, <1>9, <1>11, <1>12, <1>13 DEF HInv

\* A step that keeps the stack, the table and what was begun.
LEMMA NothingTaken ==
  ASSUME HInv, UNCHANGED <<disposed, table, handle, open, phase, notified, stack>>
  PROVE  EntriesKept' /\ EndsKnown' /\ EndsDistinct' /\ WaitsForSomebody'
BY DEF HInv, EntriesKept, EndsKnown, EndsDistinct, WaitsForSomebody, Ends, Ending, Made

\* begin_call without a connection gives out 0.
LEMMA BeginRefusedHandles ==
  ASSUME HInv, NEW c \in Calls, BeginRefused(c)
  PROVE  HInv'
<1>1. TypeOK
  BY DEF HInv, Inv
<1>2. UNCHANGED <<connected, counter, table, disposed, wanted, refs, notified, stack, fault>>
      /\ phase[c] = "unused" /\ ~disposed
  BY DEF BeginRefused
<1>3. \A d \in Calls : /\ phase'[d] = IF d = c THEN "refused" ELSE phase[d]
                       /\ handle'[d] = IF d = c THEN 0 ELSE handle[d]
                       /\ open'[d] = IF d = c THEN TRUE ELSE open[d]
  BY <1>1 DEF BeginRefused, TypeOK
<1>4. ~Made(c) /\ \A d \in Calls : Made(d)' <=> Made(d)
  BY <1>2, <1>3 DEF Made
<1>5. handle[c] = 0 /\ \A d \in Calls : handle'[d] = handle[d]
  BY <1>3, <1>4 DEF HInv, HandlesGiven
<1>6. HandlesGiven'
  <2>1. MadeCalls' = MadeCalls
    BY <1>4 DEF MadeCalls
  <2> QED
    BY <1>2, <1>3, <1>4, <1>5, <2>1 DEF HInv, HandlesGiven
<1>7. EntriesKept'
  BY <1>2, <1>3, <1>4, <1>5 DEF HInv, EntriesKept
<1>8. \A k \in DOMAIN stack : Ends(k) => stack[k].call \in Calls /\ stack[k].call # c
  BY <1>1, <1>2, FrameOf DEF HInv, EndsKnown
<1>9. EndsKnown'
  <2> SUFFICES ASSUME NEW k \in DOMAIN stack, Ends(k)
               PROVE  /\ ~disposed' /\ ~open'[stack[k].call]
                      /\ stack[k].id = handle'[stack[k].call]
                      /\ table'[stack[k].id] = stack[k].call
                      /\ phase'[stack[k].call] \in {"waiting", "completed"}
    BY <1>2 DEF EndsKnown, Ends
  <2>1. PICK d \in Calls : d = stack[k].call /\ d # c
    BY <1>8
  <2>2. handle'[d] = handle[d] /\ open'[d] = open[d] /\ phase'[d] = phase[d]
    BY <1>3, <2>1
  <2> QED
    BY <1>2, <2>1, <2>2 DEF HInv, EndsKnown
<1>10. EndsDistinct'
  BY <1>2 DEF HInv, EndsDistinct, Ends
<1>11. WaitsForSomebody'
  BY <1>2, <1>3 DEF HInv, WaitsForSomebody, Ending, Ends
<1>12. Inv' /\ EndFindsReply'
  BY <1>2, BeginRefusedStep DEF HInv, EndFindsReply
<1> QED
  BY <1>6, <1>7, <1>9, <1>10, <1>11, <1>12 DEF HInv

\* end_call gives the call up to the frame that waits for it; its entry is there,
\* unless the proxy was disposed of.
LEMMA EndBeginsHandles ==
  ASSUME HInv, TableGone, NEW c \in Calls, EndBegins(c)
  PROVE  HInv'
<1>1. TypeOK
  BY DEF HInv, Inv
<1>2. /\ UNCHANGED <<connected, counter, table, disposed, phase, handle, wanted, refs, notified>>
      /\ open[c]
  BY DEF EndBegins
<1>3. \A d \in Calls : open'[d] = IF d = c THEN FALSE ELSE open[d]
  BY <1>1 DEF EndBegins, TypeOK
<1>4. \A d \in Calls : Made(d)' <=> Made(d)
  BY <1>2 DEF Made
<1>5. HandlesGiven'
  BY <1>2, <1>3, <1>4, HandlesKept DEF HInv
<1>6. EntriesKept'
  BY <1>2, <1>3, <1>4 DEF HInv, EntriesKept
<1>7. Inv'
  BY EndBeginsStep DEF HInv
<1>8. ~Made(c) => handle[c] = 0
  BY DEF HInv, HandlesGiven
<1>9. ~disposed /\ Made(c) => table[handle[c]] = c /\ phase[c] \in {"waiting", "completed"}
  BY <1>2 DEF HInv, EntriesKept
<1>10. ~Ending(c)
  BY <1>2 DEF HInv, EndsKnown, Ending
<1>11. CASE handle[c] = 0 /\ UNCHANGED <<stack, fault>>
  <2>1. ~Made(c)
    BY <1>11 DEF HInv, HandlesGiven
  <2>2. EndsKnown' /\ EndsDistinct'
    BY <1>1, <1>2, <1>3, <1>11, FrameOf DEF HInv, EndsKnown, EndsDistinct, Ends
  <2>3. WaitsForSomebody'
    BY <1>2, <1>3, <1>11, <2>1 DEF HInv, WaitsForSomebody, Ending, Ends, Made
  <2> QED
    BY <1>2, <1>5, <1>6, <1>7, <1>11, <2>2, <2>3 DEF HInv, EndFindsReply
<1>12. CASE /\ handle[c] # 0 /\ table[handle[c]] = NoCall
            /\ fault' = "no such call" /\ UNCHANGED stack
  <2>1. disposed
    BY <1>8, <1>9, <1>12, NoCallAssumption
  <2>2. (\A k \in DOMAIN stack : ~Ends(k)) /\ \A d \in Calls : phase[d] # "waiting"
    BY <2>1 DEF HInv, EndsKnown, WaitsForSomebody
  <2>3. EndsKnown' /\ EndsDistinct' /\ WaitsForSomebody'
    BY <1>2, <1>12, <2>2 DEF EndsKnown, EndsDistinct, WaitsForSomebody, Ends
  <2> QED
    BY <1>2, <1>5, <1>6, <1>7, <1>12, <2>1, <2>3 DEF HInv, EndFindsReply
<1>13. CASE /\ handle[c] # 0 /\ table[handle[c]] # NoCall
            /\ stack' = Append(stack, [kind |-> "end", call |-> table[handle[c]], id |-> handle[c]])
            /\ UNCHANGED fault
  <2>0. ~disposed
    BY <1>1, <1>13 DEF TableGone, TypeOK
  <2> DEFINE f == [kind |-> "end", call |-> c, id |-> handle[c]]
             top == Len(stack) + 1
  <2>1. f \in Frames /\ f.kind = "end" /\ f.call = c /\ f.id = handle[c]
    BY <1>1 DEF Frames, TypeOK
  <2>2. stack' = Append(stack, f)
    BY <1>8, <1>9, <1>13, <2>0
  <2> HIDE DEF f
  <2>3. /\ top \in DOMAIN stack' /\ stack'[top] = f
        /\ top \notin DOMAIN stack
        /\ \A k \in DOMAIN stack : k \in DOMAIN stack' /\ stack'[k] = stack[k]
        /\ \A k \in DOMAIN stack' : k \in DOMAIN stack \/ k = top
    BY <1>1, <2>1, <2>2, FramePushed
  <2> HIDE DEF top
  <2>4. \A k \in DOMAIN stack : Ends(k)' <=> Ends(k)
    BY <2>3 DEF Ends
  <2>5. \A k \in DOMAIN stack : Ends(k) => stack[k].call \in Calls /\ stack[k].call # c
    BY <1>1, <1>10, FrameOf DEF Ending
  <2>6. EndsKnown'
    <3> SUFFICES ASSUME NEW k \in DOMAIN stack', Ends(k)'
                 PROVE  /\ ~disposed' /\ ~open'[stack'[k].call]
                        /\ stack'[k].id = handle'[stack'[k].call]
                        /\ table'[stack'[k].id] = stack'[k].call
                        /\ phase'[stack'[k].call] \in {"waiting", "completed"}
      BY DEF EndsKnown
    <3>1. CASE k \in DOMAIN stack
      <4>1. stack'[k] = stack[k] /\ Ends(k)
        BY <2>3, <2>4, <3>1
      <4>2. PICK d \in Calls : d = stack[k].call /\ d # c
        BY <2>5, <3>1, <4>1
      <4>3. /\ ~disposed /\ ~open[d] /\ stack[k].id = handle[d]
            /\ table[handle[d]] = d /\ phase[d] \in {"waiting", "completed"}
        BY <3>1, <4>1, <4>2 DEF HInv, EndsKnown
      <4> QED
        BY <1>2, <1>3, <4>1, <4>2, <4>3
    <3>2. CASE k = top
      <4>1. stack'[k].call = c /\ stack'[k].id = handle[c]
        BY <2>1, <2>3, <3>2
      <4>2. table[handle[c]] = c /\ phase[c] \in {"waiting", "completed"} /\ ~open'[c]
        BY <1>3, <1>8, <1>9, <1>13, <2>0
      <4> QED
        BY <1>2, <2>0, <4>1, <4>2
    <3> QED
      BY <2>3, <3>1, <3>2
  <2>7. EndsDistinct'
    <3> SUFFICES ASSUME NEW j \in DOMAIN stack', NEW k \in DOMAIN stack', Ends(j)', Ends(k)',
                        stack'[j].call = stack'[k].call
                 PROVE  j = k
      BY DEF EndsDistinct
    <3>1. CASE j \in DOMAIN stack /\ k \in DOMAIN stack
      BY <2>3, <2>4, <3>1 DEF HInv, EndsDistinct
    <3>2. CASE j = top \/ k = top
      BY <2>1, <2>3, <2>4, <2>5, <3>2
    <3> QED
      BY <2>3, <3>1, <3>2
  <2>8. WaitsForSomebody'
    <3> SUFFICES ASSUME NEW d \in Calls, phase'[d] = "waiting"
                 PROVE  ~disposed' /\ notified'[d] = 0 /\ (open'[d] \/ Ending(d)')
      BY DEF WaitsForSomebody
    <3>1. ~disposed /\ notified[d] = 0 /\ (open[d] \/ Ending(d))
      BY <1>2 DEF HInv, WaitsForSomebody
    <3>2. Ending(d) => Ending(d)'
      BY <2>3, <2>4 DEF Ending
    <3>3. Ending(c)'
      BY <2>1, <2>3 DEF Ending, Ends
    <3> QED
      BY <1>2, <1>3, <3>1, <3>2, <3>3
  <2> QED
    BY <1>2, <1>5, <1>6, <1>7, <1>13, <2>6, <2>7, <2>8 DEF HInv, EndFindsReply
<1> QED
  BY <1>11, <1>12, <1>13 DEF EndBegins

\* What popping an end_call or a callback leaves of the frames.
LEMMA EndsBelow ==
  ASSUME HInv, stack # <<>>, stack' = Pop
  PROVE  /\ \A k \in DOMAIN stack' : /\ k \in DOMAIN stack /\ stack'[k] = stack[k]
                                     /\ (Ends(k)' <=> Ends(k))
                                     /\ (Top.kind = "end" /\ Ends(k) => stack[k].call # Top.call)
         /\ EndsDistinct'
         /\ \A d \in Calls : Ending(d) => Ending(d)' \/ (Top.kind = "end" /\ d = Top.call)
<1>1. TypeOK
  BY DEF HInv, Inv
<1>2. /\ Len(stack) \in DOMAIN stack /\ stack[Len(stack)] = Top
      /\ \A k \in DOMAIN stack' : k \in DOMAIN stack /\ k # Len(stack) /\ stack'[k] = stack[k]
      /\ \A k \in DOMAIN stack : k \in DOMAIN stack' \/ k = Len(stack)
  BY <1>1, FramePopped
<1>3. \A k \in DOMAIN stack' : Ends(k)' <=> Ends(k)
  BY <1>2 DEF Ends
<1>4. ASSUME NEW k \in DOMAIN stack', Top.kind = "end", Ends(k)
      PROVE  stack[k].call # Top.call
  BY <1>2, <1>4 DEF HInv, EndsDistinct, Ends
<1>5. EndsDistinct'
  BY <1>2, <1>3 DEF HInv, EndsDistinct
<1>6. ASSUME NEW d \in Calls, Ending(d)
      PROVE  Ending(d)' \/ (Top.kind = "end" /\ d = Top.call)
  <2>1. PICK k \in DOMAIN stack : Ends(k) /\ stack[k].call = d
    BY <1>6 DEF Ending
  <2>2. CASE k \in DOMAIN stack'
    BY <1>2, <1>3, <2>1, <2>2 DEF Ending
  <2>3. CASE k = Len(stack)
    BY <1>2, <2>1, <2>3 DEF Ends
  <2> QED
    BY <1>2, <2>2, <2>3
<1> QED
  BY <1>2, <1>3, <1>4, <1>5, <1>6

\* A frame of end_call that is still there, if its call and entry are.
LEMMA EndsStay ==
  ASSUME HInv, UNCHANGED <<disposed, handle>>,
         \A k \in DOMAIN stack' : Ends(k)' =>
           /\ k \in DOMAIN stack /\ Ends(k) /\ stack'[k] = stack[k]
           /\ open'[stack[k].call] => open[stack[k].call]
           /\ table'[stack[k].id] = table[stack[k].id]
           /\ phase'[stack[k].call] \in {phase[stack[k].call], "completed"}
  PROVE  EndsKnown'
<1> SUFFICES ASSUME NEW k \in DOMAIN stack', Ends(k)'
             PROVE  /\ ~disposed' /\ ~open'[stack'[k].call]
                    /\ stack'[k].id = handle'[stack'[k].call]
                    /\ table'[stack'[k].id] = stack'[k].call
                    /\ phase'[stack'[k].call] \in {"waiting", "completed"}
  BY DEF EndsKnown
<1>1. /\ k \in DOMAIN stack /\ Ends(k) /\ stack'[k] = stack[k]
      /\ open'[stack[k].call] => open[stack[k].call]
      /\ table'[stack[k].id] = table[stack[k].id]
      /\ phase'[stack[k].call] \in {phase[stack[k].call], "completed"}
  OBVIOUS
<1>2. /\ ~disposed /\ ~open[stack[k].call]
      /\ stack[k].id = handle[stack[k].call]
      /\ table[stack[k].id] = stack[k].call
      /\ phase[stack[k].call] \in {"waiting", "completed"}
  BY <1>1 DEF HInv, EndsKnown
<1> QED
  BY <1>1, <1>2

\* A callback returns.
LEMMA NotifyReturnsHandles ==
  ASSUME HInv, NotifyReturns
  PROVE  HInv'
<1>1. /\ UNCHANGED <<connected, counter, table, disposed, phase, handle, wanted, open, notified, fault>>
      /\ stack # <<>> /\ Top.kind = "notify" /\ stack' = Pop
  BY DEF NotifyReturns, Inside, Top
<1>2. HandlesGiven' /\ EntriesKept'
  BY <1>1, HandlesKept DEF HInv, EntriesKept, Made
<1>3. /\ \A k \in DOMAIN stack' : k \in DOMAIN stack /\ stack'[k] = stack[k] /\ (Ends(k)' <=> Ends(k))
      /\ EndsDistinct'
      /\ \A d \in Calls : Ending(d) => Ending(d)'
  BY <1>1, EndsBelow
<1>4. EndsKnown'
  BY <1>1, <1>3, EndsStay
<1>5. WaitsForSomebody'
  BY <1>1, <1>3 DEF HInv, WaitsForSomebody
<1>6. Inv' /\ EndFindsReply'
  BY <1>1, NotifyReturnsStep DEF HInv, EndFindsReply
<1> QED
  BY <1>2, <1>3, <1>4, <1>5, <1>6 DEF HInv

\* end_call takes the reply, and with it its own call's entry and no other.
LEMMA EndReturnsHandles ==
  ASSUME HInv, EndReturns
  PROVE  HInv'
<1> DEFINE t == Top.call
<1>1. TypeOK /\ stack # <<>> /\ Top.kind = "end"
  BY DEF HInv, Inv, EndReturns, Inside, Top
<1>2. t \in Calls /\ Top.id \in Ids /\ Len(stack) \in DOMAIN stack
  BY <1>1, TopFrame
<1>3. /\ ~disposed /\ ~open[t] /\ Top.id = handle[t] /\ table[handle[t]] = t
      /\ phase[t] \in {"waiting", "completed"}
  BY <1>1, <1>2 DEF HInv, EndsKnown, Ends, Top
<1>4. /\ UNCHANGED <<connected, counter, disposed, handle, wanted, open, notified, fault>>
      /\ phase[t] = "completed"
      /\ phase' = [phase EXCEPT ![t] = "stolen"]
      /\ table' = [table EXCEPT ![handle[t]] = NoCall]
      /\ stack' = Pop
  BY <1>3 DEF EndReturns
<1>5. /\ \A d \in Calls : phase'[d] = IF d = t THEN "stolen" ELSE phase[d]
      /\ \A i \in Ids : table'[i] = IF i = handle[t] THEN NoCall ELSE table[i]
  BY <1>1, <1>4 DEF TypeOK
<1> HIDE DEF t
<1>6. \A d \in Calls : Made(d)' <=> Made(d)
  BY <1>4, <1>5 DEF Made
<1>7. HandlesGiven'
  BY <1>4, <1>5, <1>6, HandlesKept DEF HInv, Made
<1>8. Made(t)
  BY <1>3 DEF Made
<1>9. handle \in [Calls -> Ids]
  BY <1>1 DEF TypeOK
<1>10. \A d \in Calls : Made(d) /\ d # t => handle[d] # handle[t]
  BY <1>2, <1>8 DEF HInv, HandlesGiven, t
<1>11. EntriesKept'
  <2> SUFFICES ASSUME NEW d \in Calls, Made(d), open[d] \/ phase'[d] = "waiting"
               PROVE  table'[handle[d]] = d /\ (open[d] => phase'[d] \in {"waiting", "completed"})
    BY <1>4, <1>6 DEF EntriesKept
  <2>1. d # t
    BY <1>2, <1>3, <1>5 DEF t
  <2>2. table[handle[d]] = d /\ (open[d] => phase[d] \in {"waiting", "completed"})
    BY <1>3, <1>5, <2>1 DEF HInv, EntriesKept
  <2> QED
    BY <1>5, <1>9, <1>10, <2>1, <2>2
<1>12. /\ \A k \in DOMAIN stack' : /\ k \in DOMAIN stack /\ stack'[k] = stack[k]
                                  /\ (Ends(k)' <=> Ends(k))
                                  /\ (Ends(k) => stack[k].call # t)
       /\ EndsDistinct'
       /\ \A d \in Calls : Ending(d) => Ending(d)' \/ d = t
  BY <1>1, <1>4, EndsBelow DEF t
<1>13. EndsKnown'
  <2>1. ASSUME NEW k \in DOMAIN stack', Ends(k)'
        PROVE  /\ k \in DOMAIN stack /\ Ends(k) /\ stack'[k] = stack[k]
               /\ table'[stack[k].id] = table[stack[k].id]
               /\ phase'[stack[k].call] = phase[stack[k].call]
    <3>1. k \in DOMAIN stack /\ Ends(k) /\ stack'[k] = stack[k] /\ stack[k].call # t
      BY <1>12, <2>1
    <3>2. PICK d \in Calls : d = stack[k].call
      BY <1>1, <3>1, FrameOf
    <3>3. Made(d) /\ stack[k].id = handle[d]
      BY <3>1, <3>2 DEF HInv, EndsKnown, Made
    <3>4. handle[d] # handle[t] /\ handle[d] \in Ids
      BY <1>9, <1>10, <3>1, <3>2, <3>3
    <3> QED
      BY <1>5, <3>1, <3>2, <3>3, <3>4
  <2> QED
    BY <1>4, <2>1, EndsStay
<1>14. WaitsForSomebody'
  BY <1>4, <1>5, <1>12 DEF HInv, WaitsForSomebody
<1>15. Inv' /\ EndFindsReply'
  BY <1>4, EndReturnsStep DEF HInv, EndFindsReply
<1> QED
  BY <1>7, <1>11, <1>12, <1>13, <1>14, <1>15 DEF HInv

\* cancel_call removes the call's own entry and no other.
LEMMA CancelCallHandles ==
  ASSUME HInv, NEW c \in Calls, CancelCall(c)
  PROVE  HInv'
<1>1. TypeOK /\ handle \in [Calls -> Ids]
  BY DEF HInv, Inv, TypeOK
<1>2. /\ UNCHANGED <<connected, counter, disposed, handle, wanted, notified, stack>>
      /\ ~disposed /\ open[c]
  BY DEF CancelCall
<1>3. \A d \in Calls : open'[d] = IF d = c THEN FALSE ELSE open[d]
  BY <1>1 DEF CancelCall, TypeOK
<1>4. ~Made(c) => handle[c] = 0
  BY DEF HInv, HandlesGiven
<1>5. Made(c) => /\ handle[c] # 0 /\ table[handle[c]] = c
                 /\ phase[c] \in {"waiting", "completed"}
  BY <1>2 DEF HInv, HandlesGiven, EntriesKept
<1>6. Inv' /\ EndFindsReply'
  <2>1. fault' \in {fault, "none", "freed call cancelled"}
    BY DEF CancelCall
  <2> QED
    BY <1>2, <2>1, CancelCallStep DEF HInv, EndFindsReply
<1>7. EndsDistinct'
  BY <1>2 DEF HInv, EndsDistinct, Ends
<1>8. CASE (handle[c] = 0 \/ table[handle[c]] = NoCall) /\ UNCHANGED <<table, phase>>
  <2>1. ~Made(c)
    BY <1>5, <1>8, NoCallAssumption
  <2>2. \A d \in Calls : Made(d)' <=> Made(d)
    BY <1>8 DEF Made
  <2>3. HandlesGiven' /\ EntriesKept'
    BY <1>2, <1>3, <1>8, <2>2, HandlesKept DEF HInv, EntriesKept
  <2>4. EndsKnown'
    BY <1>1, <1>2, <1>3, <1>8, FrameOf, EndsStay DEF Ends
  <2>5. WaitsForSomebody'
    BY <1>2, <1>3, <1>8, <2>1 DEF HInv, WaitsForSomebody, Ending, Ends, Made
  <2> QED
    BY <1>6, <1>7, <2>3, <2>4, <2>5 DEF HInv
<1>9. CASE /\ handle[c] # 0 /\ table[handle[c]] # NoCall
           /\ table' = [table EXCEPT ![handle[c]] = NoCall]
           /\ IF phase[table[handle[c]]] = "waiting"
              THEN phase' = [phase EXCEPT ![table[handle[c]]] = "cancelled"]
              ELSE UNCHANGED phase
  <2>1. Made(c) /\ table[handle[c]] = c /\ phase[c] \in {"waiting", "completed"}
    BY <1>4, <1>5, <1>9
  <2>2. /\ \A i \in Ids : table'[i] = IF i = handle[c] THEN NoCall ELSE table[i]
        /\ \A d \in Calls : d # c => phase'[d] = phase[d]
        /\ phase'[c] \in {"cancelled", "completed"}
    <3>1. phase \in [Calls -> Phases] /\ table \in [Ids -> Calls \union {NoCall}]
      BY <1>1 DEF TypeOK
    <3> QED
      BY <1>9, <2>1, <3>1
  <2>3. \A d \in Calls : Made(d)' <=> Made(d)
    BY <2>1, <2>2 DEF Made
  <2>4. HandlesGiven'
    BY <1>2, <1>3, <2>1, <2>2, <2>3, HandlesKept DEF HInv
  <2>5. \A d \in Calls : Made(d) /\ d # c => handle[d] # handle[c]
    BY <2>1 DEF HInv, HandlesGiven
  <2>6. EntriesKept'
    <3> SUFFICES ASSUME NEW d \in Calls, Made(d), open'[d] \/ phase'[d] = "waiting"
                 PROVE  table'[handle[d]] = d /\ (open'[d] => phase'[d] \in {"waiting", "completed"})
      BY <1>2, <2>3 DEF EntriesKept
    <3>1. d # c
      BY <1>3, <2>2
    <3>2. table[handle[d]] = d /\ (open[d] => phase[d] \in {"waiting", "completed"})
      BY <1>2, <1>3, <2>2, <3>1 DEF HInv, EntriesKept
    <3> QED
      BY <1>1, <1>3, <2>2, <2>5, <3>1, <3>2
  <2>7. EndsKnown'
    <3>1. ASSUME NEW k \in DOMAIN stack, Ends(k)
          PROVE  /\ ~open'[stack[k].call]
                 /\ table'[stack[k].id] = table[stack[k].id]
                 /\ phase'[stack[k].call] = phase[stack[k].call]
      <4>1. PICK d \in Calls : d = stack[k].call
        BY <1>1, FrameOf
      <4>2. Made(d) /\ stack[k].id = handle[d] /\ ~open[d]
        BY <3>1, <4>1 DEF HInv, EndsKnown, Made
      <4>3. d # c /\ handle[d] # handle[c] /\ handle[d] \in Ids
        BY <1>1, <1>2, <2>5, <4>2
      <4> QED
        BY <1>3, <2>2, <4>1, <4>2, <4>3
    <3>2. \A k \in DOMAIN stack' : Ends(k)' => k \in DOMAIN stack /\ Ends(k) /\ stack'[k] = stack[k]
      BY <1>2 DEF Ends
    <3> QED
      BY <1>2, <3>1, <3>2, EndsStay
  <2>8. WaitsForSomebody'
    <3>1. \A d \in Calls : Ending(d) => Ending(d)'
      BY <1>2 DEF Ending, Ends
    <3> QED
      BY <1>2, <1>3, <2>2, <3>1 DEF HInv, WaitsForSomebody
  <2> QED
    BY <1>6, <1>7, <2>4, <2>6, <2>7, <2>8 DEF HInv
<1> QED
  BY <1>8, <1>9 DEF CancelCall

\* dispose finds every call that waits in the table, and cancels it.
LEMMA DisposeHandles ==
  ASSUME HInv, Dispose
  PROVE  HInv'
<1> DEFINE listed == {table[i] : i \in Ids} \ {NoCall}
           waiting == {c \in listed : phase[c] = "waiting"}
<1>1. TypeOK /\ handle \in [Calls -> Ids]
  BY DEF HInv, Inv, TypeOK
<1>2. /\ UNCHANGED <<connected, counter, handle, wanted, open, notified, stack, fault>>
      /\ ~disposed /\ disposed'
      /\ phase' = [c \in Calls |-> IF c \in waiting THEN "cancelled" ELSE phase[c]]
      /\ \A k \in DOMAIN stack : ~Ends(k)
  BY DEF Dispose, Ends
<1>3. ASSUME NEW c \in Calls, phase[c] = "waiting"
      PROVE  c \in waiting
  <2>1. Made(c) /\ table[handle[c]] = c
    BY <1>2, <1>3 DEF HInv, EntriesKept, Made
  <2> QED
    BY <1>1, <1>3, <2>1, NoCallAssumption
<1>4. \A c \in Calls : phase'[c] # "waiting"
  BY <1>2, <1>3
<1>5. \A c \in Calls : phase'[c] = phase[c] \/ (phase[c] = "waiting" /\ phase'[c] = "cancelled")
  BY <1>2
<1>6. \A c \in Calls : (Made(c)' <=> Made(c)) /\ (~Made(c) => phase'[c] = phase[c])
  BY <1>5 DEF Made
<1>7. HandlesGiven'
  BY <1>2, <1>6, HandlesKept DEF HInv
<1>8. EntriesKept' /\ WaitsForSomebody'
  BY <1>2, <1>4 DEF EntriesKept, WaitsForSomebody
<1>9. EndsKnown' /\ EndsDistinct'
  BY <1>2 DEF EndsKnown, EndsDistinct, Ends
<1>10. Inv' /\ EndFindsReply'
  BY <1>2, DisposeStep DEF HInv, EndFindsReply
<1> QED
  BY <1>7, <1>8, <1>9, <1>10 DEF HInv

\* A call is completed: it does not wait any more, and keeps its entry.
LEMMA CompletesHandles ==
  ASSUME HInv, NEW c \in Calls, Completes(c)
  PROVE  HInv'
<1>1. TypeOK /\ handle \in [Calls -> Ids] /\ notified \in [Calls -> Nat]
  BY DEF HInv, Inv, TypeOK
<1>2. /\ UNCHANGED <<connected, counter, table, disposed, handle, wanted, open, fault>>
      /\ phase[c] = "waiting" /\ Made(c)
      /\ \A d \in Calls : phase'[d] = IF d = c THEN "completed" ELSE phase[d]
      /\ \A d \in Calls : d # c => notified'[d] = notified[d]
  BY <1>1 DEF Completes, Made, TypeOK
<1>3. \A d \in Calls : Made(d)' <=> Made(d)
  BY <1>2 DEF Made
<1>4. HandlesGiven'
  BY <1>2, <1>3, HandlesKept DEF HInv
<1>5. EntriesKept'
  BY <1>2, <1>3 DEF HInv, EntriesKept
<1>6. /\ \A k \in DOMAIN stack' : Ends(k)' => k \in DOMAIN stack /\ Ends(k) /\ stack'[k] = stack[k]
      /\ \A k \in DOMAIN stack : Ends(k) => k \in DOMAIN stack' /\ Ends(k)' /\ stack'[k] = stack[k]
  <2>1. CASE UNCHANGED stack
    BY <2>1 DEF Ends
  <2>2. CASE stack' = Append(stack, [kind |-> "notify", call |-> c, id |-> handle[c]])
    <3> DEFINE f == [kind |-> "notify", call |-> c, id |-> handle[c]]
    <3>1. f \in Frames /\ f.kind = "notify"
      BY <1>1 DEF Frames
    <3>2. stack' = Append(stack, f)
      BY <2>2
    <3> HIDE DEF f
    <3>3. /\ stack'[Len(stack) + 1] = f
          /\ \A k \in DOMAIN stack : k \in DOMAIN stack' /\ stack'[k] = stack[k]
          /\ \A k \in DOMAIN stack' : k \in DOMAIN stack \/ k = Len(stack) + 1
      BY <1>1, <3>1, <3>2, FramePushed
    <3> QED
      BY <3>1, <3>3 DEF Ends
  <2> QED
    BY <2>1, <2>2 DEF Completes
<1>7. EndsKnown'
  <2>1. \A k \in DOMAIN stack : stack[k].call \in Calls
    BY <1>1, FrameOf
  <2> QED
    BY <1>2, <1>6, <2>1, EndsStay
<1>8. EndsDistinct'
  BY <1>6 DEF HInv, EndsDistinct
<1>9. WaitsForSomebody'
  <2>1. \A d \in Calls : Ending(d) => Ending(d)'
    BY <1>6 DEF Ending
  <2> QED
    BY <1>2, <2>1 DEF HInv, WaitsForSomebody
<1>10. Inv' /\ EndFindsReply'
  BY <1>2, CompletesStep DEF HInv, EndFindsReply
<1> QED
  BY <1>4, <1>5, <1>7, <1>8, <1>9, <1>10 DEF HInv

\* The connection is lost, or nothing happens.
LEMMA DisconnectsHandles ==
  ASSUME HInv, Disconnects \/ UNCHANGED vars
  PROVE  HInv'
<1>1. UNCHANGED <<counter, table, disposed, phase, handle, wanted, open, refs, notified, stack, fault>>
  BY DEF Disconnects, vars, callVars
<1>2. HandlesGiven'
  BY <1>1, HandlesKept DEF HInv, Made
<1>3. Inv' /\ EndFindsReply'
  BY <1>1, DisconnectsStep, StutterStep DEF HInv, EndFindsReply
<1> QED
  BY <1>1, <1>2, <1>3, NothingTaken DEF HInv

LEMMA InitHandles ==
  ASSUME Init
  PROVE  HInv
<1>1. Inv /\ EndFindsReply
  BY InitInv DEF Init, EndFindsReply
<1>2. MadeCalls = {} /\ \A c \in Calls : ~Made(c)
  BY DEF Init, MadeCalls, Made
<1>3. HandlesGiven
  BY <1>2, FS_EmptySet DEF Init, HandlesGiven
<1>4. EntriesKept /\ EndsKnown /\ EndsDistinct /\ WaitsForSomebody
  BY <1>2 DEF Init, EntriesKept, EndsKnown, EndsDistinct, WaitsForSomebody
<1> QED
  BY <1>1, <1>3, <1>4 DEF HInv

--------------------------------------------------------------------------------
\* dispose empties the table, and begin_call refuses a proxy that was disposed of.
LEMMA GoneInvariance == Spec => []TableGone
<1>1. Inv /\ TableGone /\ [Next]_vars => TableGone'
  <2> SUFFICES ASSUME TypeOK, TableGone, [Next]_vars, disposed', NEW i \in Ids
               PROVE  table'[i] = NoCall
    BY DEF TableGone, Inv
  <2>1. CASE UNCHANGED <<table, disposed>>
    BY <2>1 DEF TableGone
  <2>2. CASE Dispose
    BY <2>2 DEF Dispose
  <2>3. ~\E c \in Calls, callback \in BOOLEAN : Begin(c, callback)
    BY DEF Begin
  <2>4. ~\E c \in Calls : CancelCall(c) /\ ~UNCHANGED <<table, disposed>>
    BY DEF CancelCall
  <2>5. CASE EndReturns
    <3>1. UNCHANGED disposed /\ (UNCHANGED table \/ table' = [table EXCEPT ![Top.id] = NoCall])
      BY <2>5 DEF EndReturns
    <3> QED
      BY <2>1, <3>1 DEF TableGone, TypeOK
  <2>6. \/ UNCHANGED vars \/ NotifyReturns \/ Disconnects
        \/ \E c \in Calls : BeginRefused(c) \/ EndBegins(c) \/ Completes(c)
        => UNCHANGED <<table, disposed>>
    BY DEF vars, NotifyReturns, Disconnects, BeginRefused, EndBegins, Completes
  <2> QED
    BY <2>1, <2>2, <2>3, <2>4, <2>5, <2>6 DEF Next, Application, Completion, Returns
<1>2. Init => TableGone
  BY DEF Init, TableGone
<1> QED
  BY <1>1, <1>2, CallsInvariance, PTL DEF Spec

\* As long as there are fewer calls than identifiers, identifiers are distinct,
\* entries stay until their call is ended, cancelled or disposed of, and a call
\* that waits is wanted by somebody (begin_call_internal, end_call_internal,
\* cancel_call, dispose).
THEOREM HandlesInvariance ==
  ASSUME Few
  PROVE  Spec => []HInv
<1>1. ASSUME HInv, TableGone, [Next]_vars PROVE HInv'
  <2>1. ASSUME NEW c \in Calls, NEW callback \in BOOLEAN, Begin(c, callback) PROVE HInv'
    BY <1>1, <2>1, BeginHandles
  <2>2. ASSUME NEW c \in Calls, BeginRefused(c) PROVE HInv'
    BY <1>1, <2>2, BeginRefusedHandles
  <2>3. ASSUME NEW c \in Calls, EndBegins(c) PROVE HInv'
    BY <1>1, <2>3, EndBeginsHandles
  <2>4. ASSUME NEW c \in Calls, CancelCall(c) PROVE HInv'
    BY <1>1, <2>4, CancelCallHandles
  <2>5. CASE Dispose
    BY <1>1, <2>5, DisposeHandles
  <2>6. ASSUME NEW c \in Calls, Completes(c) PROVE HInv'
    BY <1>1, <2>6, CompletesHandles
  <2>7. CASE EndReturns
    BY <1>1, <2>7, EndReturnsHandles
  <2>8. CASE NotifyReturns
    BY <1>1, <2>8, NotifyReturnsHandles
  <2>9. CASE Disconnects \/ UNCHANGED vars
    BY <1>1, <2>9, DisconnectsHandles
  <2> QED
    BY <1>1, <2>1, <2>2, <2>3, <2>4, <2>5, <2>6, <2>7, <2>8, <2>9
       DEF Next, Application, Completion, Returns
<1> QED
  BY <1>1, InitHandles, GoneInvariance, PTL DEF Spec

\* HandleLeadsToCall: an identifier the application holds leads to its call
\* (priv->pending_calls, end_call_internal, cancel_call).
THEOREM HandlesCorrect ==
  ASSUME Few
  PROVE  Spec => []HandleLeadsToCall
<1>1. HInv => HandleLeadsToCall
  <2> SUFFICES ASSUME HInv, ~disposed, NEW c \in Calls, open[c]
               PROVE  IF phase[c] = "refused" THEN handle[c] = 0
                      ELSE handle[c] # 0 /\ table[handle[c]] = c
    BY DEF HandleLeadsToCall
  <2>1. CASE Made(c)
    BY <2>1 DEF HInv, HandlesGiven, EntriesKept, Made
  <2>2. CASE ~Made(c)
    BY <2>2 DEF HInv, HandlesGiven, Made
  <2> QED
    BY <2>1, <2>2
<1> QED
  BY <1>1, HandlesInvariance, PTL

\* NoCallbackAfterDispose: dispose leaves no call that could still run a callback
\* of the proxy (dbus_g_proxy_dispose).
THEOREM DisposeCorrect ==
  ASSUME Few
  PROVE  Spec => []NoCallbackAfterDispose
<1>1. HInv => NoCallbackAfterDispose
  BY DEF HInv, WaitsForSomebody, NoCallbackAfterDispose
<1> QED
  BY <1>1, HandlesInvariance, PTL

\* EndFindsReply: on a proxy that was not disposed of, end_call finds its call and a
\* reply, whatever the callbacks that ran while it blocked have ended or cancelled,
\* and dispose never takes a reply away from an end_call that has found its call
\* (end_call_internal, dispose).
THEOREM EndCorrect ==
  ASSUME Few
  PROVE  Spec => []EndFindsReply
<1>1. HInv => EndFindsReply
  BY DEF HInv
<1> QED
  BY <1>1, HandlesInvariance, PTL

\* NotifiedOnce: a callback runs at most once, and only for a call that has been
\* neither cancelled nor ended (d_pending_call_notify, cancel_call).
THEOREM NotifiedCorrect ==
  ASSUME Few
  PROVE  Spec => NotifiedOnce
<1> DEFINE Step == \A c \in Calls :
                     notified'[c] # notified[c] =>
                       /\ notified[c] = 0
                       /\ open[c] \/ (Inside("end") /\ Top.call = c)
<1>1. HInv /\ [Next]_vars => [Step]_vars
  <2> SUFFICES ASSUME HInv, [Next]_vars PROVE Step
    OBVIOUS
  <2>1. ASSUME NEW c \in Calls, Completes(c) PROVE Step
    <3>1. notified \in [Calls -> Nat] /\ phase[c] = "waiting"
      BY <2>1 DEF HInv, Inv, TypeOK, Completes
    <3>2. \A d \in Calls : d # c => notified'[d] = notified[d]
      BY <2>1, <3>1 DEF Completes
    <3>3. notified[c] = 0 /\ (open[c] \/ Ending(c))
      BY <3>1 DEF HInv, WaitsForSomebody
    <3>4. open[c] \/ (Inside("end") /\ Top.call = c)
      BY <2>1, <3>3 DEF Completes, Ending
    <3> QED
      BY <3>2, <3>3, <3>4
  <2>2. (\E c \in Calls : \E b \in BOOLEAN : Begin(c, b)) => UNCHANGED notified
    BY DEF Begin
  <2>3. (\E c \in Calls : BeginRefused(c)) => UNCHANGED notified
    BY DEF BeginRefused
  <2>4. (\E c \in Calls : EndBegins(c)) => UNCHANGED notified
    BY DEF EndBegins
  <2>5. (\E c \in Calls : CancelCall(c)) => UNCHANGED notified
    BY DEF CancelCall
  <2>6. Dispose => UNCHANGED notified
    BY DEF Dispose
  <2>7. Returns => UNCHANGED notified
    BY DEF Returns, EndReturns, NotifyReturns
  <2>8. Disconnects \/ UNCHANGED vars => UNCHANGED notified
    BY DEF Disconnects, vars, callVars
  <2>9. UNCHANGED notified => Step
    OBVIOUS
  <2> HIDE DEF Step
  <2> QED
    BY <2>1, <2>2, <2>3, <2>4, <2>5, <2>6, <2>7, <2>8, <2>9 DEF Next, Application, Completion
<1>2. Spec => []HInv
  BY HandlesInvariance
<1>3. Spec => [][Step]_vars
  <2> HIDE DEF Step
  <2> QED
    BY <1>1, <1>2, PTL DEF Spec
<1> QED
  BY <1>3 DEF NotifiedOnce
================================================================================
