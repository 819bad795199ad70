----------------------------- MODULE MainLoopProofs -----------------------------
(******************************************************************************)
(* The watches of a connection follow it from context to context, for any     *)
(* number of contexts, watches, timeouts, moves and nested dispatches: proofs *)
(* over MainLoop.                                                             *)
(*                                                                            *)
(* A thing (a watch or a timeout) has at most one source, that of its data;   *)
(* Source tells the setup it is attached for.  Every function on handlers is  *)
(* described by what it does to Source, and every loop by an invariant over   *)
(* the things it has been through.                                            *)
(******************************************************************************)
EXTENDS MainLoopProps, Induction, TLAPS

Records == {Free} \union [setup : Setups, thing : Things \union {None}, attached : BOOLEAN]
Worlds == [handler : [Handlers -> Records], data : [Things -> Handlers \union {None}]]

\* A handler and its thing know each other, and one that is off is in use.
Linked(w, busy) ==
  /\ w \in Worlds
  /\ \A t \in Things : w.data[t] # None => w.handler[w.data[t]].thing = t
  /\ \A h \in Handlers : w.handler[h] # Free =>
       /\ w.handler[h].thing # None => w.data[w.handler[h].thing] = h
       /\ IF w.handler[h].attached THEN w.handler[h].thing # None ELSE h \in busy

\* The setup that t has a source in; 0 for none.
Source(w, t) ==
  IF w.data[t] # None /\ w.handler[w.data[t]].attached THEN w.handler[w.data[t]].setup ELSE 0

\* The source of t is now in s, and the others are where they were.
Becomes(w, v, t, s) ==
  /\ Linked(v, Busy)
  /\ \A x \in Things : Source(v, x) = IF x = t THEN s ELSE Source(w, x)

\* The structures that can be allocated.
Spare(w) == {h \in Handlers \ Busy : w.handler[h] = Free}

--------------------------------------------------------------------------------
(* One handler *)

\* What a record of a handler may be.
LEMMA RecordShape ==
  ASSUME NEW r \in Records
  PROVE  /\ r = [setup |-> r.setup, thing |-> r.thing, attached |-> r.attached]
         /\ r.thing \in Things \union {None} /\ r.attached \in BOOLEAN
         /\ r.setup \in Setups \union {0}
         /\ r # Free => r.setup \in Setups
         /\ r.thing # None \/ r.attached => r # Free
         /\ None \notin Things
         /\ r # Free => [r EXCEPT !.attached = FALSE] \in Records
                        /\ [r EXCEPT !.thing = None] \in Records
<1>1. None \notin Things
  BY MainLoopAssumption
<1>2. CASE r = Free
  BY <1>1, <1>2 DEF Free
<1>3. CASE r # Free
  <2>1. r \in [setup : Setups, thing : Things \union {None}, attached : BOOLEAN]
    BY <1>3 DEF Records
  <2>2. /\ [r EXCEPT !.attached = FALSE]
             \in [setup : Setups, thing : Things \union {None}, attached : BOOLEAN]
        /\ [r EXCEPT !.thing = None]
             \in [setup : Setups, thing : Things \union {None}, attached : BOOLEAN]
    BY <2>1
  <2>3. [r EXCEPT !.attached = FALSE] \in Records /\ [r EXCEPT !.thing = None] \in Records
    BY <2>2 DEF Records
  <2> QED
    BY <1>1, <1>3, <2>1, <2>3
<1> QED
  BY <1>2, <1>3

\* A world in which one handler is another one.
LEMMA HandlerChanged ==
  ASSUME NEW w \in Worlds, NEW h \in Handlers, NEW r \in Records
  PROVE  /\ [w EXCEPT !.handler[h] = r] \in Worlds
         /\ [w EXCEPT !.handler[h] = r].data = w.data
         /\ [w EXCEPT !.handler[h] = r].handler[h] = r
         /\ \A g \in Handlers : g # h => [w EXCEPT !.handler[h] = r].handler[g] = w.handler[g]
BY DEF Worlds

\* A world in which one thing has another handler.
LEMMA DataChanged ==
  ASSUME NEW w \in Worlds, NEW t \in Things, NEW h \in Handlers \union {None}
  PROVE  /\ [w EXCEPT !.data[t] = h] \in Worlds
         /\ [w EXCEPT !.data[t] = h].handler = w.handler
         /\ [w EXCEPT !.data[t] = h].data[t] = h
         /\ \A x \in Things : x # t => [w EXCEPT !.data[t] = h].data[x] = w.data[x]
BY DEF Worlds

\* io_handler_destroy_source: the handler is off; it stays if it is in use.
LEMMA DestroyedShape ==
  ASSUME NEW w \in Worlds, NEW h \in Handlers, w.handler[h] # Free,
         ~w.handler[h].attached => h \in Busy,
         NEW v, v = SourceDestroyed(w, h)
  PROVE  /\ v \in Worlds
         /\ \A g \in Handlers : g # h => v.handler[g] = w.handler[g]
         /\ \/ /\ v.handler[h] = [w.handler[h] EXCEPT !.attached = FALSE] /\ h \in Busy
               /\ v.data = w.data
            \/ /\ v.handler[h] = Free
               /\ w.handler[h].thing = None => v.data = w.data
               /\ w.handler[h].thing # None =>
                    /\ v.data[w.handler[h].thing] = None
                    /\ \A x \in Things : x # w.handler[h].thing => v.data[x] = w.data[x]
<1> DEFINE r == w.handler[h]
           off == [w EXCEPT !.handler[h].attached = FALSE]
           t == r.thing
<1>1. r \in Records
  BY DEF Worlds
<1>2. /\ r.thing \in Things \union {None} /\ None \notin Things
      /\ [r EXCEPT !.attached = FALSE] \in Records
      /\ [r EXCEPT !.attached = FALSE].thing = t
      /\ r.attached = FALSE => [r EXCEPT !.attached = FALSE] = r
      /\ r.attached \in BOOLEAN
  <2>1. r = [setup |-> r.setup, thing |-> r.thing, attached |-> r.attached]
    BY <1>1, RecordShape
  <2> HIDE DEF r
  <2>2. [r EXCEPT !.attached = FALSE].thing = t
    BY <2>1
  <2>3. r.attached = FALSE => [r EXCEPT !.attached = FALSE] = r
    BY <2>1
  <2>4. r # Free
    BY DEF r
  <2> QED
    BY <1>1, <2>2, <2>3, <2>4, RecordShape
<1>3. off = [w EXCEPT !.handler[h] = [r EXCEPT !.attached = FALSE]]
  BY DEF Worlds
<1>4. /\ off \in Worlds /\ off.data = w.data
      /\ off.handler[h] = [r EXCEPT !.attached = FALSE]
      /\ \A g \in Handlers : g # h => off.handler[g] = w.handler[g]
  <2> DEFINE down == [r EXCEPT !.attached = FALSE]
             changed == [w EXCEPT !.handler[h] = down]
  <2>1. down \in Records /\ off = changed
    BY <1>2, <1>3
  <2> HIDE DEF down, r, off
  <2>2. /\ changed \in Worlds /\ changed.data = w.data
        /\ changed.handler[h] = down
        /\ \A g \in Handlers : g # h => changed.handler[g] = w.handler[g]
    BY <2>1, HandlerChanged
  <2> HIDE DEF changed
  <2> QED
    BY <2>1, <2>2 DEF down
<1>5. CASE ~r.attached
  <2>1. v = w
    BY <1>5 DEF SourceDestroyed
  <2> QED
    BY <1>2, <1>5, <2>1
<1>6. CASE r.attached /\ h \in Busy
  <2>1. v = off
    BY <1>6 DEF SourceDestroyed
  <2> HIDE DEF off
  <2> QED
    BY <1>4, <1>6, <2>1
<1>7. CASE r.attached /\ h \notin Busy
  <2>1. v = Finalized(off, h)
    BY <1>7 DEF SourceDestroyed
  <2>2. off.handler[h].thing = t
    BY <1>2, <1>4
  <2> HIDE DEF off
  <2> DEFINE freed == [off EXCEPT !.handler[h] = Free]
  <2>3. Free \in Records
    BY DEF Records
  <2>4. /\ freed \in Worlds /\ freed.data = w.data /\ freed.handler[h] = Free
        /\ \A g \in Handlers : g # h => freed.handler[g] = w.handler[g]
    BY <1>4, <2>3, HandlerChanged
  <2>5. CASE t = None
    <3>1. v = freed
      BY <2>1, <2>2, <2>5 DEF Finalized
    <3> HIDE DEF freed
    <3> QED
      BY <2>4, <2>5, <3>1
  <2>6. CASE t # None
    <3>1. v = [off EXCEPT !.handler[h] = Free, !.data[t] = None]
      BY <2>1, <2>2, <2>6 DEF Finalized
    <3>2. v = [freed EXCEPT !.data[t] = None]
      BY <3>1, <1>4 DEF Worlds
    <3> HIDE DEF freed
    <3>3. t \in Things
      BY <1>2, <2>6
    <3>4. /\ v \in Worlds /\ v.handler = freed.handler
          /\ v.data[t] = None
          /\ \A x \in Things : x # t => v.data[x] = freed.data[x]
      <4>1. freed \in Worlds /\ None \in Handlers \union {None}
        BY <2>4
      <4> HIDE DEF t
      <4> QED
        BY <3>2, <3>3, <4>1, DataChanged
    <3> QED
      BY <2>4, <2>6, <3>4
  <2> QED
    BY <2>5, <2>6
<1> QED
  BY <1>5, <1>6, <1>7

\* io_handler_watch_freed: the handler forgets its watch, whose data it stays.
LEMMA FreedShape ==
  ASSUME NEW w \in Worlds, NEW h \in Handlers, w.handler[h] # Free,
         ~w.handler[h].attached => h \in Busy,
         NEW v, v = ThingFreed(w, h)
  PROVE  /\ v \in Worlds /\ v.data = w.data
         /\ \A g \in Handlers : g # h => v.handler[g] = w.handler[g]
         /\ v.handler[h] # Free => h \in Busy
         /\ v.handler[h].thing = None /\ ~v.handler[h].attached
<1> DEFINE r == w.handler[h]
           u == [w EXCEPT !.handler[h].thing = None]
           s == [r EXCEPT !.thing = None]
<1>1. r \in Records
  BY DEF Worlds
<1>2. /\ s \in Records /\ s.thing = None /\ s.attached = r.attached /\ s # Free
      /\ [s EXCEPT !.attached = FALSE].thing = None
      /\ [s EXCEPT !.attached = FALSE].attached = FALSE
  <2>1. r = [setup |-> r.setup, thing |-> r.thing, attached |-> r.attached]
    BY <1>1, RecordShape
  <2>2. r # Free
    OBVIOUS
  <2>3. r.setup \in Setups
    BY <1>1, <2>2, RecordShape
  <2> HIDE DEF r
  <2>4. s.thing = None /\ s.attached = r.attached /\ s.setup = r.setup
    BY <2>1
  <2>5. s # Free
    BY <2>3, <2>4 DEF Free, Setups
  <2>6. /\ [s EXCEPT !.attached = FALSE].thing = None
        /\ [s EXCEPT !.attached = FALSE].attached = FALSE
    BY <2>1
  <2> QED
    BY <1>1, <2>2, <2>4, <2>5, <2>6, RecordShape
<1>3. u = [w EXCEPT !.handler[h] = s]
  BY DEF Worlds
<1>4. /\ u \in Worlds /\ u.data = w.data /\ u.handler[h] = s
      /\ \A g \in Handlers : g # h => u.handler[g] = w.handler[g]
  <2>1. s \in Records
    BY <1>2
  <2> HIDE DEF s, u
  <2> QED
    BY <1>3, <2>1, HandlerChanged
<1>5. v = SourceDestroyed(u, h)
  BY DEF ThingFreed
<1> HIDE DEF u, s
<1>6. /\ v \in Worlds
      /\ \A g \in Handlers : g # h => v.handler[g] = u.handler[g]
      /\ \/ v.handler[h] = [s EXCEPT !.attached = FALSE] /\ h \in Busy /\ v.data = u.data
         \/ v.handler[h] = Free /\ v.data = u.data
  <2>1. u.handler[h] # Free /\ (~u.handler[h].attached => h \in Busy)
    BY <1>2, <1>4
  <2>2. u.handler[h].thing = None
    BY <1>2, <1>4
  <2> QED
    BY <1>4, <1>5, <2>1, <2>2, DestroyedShape
<1>7. Free.thing = None /\ Free.attached = FALSE
  BY DEF Free
<1> QED
  BY <1>2, <1>4, <1>6, <1>7

\* dbus_watch_set_data: the handler that was the data is told.
LEMMA DataSetShape ==
  ASSUME NEW w \in Worlds, NEW t \in Things, NEW h \in Handlers \union {None},
         w.data[t] # None =>
           /\ w.handler[w.data[t]] # Free
           /\ ~w.handler[w.data[t]].attached => w.data[t] \in Busy,
         NEW v, v = DataSet(w, t, h)
  PROVE  /\ v \in Worlds
         /\ v.data[t] = h
         /\ \A x \in Things : x # t => v.data[x] = w.data[x]
         /\ \A g \in Handlers : g # w.data[t] => v.handler[g] = w.handler[g]
         /\ w.data[t] # None =>
              LET g == w.data[t]
              IN  /\ g \in Handlers
                  /\ v.handler[g] # Free => g \in Busy
                  /\ v.handler[g].thing = None /\ ~v.handler[g].attached
<1>1. w.data[t] \in Handlers \union {None} /\ None \notin Handlers
  BY MainLoopAssumption DEF Worlds
<1> DEFINE freed == IF w.data[t] = None THEN w ELSE ThingFreed(w, w.data[t])
<1>2. v = [freed EXCEPT !.data[t] = h]
  BY DEF DataSet
<1>3. /\ freed \in Worlds /\ freed.data = w.data
      /\ \A g \in Handlers : g # w.data[t] => freed.handler[g] = w.handler[g]
      /\ w.data[t] # None =>
           LET g == w.data[t]
           IN  /\ g \in Handlers
               /\ freed.handler[g] # Free => g \in Busy
               /\ freed.handler[g].thing = None /\ ~freed.handler[g].attached
  <2>1. CASE w.data[t] = None
    BY <2>1
  <2>2. CASE w.data[t] # None
    <3>1. freed = ThingFreed(w, w.data[t]) /\ w.data[t] \in Handlers
      BY <1>1, <2>2
    <3> HIDE DEF freed
    <3> QED
      BY <2>2, <3>1, FreedShape
  <2> QED
    BY <2>1, <2>2
<1> HIDE DEF freed
<1>4. /\ v \in Worlds /\ v.handler = freed.handler /\ v.data[t] = h
      /\ \A x \in Things : x # t => v.data[x] = freed.data[x]
  BY <1>2, <1>3, DataChanged
<1> QED
  BY <1>3, <1>4

--------------------------------------------------------------------------------
(* One thing: where its source is afterwards *)

\* What the handlers and things of a linked world may be.
LEMMA LinkedShape ==
  ASSUME NEW w, Linked(w, Busy)
  PROVE  /\ w \in Worlds
         /\ None \notin Things /\ None \notin Handlers
         /\ \A t \in Things : w.data[t] # None =>
              /\ w.data[t] \in Handlers
              /\ w.handler[w.data[t]] # Free /\ w.handler[w.data[t]].thing = t
              /\ ~w.handler[w.data[t]].attached => w.data[t] \in Busy
         /\ \A h \in Handlers : w.handler[h] # Free /\ ~w.handler[h].attached => h \in Busy
         /\ \A h \in Handlers : w.handler[h].thing # None =>
              w.handler[h] # Free /\ w.handler[h].thing \in Things
              /\ w.data[w.handler[h].thing] = h
         /\ \A h \in Handlers : w.handler[h].attached =>
              w.handler[h] # Free /\ w.handler[h].thing # None
         /\ Free.thing = None /\ ~Free.attached
<1>1. None \notin Things /\ None \notin Handlers
  BY MainLoopAssumption
<1>2. Free.thing = None /\ ~Free.attached
  BY DEF Free
<1>3. w \in Worlds
  BY DEF Linked
<1>4. \A h \in Handlers : w.handler[h].thing \in Things \union {None}
  BY <1>3, RecordShape DEF Worlds
<1>5. \A t \in Things : w.data[t] \in Handlers \union {None}
  BY <1>3 DEF Worlds
<1> QED
  BY <1>1, <1>2, <1>3, <1>4, <1>5 DEF Linked

\* io_handler_destroy_source of a handler with a thing: its thing has no source.
LEMMA Detached ==
  ASSUME NEW w, Linked(w, Busy), NEW h \in Handlers, w.handler[h].thing # None,
         NEW v, v = SourceDestroyed(w, h)
  PROVE  /\ Becomes(w, v, w.handler[h].thing, 0)
         /\ Spare(w) \subseteq Spare(v)
<1> DEFINE t == w.handler[h].thing
<1>1. /\ w \in Worlds /\ None \notin Handlers
      /\ w.handler[h] # Free /\ t \in Things /\ w.data[t] = h
      /\ ~w.handler[h].attached => h \in Busy
  BY LinkedShape
<1>2. /\ v \in Worlds
      /\ \A g \in Handlers : g # h => v.handler[g] = w.handler[g]
      /\ \/ /\ v.handler[h] = [w.handler[h] EXCEPT !.attached = FALSE] /\ h \in Busy
            /\ v.data = w.data
         \/ /\ v.handler[h] = Free
            /\ v.data[t] = None
            /\ \A x \in Things : x # t => v.data[x] = w.data[x]
  BY <1>1, DestroyedShape
<1> DEFINE r == w.handler[h]
           off == [r EXCEPT !.attached = FALSE]
<1>3. off.thing = t /\ off.attached = FALSE
  <2>1. r \in Records
    BY <1>1 DEF Worlds
  <2>2. r = [setup |-> r.setup, thing |-> r.thing, attached |-> r.attached]
    BY <2>1, RecordShape
  <2> HIDE DEF r
  <2>3. off.thing = r.thing /\ off.attached = FALSE
    BY <2>2
  <2> QED
    BY <2>3 DEF r
<1> HIDE DEF off
<1>4. /\ \A x \in Things : x # t => v.data[x] = w.data[x]
      /\ ~v.handler[h].attached
      /\ \/ v.handler[h].thing = t /\ h \in Busy /\ v.data[t] = h
         \/ v.handler[h] = Free /\ v.data[t] = None
  <2>1. CASE v.handler[h] = [w.handler[h] EXCEPT !.attached = FALSE] /\ h \in Busy /\ v.data = w.data
    <3>1. v.handler[h] = off
      BY <2>1 DEF off
    <3> QED
      BY <1>1, <1>3, <2>1, <3>1
  <2>2. CASE v.handler[h] = Free /\ v.data[t] = None /\ \A x \in Things : x # t => v.data[x] = w.data[x]
    BY <2>2, LinkedShape
  <2> QED
    BY <1>2, <2>1, <2>2
<1> HIDE DEF t
<1>5. Linked(v, Busy)
  <2>1. ASSUME NEW x \in Things, v.data[x] # None
        PROVE  v.handler[v.data[x]].thing = x
    <3>1. CASE x = t
      BY <1>4, <2>1, <3>1
    <3>2. CASE x # t
      <4>1. v.data[x] = w.data[x]
        BY <1>4, <3>2
      <4>2. w.data[x] \in Handlers /\ w.handler[w.data[x]].thing = x
        BY <2>1, <4>1, LinkedShape
      <4>3. w.data[x] # h
        BY <3>2, <4>2 DEF t
      <4> QED
        BY <1>2, <4>1, <4>2, <4>3
    <3> QED
      BY <3>1, <3>2
  <2>2. ASSUME NEW g \in Handlers, v.handler[g] # Free
        PROVE  /\ v.handler[g].thing # None => v.data[v.handler[g].thing] = g
               /\ IF v.handler[g].attached THEN v.handler[g].thing # None ELSE g \in Busy
    <3>1. CASE g = h
      BY <1>4, <2>2, <3>1
    <3>2. CASE g # h
      <4>1. v.handler[g] = w.handler[g]
        BY <1>2, <3>2
      <4>2. IF w.handler[g].attached THEN w.handler[g].thing # None ELSE g \in Busy
        BY <2>2, <4>1, LinkedShape
      <4>3. w.handler[g].thing # None =>
              w.handler[g].thing \in Things /\ w.data[w.handler[g].thing] = g
        BY LinkedShape
      <4>4. w.handler[g].thing # None => w.handler[g].thing # t
        BY <1>1, <3>2, <4>3 DEF t
      <4> QED
        BY <1>4, <4>1, <4>2, <4>3, <4>4
    <3> QED
      BY <3>1, <3>2
  <2> QED
    BY <1>2, <2>1, <2>2 DEF Linked
<1>6. ASSUME NEW x \in Things
      PROVE  Source(v, x) = IF x = t THEN 0 ELSE Source(w, x)
  <2>1. CASE x = t
    BY <1>4, <2>1 DEF Source
  <2>2. CASE x # t
    <3>1. v.data[x] = w.data[x]
      BY <1>4, <2>2
    <3>2. w.data[x] # None => w.data[x] \in Handlers /\ w.data[x] # h
      BY <2>2, LinkedShape DEF t
    <3>3. w.data[x] # None => v.handler[w.data[x]] = w.handler[w.data[x]]
      BY <1>2, <3>2
    <3> QED
      BY <2>2, <3>1, <3>3 DEF Source
  <2> QED
    BY <2>1, <2>2
<1>7. Spare(w) \subseteq Spare(v)
  BY <1>1, <1>2 DEF Spare
<1> QED
  BY <1>5, <1>6, <1>7 DEF Becomes, t

\* dbus_watch_set_data to NULL: the watch has no source.
LEMMA Unset ==
  ASSUME NEW w, Linked(w, Busy), NEW t \in Things,
         NEW v, v = DataSet(w, t, None)
  PROVE  /\ Becomes(w, v, t, 0) /\ v.data[t] = None
         /\ Spare(w) \subseteq Spare(v)
<1>1. w \in Worlds /\ None \notin Handlers
  BY LinkedShape
<1>2. /\ v \in Worlds
      /\ v.data[t] = None
      /\ \A x \in Things : x # t => v.data[x] = w.data[x]
      /\ \A g \in Handlers : g # w.data[t] => v.handler[g] = w.handler[g]
      /\ w.data[t] # None =>
           LET g == w.data[t]
           IN  /\ g \in Handlers
               /\ v.handler[g] # Free => g \in Busy
               /\ v.handler[g].thing = None /\ ~v.handler[g].attached
  <2>1. w.data[t] # None =>
           /\ w.handler[w.data[t]] # Free
           /\ ~w.handler[w.data[t]].attached => w.data[t] \in Busy
    BY LinkedShape
  <2> QED
    BY <1>1, <2>1, DataSetShape
<1>3. \A x \in Things : x # t /\ w.data[x] # None =>
        w.data[x] \in Handlers /\ w.handler[w.data[x]].thing = x /\ w.data[x] # w.data[t]
  BY LinkedShape
<1>4. Linked(v, Busy)
  <2>1. ASSUME NEW x \in Things, v.data[x] # None
        PROVE  v.handler[v.data[x]].thing = x
    BY <1>2, <1>3, <2>1
  <2>2. ASSUME NEW g \in Handlers, v.handler[g] # Free
        PROVE  /\ v.handler[g].thing # None => v.data[v.handler[g].thing] = g
               /\ IF v.handler[g].attached THEN v.handler[g].thing # None ELSE g \in Busy
    <3>1. CASE g = w.data[t]
      BY <1>1, <1>2, <2>2, <3>1
    <3>2. CASE g # w.data[t]
      <4>1. v.handler[g] = w.handler[g]
        BY <1>2, <3>2
      <4>2. IF w.handler[g].attached THEN w.handler[g].thing # None ELSE g \in Busy
        BY <2>2, <4>1, LinkedShape
      <4>3. w.handler[g].thing # None =>
              w.handler[g].thing \in Things /\ w.data[w.handler[g].thing] = g
        BY LinkedShape
      <4>4. w.handler[g].thing # None => w.handler[g].thing # t
        BY <3>2, <4>3
      <4> QED
        BY <1>2, <4>1, <4>2, <4>3, <4>4
    <3> QED
      BY <3>1, <3>2
  <2> QED
    BY <1>2, <2>1, <2>2 DEF Linked
<1>5. \A x \in Things : Source(v, x) = IF x = t THEN 0 ELSE Source(w, x)
  BY <1>2, <1>3 DEF Source
<1>6. Spare(w) \subseteq Spare(v)
  <2>1. w.data[t] # None => w.handler[w.data[t]] # Free
    BY LinkedShape
  <2> QED
    BY <1>1, <1>2, <2>1 DEF Spare
<1> QED
  BY <1>2, <1>4, <1>5, <1>6 DEF Becomes

\* connection_setup_add_watch: a new handler, in a list of setup s.
LEMMA AttachedTo ==
  ASSUME NEW w, Linked(w, Busy), NEW t \in Things, NEW s \in Setups, Spare(w) # {},
         NEW v, v = Attached(w, t, s)
  PROVE  /\ Becomes(w, v, t, s)
         /\ \E h \in Spare(w) : Spare(w) \ {h} \subseteq Spare(v)
<1> DEFINE h == Unused(w)
           r == [setup |-> s, thing |-> t, attached |-> TRUE]
           u == [w EXCEPT !.handler[h] = r]
<1>1. w \in Worlds /\ None \notin Handlers /\ None \notin Things
  BY LinkedShape
<1>2. h \in Handlers /\ h \notin Busy /\ w.handler[h] = Free
  <2>1. \E g \in Handlers \ Busy : w.handler[g] = Free
    BY DEF Spare
  <2> QED
    BY <2>1 DEF Unused
<1>3. r.setup = s /\ r.thing = t /\ r.attached /\ r # Free /\ r \in Records
  <2>1. s # 0
    BY DEF Setups
  <2>2. r # Free
    BY <2>1 DEF Free
  <2> QED
    BY <2>2 DEF Records
<1>4. v = DataSet(u, t, h)
  BY DEF Attached
<1> HIDE DEF h, r
<1>5. /\ u \in Worlds /\ u.data = w.data /\ u.handler[h] = r
      /\ \A g \in Handlers : g # h => u.handler[g] = w.handler[g]
  BY <1>1, <1>2, <1>3, HandlerChanged
<1> HIDE DEF u
<1>6. \A x \in Things : w.data[x] # None =>
        /\ w.data[x] \in Handlers /\ w.data[x] # h
        /\ w.handler[w.data[x]].thing = x /\ w.handler[w.data[x]] # Free
        /\ ~w.handler[w.data[x]].attached => w.data[x] \in Busy
        /\ x # t => w.data[x] # w.data[t]
  BY <1>2, LinkedShape
<1>7. /\ v \in Worlds
      /\ v.data[t] = h
      /\ \A x \in Things : x # t => v.data[x] = w.data[x]
      /\ \A g \in Handlers : g # w.data[t] => v.handler[g] = u.handler[g]
      /\ w.data[t] # None =>
           LET g == w.data[t]
           IN  /\ g \in Handlers
               /\ v.handler[g] # Free => g \in Busy
               /\ v.handler[g].thing = None /\ ~v.handler[g].attached
  <2>1. u.data[t] # None =>
           /\ u.handler[u.data[t]] # Free
           /\ ~u.handler[u.data[t]].attached => u.data[t] \in Busy
    BY <1>5, <1>6
  <2>2. h \in Handlers \union {None}
    BY <1>2
  <2> QED
    BY <1>4, <1>5, <2>1, <2>2, DataSetShape
<1>8. /\ v.handler[h] = r
      /\ \A g \in Handlers : g # h /\ g # w.data[t] => v.handler[g] = w.handler[g]
      /\ h # None
  BY <1>1, <1>2, <1>5, <1>6, <1>7
<1>9. Linked(v, Busy)
  <2>1. ASSUME NEW x \in Things, v.data[x] # None
        PROVE  v.handler[v.data[x]].thing = x
    BY <1>3, <1>6, <1>7, <1>8, <2>1
  <2>2. ASSUME NEW g \in Handlers, v.handler[g] # Free
        PROVE  /\ v.handler[g].thing # None => v.data[v.handler[g].thing] = g
               /\ IF v.handler[g].attached THEN v.handler[g].thing # None ELSE g \in Busy
    <3>1. CASE g = h
      BY <1>1, <1>3, <1>7, <1>8, <3>1
    <3>2. CASE g # h /\ g = w.data[t]
      BY <1>1, <1>7, <2>2, <3>2
    <3>3. CASE g # h /\ g # w.data[t]
      <4>1. v.handler[g] = w.handler[g]
        BY <1>8, <3>3
      <4>2. IF w.handler[g].attached THEN w.handler[g].thing # None ELSE g \in Busy
        BY <2>2, <4>1, LinkedShape
      <4>3. w.handler[g].thing # None =>
              w.handler[g].thing \in Things /\ w.data[w.handler[g].thing] = g
        BY LinkedShape
      <4>4. w.handler[g].thing # None => w.handler[g].thing # t
        BY <3>3, <4>3
      <4> QED
        BY <1>7, <4>1, <4>2, <4>3, <4>4
    <3> QED
      BY <3>1, <3>2, <3>3
  <2> QED
    BY <1>7, <2>1, <2>2 DEF Linked
<1>10. \A x \in Things : Source(v, x) = IF x = t THEN s ELSE Source(w, x)
  <2>1. Source(v, t) = s
    BY <1>3, <1>7, <1>8 DEF Source
  <2>2. ASSUME NEW x \in Things, x # t
        PROVE  Source(v, x) = Source(w, x)
    <3>1. v.data[x] = w.data[x]
      BY <1>7, <2>2
    <3>2. w.data[x] # None => v.handler[w.data[x]] = w.handler[w.data[x]]
      BY <1>6, <1>8, <2>2
    <3> QED
      BY <3>1, <3>2 DEF Source
  <2> QED
    BY <2>1, <2>2
<1>11. h \in Spare(w) /\ Spare(w) \ {h} \subseteq Spare(v)
  BY <1>1, <1>2, <1>6, <1>8 DEF Spare
<1> QED
  BY <1>9, <1>10, <1>11 DEF Becomes

\* connection_setup_remove_watch, connection_setup_remove_timeout.
LEMMA RemovedFrom ==
  ASSUME NEW w, Linked(w, Busy), NEW t \in Things, NEW s,
         NEW v, v = Removed(w, t, s)
  PROVE  /\ Becomes(w, v, t, IF t \in Watches /\ Source(w, t) # s THEN Source(w, t) ELSE 0)
         /\ Spare(w) \subseteq Spare(v)
<1>1. CASE w.data[t] = None \/ (t \in Watches /\ w.handler[w.data[t]].setup # s)
  <2>1. v = w
    BY <1>1 DEF Removed
  <2> QED
    BY <1>1, <2>1 DEF Becomes, Source
<1>2. CASE ~(w.data[t] = None \/ (t \in Watches /\ w.handler[w.data[t]].setup # s))
  <2>1. w.data[t] \in Handlers /\ w.handler[w.data[t]].thing = t /\ t # None
    BY <1>2, LinkedShape
  <2>2. v = SourceDestroyed(w, w.data[t])
    BY <1>2 DEF Removed
  <2>3. Becomes(w, v, t, 0) /\ Spare(w) \subseteq Spare(v)
    BY <2>1, <2>2, Detached
  <2> QED
    BY <1>2, <2>3 DEF Becomes, Source
<1> QED
  BY <1>1, <1>2

--------------------------------------------------------------------------------
(* The loops.  The result of one is in I with all it went through when the    *)
(* start is in I with nothing, and each round keeps to I.                     *)

AddedAll(w, s) == FoldSet(LAMBDA t, v : Added(v, t, s), w, known)
RemovedAll(w, s) == FoldSet(LAMBDA t, v : Removed(v, t, s), w, known)
UnsetAll(w) == FoldSet(LAMBDA t, v : DataSet(Removed(v, t, setup), t, None), w, known)

\* connection_setup_new_from_old.
LEMMA MovedFold ==
  ASSUME NEW w, NEW old, NEW s, NEW S, S = ListedFor(w, old), IsFiniteSet(S),
         NEW I \in SUBSET ((SUBSET S) \X Worlds),
         <<{}, w>> \in I,
         \A e \in SUBSET S : \A v \in Worlds :
           LET x == CHOOSE x \in e : TRUE
           IN  e # {} /\ <<e \ {x}, v>> \in I => <<e, Added(v, w.handler[x].thing, s)>> \in I
  PROVE  <<S, Moved(w, old, s)>> \in I
<1> DEFINE ch(e) == CHOOSE x \in e : TRUE
           Op(x, v) == Added(v, w.handler[x].thing, s)
           g == [p \in S \X Worlds |-> Op(p[1], p[2])]
           Folds(f) == f = [e \in SUBSET S |-> IF e = {} THEN w ELSE Op(ch(e), f[e \ {ch(e)}])]
<1>1. \A e \in SUBSET S : \A v :
        e # {} /\ <<e \ {ch(e)}, v>> \in I => <<e, Op(ch(e), v)>> \in I
  OBVIOUS
<1>2. \A e, v : <<e, v>> \in I => v \in Worlds
  OBVIOUS
<1>3. \A e \in SUBSET S : e # {} => ch(e) \in S /\ e \ {ch(e)} \in SUBSET S
  OBVIOUS
<1> HIDE DEF ch, Op
<1>4. PICK f : FoldOf(f, S, w, g)
  BY FoldExists
<1>5. \A e \in SUBSET S :
        f[e] = IF e = {} THEN w ELSE g[<<ch(e), f[e \ {ch(e)}]>>]
  BY <1>4 DEF FoldOf, ch
<1>6. \A e \in SUBSET S : <<e, f[e]>> \in I
  <2> DEFINE T == {e \in SUBSET S : <<e, f[e]>> \in I}
  <2>1. {} \in T
    BY <1>5
  <2>2. ASSUME NEW e \in SUBSET S, e # {}, e \ {ch(e)} \in T
        PROVE  e \in T
    <3>1. <<e \ {ch(e)}, f[e \ {ch(e)}]>> \in I
      BY <2>2
    <3>2. g[<<ch(e), f[e \ {ch(e)}]>>] = Op(ch(e), f[e \ {ch(e)}])
      BY <1>2, <1>3, <2>2, <3>1
    <3> QED
      BY <1>1, <1>5, <2>2, <3>1, <3>2
  <2> HIDE DEF T
  <2>3. SUBSET S \subseteq T
    BY <2>1, <2>2, SubsetInduction DEF ch
  <2> QED
    BY <2>3 DEF T
<1>7. Folds(f)
  <2> DEFINE F == [e \in SUBSET S |-> IF e = {} THEN w ELSE Op(ch(e), f[e \ {ch(e)}])]
  <2>1. f = [e \in SUBSET S |-> f[e]]
    BY <1>4 DEF FoldOf
  <2>2. ASSUME NEW e \in SUBSET S
        PROVE  f[e] = F[e]
    <3>1. CASE e = {}
      BY <1>5, <3>1
    <3>2. CASE e # {}
      <4>1. ch(e) \in S /\ f[e \ {ch(e)}] \in Worlds
        BY <1>2, <1>3, <1>6, <3>2
      <4> QED
        BY <1>5, <3>2, <4>1
    <3> QED
      BY <3>1, <3>2
  <2>3. F = [e \in SUBSET S |-> F[e]]
    OBVIOUS
  <2> HIDE DEF F
  <2>4. f = F
    BY <2>1, <2>2, <2>3
  <2> QED
    BY <2>4 DEF F
<1> DEFINE F == CHOOSE h : Folds(h)
<1>8. Folds(F)
  <2> HIDE DEF Folds
  <2> QED
    BY <1>7
<1>9. Moved(w, old, s) = F[S]
  BY DEF Moved, FoldSet, MapThenFoldSet, Op, ch
<1> HIDE DEF F
<1>10. \A e \in SUBSET S : F[e] = IF e = {} THEN w ELSE Op(ch(e), F[e \ {ch(e)}])
  BY <1>8
<1> HIDE DEF Folds
<1> DEFINE T == {e \in SUBSET S : <<e, F[e]>> \in I}
<1>11. {} \in T
  BY <1>10
<1>12. ASSUME NEW e \in SUBSET S, e # {}, e \ {ch(e)} \in T
       PROVE  e \in T
  BY <1>1, <1>10, <1>12
<1> HIDE DEF T
<1>13. SUBSET S \subseteq T
  BY <1>11, <1>12, SubsetInduction DEF ch
<1>14. <<S, F[S]>> \in I
  BY <1>13 DEF T
<1> QED
  BY <1>9, <1>14

\* dbus_connection_set_watch_functions, the new functions.
LEMMA AddedFold ==
  ASSUME NEW w, NEW s, NEW S, S = known, IsFiniteSet(S),
         NEW I \in SUBSET ((SUBSET S) \X Worlds),
         <<{}, w>> \in I,
         \A e \in SUBSET S : \A v \in Worlds :
           LET x == CHOOSE x \in e : TRUE
           IN  e # {} /\ <<e \ {x}, v>> \in I => <<e, Added(v, x, s)>> \in I
  PROVE  <<S, AddedAll(w, s)>> \in I
<1> DEFINE ch(e) == CHOOSE x \in e : TRUE
           Op(x, v) == Added(v, x, s)
           g == [p \in S \X Worlds |-> Op(p[1], p[2])]
           Folds(f) == f = [e \in SUBSET S |-> IF e = {} THEN w ELSE Op(ch(e), f[e \ {ch(e)}])]
<1>1. \A e \in SUBSET S : \A v :
        e # {} /\ <<e \ {ch(e)}, v>> \in I => <<e, Op(ch(e), v)>> \in I
  OBVIOUS
<1>2. \A e, v : <<e, v>> \in I => v \in Worlds
  OBVIOUS
<1>3. \A e \in SUBSET S : e # {} => ch(e) \in S /\ e \ {ch(e)} \in SUBSET S
  OBVIOUS
<1> HIDE DEF ch, Op
<1>4. PICK f : FoldOf(f, S, w, g)
  BY FoldExists
<1>5. \A e \in SUBSET S :
        f[e] = IF e = {} THEN w ELSE g[<<ch(e), f[e \ {ch(e)}]>>]
  BY <1>4 DEF FoldOf, ch
<1>6. \A e \in SUBSET S : <<e, f[e]>> \in I
  <2> DEFINE T == {e \in SUBSET S : <<e, f[e]>> \in I}
  <2>1. {} \in T
    BY <1>5
  <2>2. ASSUME NEW e \in SUBSET S, e # {}, e \ {ch(e)} \in T
        PROVE  e \in T
    <3>1. <<e \ {ch(e)}, f[e \ {ch(e)}]>> \in I
      BY <2>2
    <3>2. g[<<ch(e), f[e \ {ch(e)}]>>] = Op(ch(e), f[e \ {ch(e)}])
      BY <1>2, <1>3, <2>2, <3>1
    <3> QED
      BY <1>1, <1>5, <2>2, <3>1, <3>2
  <2> HIDE DEF T
  <2>3. SUBSET S \subseteq T
    BY <2>1, <2>2, SubsetInduction DEF ch
  <2> QED
    BY <2>3 DEF T
<1>7. Folds(f)
  <2> DEFINE F == [e \in SUBSET S |-> IF e = {} THEN w ELSE Op(ch(e), f[e \ {ch(e)}])]
  <2>1. f = [e \in SUBSET S |-> f[e]]
    BY <1>4 DEF FoldOf
  <2>2. ASSUME NEW e \in SUBSET S
        PROVE  f[e] = F[e]
    <3>1. CASE e = {}
      BY <1>5, <3>1
    <3>2. CASE e # {}
      <4>1. ch(e) \in S /\ f[e \ {ch(e)}] \in Worlds
        BY <1>2, <1>3, <1>6, <3>2
      <4> QED
        BY <1>5, <3>2, <4>1
    <3> QED
      BY <3>1, <3>2
  <2>3. F = [e \in SUBSET S |-> F[e]]
    OBVIOUS
  <2> HIDE DEF F
  <2>4. f = F
    BY <2>1, <2>2, <2>3
  <2> QED
    BY <2>4 DEF F
<1> DEFINE F == CHOOSE h : Folds(h)
<1>8. Folds(F)
  <2> HIDE DEF Folds
  <2> QED
    BY <1>7
<1>9. AddedAll(w, s) = F[S]
  BY DEF AddedAll, FoldSet, MapThenFoldSet, Op, ch
<1> HIDE DEF F
<1>10. \A e \in SUBSET S : F[e] = IF e = {} THEN w ELSE Op(ch(e), F[e \ {ch(e)}])
  BY <1>8
<1> HIDE DEF Folds
<1> DEFINE T == {e \in SUBSET S : <<e, F[e]>> \in I}
<1>11. {} \in T
  BY <1>10
<1>12. ASSUME NEW e \in SUBSET S, e # {}, e \ {ch(e)} \in T
       PROVE  e \in T
  BY <1>1, <1>10, <1>12
<1> HIDE DEF T
<1>13. SUBSET S \subseteq T
  BY <1>11, <1>12, SubsetInduction DEF ch
<1>14. <<S, F[S]>> \in I
  BY <1>13 DEF T
<1> QED
  BY <1>9, <1>14

\* dbus_connection_set_watch_functions, the old functions.
LEMMA RemovedFold ==
  ASSUME NEW w, NEW s, NEW S, S = known, IsFiniteSet(S),
         NEW I \in SUBSET ((SUBSET S) \X Worlds),
         <<{}, w>> \in I,
         \A e \in SUBSET S : \A v \in Worlds :
           LET x == CHOOSE x \in e : TRUE
           IN  e # {} /\ <<e \ {x}, v>> \in I => <<e, Removed(v, x, s)>> \in I
  PROVE  <<S, RemovedAll(w, s)>> \in I
<1> DEFINE ch(e) == CHOOSE x \in e : TRUE
           Op(x, v) == Removed(v, x, s)
           g == [p \in S \X Worlds |-> Op(p[1], p[2])]
           Folds(f) == f = [e \in SUBSET S |-> IF e = {} THEN w ELSE Op(ch(e), f[e \ {ch(e)}])]
<1>1. \A e \in SUBSET S : \A v :
        e # {} /\ <<e \ {ch(e)}, v>> \in I => <<e, Op(ch(e), v)>> \in I
  OBVIOUS
<1>2. \A e, v : <<e, v>> \in I => v \in Worlds
  OBVIOUS
<1>3. \A e \in SUBSET S : e # {} => ch(e) \in S /\ e \ {ch(e)} \in SUBSET S
  OBVIOUS
<1> HIDE DEF ch, Op
<1>4. PICK f : FoldOf(f, S, w, g)
  BY FoldExists
<1>5. \A e \in SUBSET S :
        f[e] = IF e = {} THEN w ELSE g[<<ch(e), f[e \ {ch(e)}]>>]
  BY <1>4 DEF FoldOf, ch
<1>6. \A e \in SUBSET S : <<e, f[e]>> \in I
  <2> DEFINE T == {e \in SUBSET S : <<e, f[e]>> \in I}
  <2>1. {} \in T
    BY <1>5
  <2>2. ASSUME NEW e \in SUBSET S, e # {}, e \ {ch(e)} \in T
        PROVE  e \in T
    <3>1. <<e \ {ch(e)}, f[e \ {ch(e)}]>> \in I
      BY <2>2
    <3>2. g[<<ch(e), f[e \ {ch(e)}]>>] = Op(ch(e), f[e \ {ch(e)}])
      BY <1>2, <1>3, <2>2, <3>1
    <3> QED
      BY <1>1, <1>5, <2>2, <3>1, <3>2
  <2> HIDE DEF T
  <2>3. SUBSET S \subseteq T
    BY <2>1, <2>2, SubsetInduction DEF ch
  <2> QED
    BY <2>3 DEF T
<1>7. Folds(f)
  <2> DEFINE F == [e \in SUBSET S |-> IF e = {} THEN w ELSE Op(ch(e), f[e \ {ch(e)}])]
  <2>1. f = [e \in SUBSET S |-> f[e]]
    BY <1>4 DEF FoldOf
  <2>2. ASSUME NEW e \in SUBSET S
        PROVE  f[e] = F[e]
    <3>1. CASE e = {}
      BY <1>5, <3>1
    <3>2. CASE e # {}
      <4>1. ch(e) \in S /\ f[e \ {ch(e)}] \in Worlds
        BY <1>2, <1>3, <1>6, <3>2
      <4> QED
        BY <1>5, <3>2, <4>1
    <3> QED
      BY <3>1, <3>2
  <2>3. F = [e \in SUBSET S |-> F[e]]
    OBVIOUS
  <2> HIDE DEF F
  <2>4. f = F
    BY <2>1, <2>2, <2>3
  <2> QED
    BY <2>4 DEF F
<1> DEFINE F == CHOOSE h : Folds(h)
<1>8. Folds(F)
  <2> HIDE DEF Folds
  <2> QED
    BY <1>7
<1>9. RemovedAll(w, s) = F[S]
  BY DEF RemovedAll, FoldSet, MapThenFoldSet, Op, ch
<1> HIDE DEF F
<1>10. \A e \in SUBSET S : F[e] = IF e = {} THEN w ELSE Op(ch(e), F[e \ {ch(e)}])
  BY <1>8
<1> HIDE DEF Folds
<1> DEFINE T == {e \in SUBSET S : <<e, F[e]>> \in I}
<1>11. {} \in T
  BY <1>10
<1>12. ASSUME NEW e \in SUBSET S, e # {}, e \ {ch(e)} \in T
       PROVE  e \in T
  BY <1>1, <1>10, <1>12
<1> HIDE DEF T
<1>13. SUBSET S \subseteq T
  BY <1>11, <1>12, SubsetInduction DEF ch
<1>14. <<S, F[S]>> \in I
  BY <1>13 DEF T
<1> QED
  BY <1>9, <1>14

\* The connection is finalized.
LEMMA UnsetFold ==
  ASSUME NEW w, NEW S, S = known, IsFiniteSet(S),
         NEW I \in SUBSET ((SUBSET S) \X Worlds),
         <<{}, w>> \in I,
         \A e \in SUBSET S : \A v \in Worlds :
           LET x == CHOOSE x \in e : TRUE
           IN  e # {} /\ <<e \ {x}, v>> \in I => <<e, DataSet(Removed(v, x, setup), x, None)>> \in I
  PROVE  <<S, UnsetAll(w)>> \in I
<1> DEFINE ch(e) == CHOOSE x \in e : TRUE
           Op(x, v) == DataSet(Removed(v, x, setup), x, None)
           g == [p \in S \X Worlds |-> Op(p[1], p[2])]
           Folds(f) == f = [e \in SUBSET S |-> IF e = {} THEN w ELSE Op(ch(e), f[e \ {ch(e)}])]
<1>1. \A e \in SUBSET S : \A v :
        e # {} /\ <<e \ {ch(e)}, v>> \in I => <<e, Op(ch(e), v)>> \in I
  OBVIOUS
<1>2. \A e, v : <<e, v>> \in I => v \in Worlds
  OBVIOUS
<1>3. \A e \in SUBSET S : e # {} => ch(e) \in S /\ e \ {ch(e)} \in SUBSET S
  OBVIOUS
<1> HIDE DEF ch, Op
<1>4. PICK f : FoldOf(f, S, w, g)
  BY FoldExists
<1>5. \A e \in SUBSET S :
        f[e] = IF e = {} THEN w ELSE g[<<ch(e), f[e \ {ch(e)}]>>]
  BY <1>4 DEF FoldOf, ch
<1>6. \A e \in SUBSET S : <<e, f[e]>> \in I
  <2> DEFINE T == {e \in SUBSET S : <<e, f[e]>> \in I}
  <2>1. {} \in T
    BY <1>5
  <2>2. ASSUME NEW e \in SUBSET S, e # {}, e \ {ch(e)} \in T
        PROVE  e \in T
    <3>1. <<e \ {ch(e)}, f[e \ {ch(e)}]>> \in I
      BY <2>2
    <3>2. g[<<ch(e), f[e \ {ch(e)}]>>] = Op(ch(e), f[e \ {ch(e)}])
      BY <1>2, <1>3, <2>2, <3>1
    <3> QED
      BY <1>1, <1>5, <2>2, <3>1, <3>2
  <2> HIDE DEF T
  <2>3. SUBSET S \subseteq T
    BY <2>1, <2>2, SubsetInduction DEF ch
  <2> QED
    BY <2>3 DEF T
<1>7. Folds(f)
  <2> DEFINE F == [e \in SUBSET S |-> IF e = {} THEN w ELSE Op(ch(e), f[e \ {ch(e)}])]
  <2>1. f = [e \in SUBSET S |-> f[e]]
    BY <1>4 DEF FoldOf
  <2>2. ASSUME NEW e \in SUBSET S
        PROVE  f[e] = F[e]
    <3>1. CASE e = {}
      BY <1>5, <3>1
    <3>2. CASE e # {}
      <4>1. ch(e) \in S /\ f[e \ {ch(e)}] \in Worlds
        BY <1>2, <1>3, <1>6, <3>2
      <4> QED
        BY <1>5, <3>2, <4>1
    <3> QED
      BY <3>1, <3>2
  <2>3. F = [e \in SUBSET S |-> F[e]]
    OBVIOUS
  <2> HIDE DEF F
  <2>4. f = F
    BY <2>1, <2>2, <2>3
  <2> QED
    BY <2>4 DEF F
<1> DEFINE F == CHOOSE h : Folds(h)
<1>8. Folds(F)
  <2> HIDE DEF Folds
  <2> QED
    BY <1>7
<1>9. UnsetAll(w) = F[S]
  BY DEF UnsetAll, FoldSet, MapThenFoldSet, Op, ch
<1> HIDE DEF F
<1>10. \A e \in SUBSET S : F[e] = IF e = {} THEN w ELSE Op(ch(e), F[e \ {ch(e)}])
  BY <1>8
<1> HIDE DEF Folds
<1> DEFINE T == {e \in SUBSET S : <<e, F[e]>> \in I}
<1>11. {} \in T
  BY <1>10
<1>12. ASSUME NEW e \in SUBSET S, e # {}, e \ {ch(e)} \in T
       PROVE  e \in T
  BY <1>1, <1>10, <1>12
<1> HIDE DEF T
<1>13. SUBSET S \subseteq T
  BY <1>11, <1>12, SubsetInduction DEF ch
<1>14. <<S, F[S]>> \in I
  BY <1>13 DEF T
<1> QED
  BY <1>9, <1>14

\* connection_setup_free of a setup without handlers.
LEMMA NothingFreed ==
  ASSUME NEW w, NEW s, ListedFor(w, s) = {}
  PROVE  SetupFreed(w, s) = w
<1> DEFINE Folds(f) ==
             f = [e \in SUBSET {} |->
                    IF e = {} THEN w
                    ELSE SourceDestroyed(f[e \ {CHOOSE x \in e : TRUE}], CHOOSE x \in e : TRUE)]
           F == CHOOSE f : Folds(f)
<1>1. Folds([e \in SUBSET {} |-> w])
  OBVIOUS
<1>2. Folds(F)
  <2> HIDE DEF Folds
  <2> QED
    BY <1>1
<1>3. SetupFreed(w, s) = F[{}]
  BY DEF SetupFreed, FoldSet, MapThenFoldSet
<1> HIDE DEF F
<1> QED
  BY <1>2, <1>3

--------------------------------------------------------------------------------
(* The invariant *)

\* Only what is enabled has a source, and only in the setup that monitors the
\* connection; an enabled watch has one.  A timeout may have none.
Placed ==
  /\ enabled \subseteq known
  /\ \A t \in Things : Source(World, t) # 0 =>
       Source(World, t) = setup /\ t \in known \intersect enabled
  /\ setup # 0 => \A t \in Watches \intersect known \intersect enabled : Source(World, t) = setup

\* The setups are numbered as they are made; the last one has the queue.
Numbered ==
  /\ setup <= Len(context)
  /\ queues = {setup} \ {0}

LoopInv == TypeOK /\ Linked(World, Busy) /\ Placed /\ Numbered /\ ~spinning

--------------------------------------------------------------------------------
(* What the loops do *)

LEMMA Counted ==
  /\ IsFiniteSet(Things) /\ Cardinality(Things) \in Nat
  /\ \A w : IsFiniteSet(Spare(w)) /\ Cardinality(Spare(w)) \in Nat
  /\ \A w, s : IsFiniteSet(ListedFor(w, s)) /\ Cardinality(ListedFor(w, s)) \in Nat
  /\ \A w, v : Spare(w) \subseteq Spare(v) => Cardinality(Spare(w)) <= Cardinality(Spare(v))
<1>1. IsFiniteSet(Things) /\ IsFiniteSet(Handlers)
  BY MainLoopAssumption
<1>2. \A T : T \subseteq Handlers => IsFiniteSet(T) /\ Cardinality(T) \in Nat
  BY <1>1, FS_Subset, FS_CardinalityType
<1>3. \A w : Spare(w) \subseteq Handlers
  BY DEF Spare
<1>4. \A w, s : ListedFor(w, s) \subseteq Handlers
  BY DEF ListedFor
<1>5. \A w, v : Spare(w) \subseteq Spare(v) => Cardinality(Spare(w)) <= Cardinality(Spare(v))
  BY <1>2, <1>3, FS_Subset
<1>6. Cardinality(Things) \in Nat
  BY <1>1, FS_CardinalityType
<1> QED
  BY <1>1, <1>2, <1>3, <1>4, <1>5, <1>6

\* connection_setup_add_watch of an enabled watch, with structures to spare.
LEMMA AddedTo ==
  ASSUME NEW w, Linked(w, Busy), NEW t \in Things, t \in enabled, NEW s \in Setups,
         Cardinality(Spare(w)) >= 1,
         NEW v, v = Added(w, t, s)
  PROVE  /\ Becomes(w, v, t, s)
         /\ Cardinality(Spare(v)) >= Cardinality(Spare(w)) - 1
<1>1. Spare(w) # {}
  BY FS_EmptySet
<1>2. v = Attached(w, t, s)
  BY DEF Added
<1>3. Becomes(w, v, t, s)
  BY <1>1, <1>2, AttachedTo
<1>4. PICK h \in Spare(w) : Spare(w) \ {h} \subseteq Spare(v)
  BY <1>1, <1>2, AttachedTo
<1>5. Cardinality(Spare(w) \ {h}) = Cardinality(Spare(w)) - 1
  BY Counted, FS_RemoveElement
<1>6. Cardinality(Spare(w) \ {h}) <= Cardinality(Spare(v))
  BY <1>4, Counted, FS_Subset
<1> QED
  BY <1>3, <1>5, <1>6, Counted

\* The handlers in the lists of a setup are those of the things with a source in it.
LEMMA ListedShape ==
  ASSUME NEW w, Linked(w, Busy), NEW s \in Setups
  PROVE  /\ \A h \in ListedFor(w, s) :
              /\ h \in Handlers /\ w.handler[h].thing \in Things
              /\ w.data[w.handler[h].thing] = h
              /\ Source(w, w.handler[h].thing) = s
         /\ \A t \in Things : Source(w, t) = s =>
              \E h \in ListedFor(w, s) : w.handler[h].thing = t
         /\ Cardinality(ListedFor(w, s)) <= Cardinality(Things)
<1>1. \A h \in ListedFor(w, s) :
        /\ h \in Handlers /\ w.handler[h].thing \in Things
        /\ w.data[w.handler[h].thing] = h
        /\ Source(w, w.handler[h].thing) = s
  BY LinkedShape DEF ListedFor, Source
<1>2. \A t \in Things : Source(w, t) = s => \E h \in ListedFor(w, s) : w.handler[h].thing = t
  <2>1. s # 0
    BY DEF Setups
  <2> QED
    BY <2>1, LinkedShape DEF ListedFor, Source
<1>3. Cardinality(ListedFor(w, s)) <= Cardinality(Things)
  <2> DEFINE f == [h \in ListedFor(w, s) |-> w.handler[h].thing]
  <2> SUFFICES ASSUME Cardinality(Things) < Cardinality(ListedFor(w, s)) PROVE FALSE
    BY Counted
  <2>1. f \in [ListedFor(w, s) -> Things]
    BY <1>1
  <2>2. \E x, y \in ListedFor(w, s) : x # y /\ f[x] = f[y]
    <3> HIDE DEF f
    <3> QED
      BY <2>1, Counted, FS_PigeonHole
  <2> QED
    BY <1>1, <2>2
<1> QED
  BY <1>1, <1>2, <1>3

\* connection_setup_new_from_old: the sources of the old setup are in the new one.
LEMMA MovedSources ==
  ASSUME NEW w, Linked(w, Busy), NEW old \in Setups, NEW s \in Setups,
         ~Spins(w, old), Cardinality(Spare(w)) >= Cardinality(Things),
         NEW v, v = Moved(w, old, s)
  PROVE  /\ Linked(v, Busy)
         /\ \A x \in Things : Source(v, x) = IF Source(w, x) = old THEN s ELSE Source(w, x)
         /\ Cardinality(Spare(v)) >= Cardinality(Spare(w)) - Cardinality(Things)
<1> DEFINE S == ListedFor(w, old)
           Been(e, x) == \E h \in e : w.handler[h].thing = x
           I == {p \in (SUBSET S) \X Worlds :
                   /\ Linked(p[2], Busy)
                   /\ \A x \in Things : Source(p[2], x) = IF Been(p[1], x) THEN s ELSE Source(w, x)
                   /\ Cardinality(Spare(p[2])) >= Cardinality(Spare(w)) - Cardinality(p[1])}
<1>1. /\ IsFiniteSet(S) /\ Cardinality(S) \in Nat /\ Cardinality(S) <= Cardinality(Things)
      /\ Cardinality(Things) \in Nat
  BY Counted, ListedShape
<1>2. \A e \in SUBSET S : IsFiniteSet(e) /\ Cardinality(e) \in Nat /\ Cardinality(e) <= Cardinality(S)
  BY <1>1, FS_Subset, FS_CardinalityType
<1>3. \A h \in S : w.handler[h].thing \in Things /\ w.handler[h].thing \in enabled
  BY ListedShape DEF Spins
<1>4. <<{}, w>> \in I
  <2>1. w \in Worlds
    BY LinkedShape
  <2> QED
    BY <2>1, FS_EmptySet, Counted
<1>5. ASSUME NEW e \in SUBSET S, NEW u \in Worlds, e # {}, NEW h, h \in e,
             <<e \ {h}, u>> \in I
      PROVE  <<e, Added(u, w.handler[h].thing, s)>> \in I
  <2> DEFINE t == w.handler[h].thing
             z == Added(u, t, s)
  <2>1. /\ Linked(u, Busy)
        /\ \A x \in Things : Source(u, x) = IF Been(e \ {h}, x) THEN s ELSE Source(w, x)
        /\ Cardinality(Spare(u)) >= Cardinality(Spare(w)) - Cardinality(e \ {h})
    BY <1>5
  <2>2. Cardinality(e \ {h}) = Cardinality(e) - 1
    BY <1>2, <1>5, FS_RemoveElement
  <2>3. t \in Things /\ t \in enabled
    BY <1>3, <1>5
  <2>4. Cardinality(Spare(u)) >= 1 /\ Cardinality(Spare(u)) \in Nat /\ Cardinality(Spare(w)) \in Nat
    BY <1>1, <1>2, <2>1, <2>2, Counted
  <2> HIDE DEF t, z, I, Been
  <2>5. Becomes(u, z, t, s) /\ Cardinality(Spare(z)) >= Cardinality(Spare(u)) - 1
    BY <2>1, <2>3, <2>4, AddedTo DEF z
  <2>6. Linked(z, Busy) /\ z \in Worlds
    BY <2>5 DEF Becomes, Linked
  <2>7. \A x \in Things : Source(z, x) = IF Been(e, x) THEN s ELSE Source(w, x)
    <3>1. \A x : Been(e, x) <=> x = t \/ Been(e \ {h}, x)
      BY <1>5 DEF Been, t
    <3> QED
      BY <2>1, <2>5, <3>1 DEF Becomes
  <2>8. Cardinality(Spare(z)) \in Nat
    BY Counted
  <2>9. Cardinality(Spare(z)) >= Cardinality(Spare(w)) - Cardinality(e)
    BY <1>2, <2>1, <2>2, <2>4, <2>5, <2>8
  <2> QED
    BY <2>6, <2>7, <2>9 DEF I, z, t
<1>6. \A e \in SUBSET S : \A u \in Worlds :
        LET x == CHOOSE x \in e : TRUE
        IN  e # {} /\ <<e \ {x}, u>> \in I => <<e, Added(u, w.handler[x].thing, s)>> \in I
  <2> HIDE DEF I, S
  <2> QED
    BY <1>5
<1>7. <<S, v>> \in I
  <2>1. I \in SUBSET ((SUBSET S) \X Worlds)
    OBVIOUS
  <2>2. S = ListedFor(w, old)
    OBVIOUS
  <2> HIDE DEF I, S
  <2> QED
    BY <1>1, <1>4, <1>6, <2>1, <2>2, MovedFold
<1>8. \A x \in Things : Been(S, x) <=> Source(w, x) = old
  BY ListedShape
<1>9. Cardinality(Spare(v)) >= Cardinality(Spare(w)) - Cardinality(Things)
  BY <1>1, <1>7, Counted
<1> QED
  BY <1>7, <1>8, <1>9

\* The new add functions: what is enabled has its source in the new setup.
LEMMA AddedSources ==
  ASSUME NEW w, Linked(w, Busy), known \subseteq Things, NEW s \in Setups,
         Cardinality(Spare(w)) >= Cardinality(Things),
         NEW v, v = AddedAll(w, s)
  PROVE  /\ Linked(v, Busy)
         /\ \A x \in Things : Source(v, x) = IF x \in known \intersect enabled THEN s ELSE Source(w, x)
<1> DEFINE S == known
           I == {p \in (SUBSET S) \X Worlds :
                   /\ Linked(p[2], Busy)
                   /\ \A x \in Things :
                        Source(p[2], x) = IF x \in p[1] \intersect enabled THEN s ELSE Source(w, x)
                   /\ Cardinality(Spare(p[2])) >= Cardinality(Spare(w)) - Cardinality(p[1])}
<1>1. /\ IsFiniteSet(S) /\ Cardinality(S) \in Nat /\ Cardinality(S) <= Cardinality(Things)
      /\ Cardinality(Things) \in Nat
  BY Counted, FS_Subset, FS_CardinalityType
<1>2. \A e \in SUBSET S : IsFiniteSet(e) /\ Cardinality(e) \in Nat /\ Cardinality(e) <= Cardinality(S)
  BY <1>1, FS_Subset, FS_CardinalityType
<1>3. <<{}, w>> \in I
  <2>1. w \in Worlds
    BY LinkedShape
  <2> QED
    BY <2>1, FS_EmptySet, Counted
<1>4. ASSUME NEW e \in SUBSET S, NEW u \in Worlds, e # {}, NEW t, t \in e,
             <<e \ {t}, u>> \in I
      PROVE  <<e, Added(u, t, s)>> \in I
  <2> DEFINE z == Added(u, t, s)
  <2>1. /\ Linked(u, Busy)
        /\ \A x \in Things :
             Source(u, x) = IF x \in (e \ {t}) \intersect enabled THEN s ELSE Source(w, x)
        /\ Cardinality(Spare(u)) >= Cardinality(Spare(w)) - Cardinality(e \ {t})
    BY <1>4
  <2>2. Cardinality(e \ {t}) = Cardinality(e) - 1
    BY <1>2, <1>4, FS_RemoveElement
  <2>3. t \in Things
    BY <1>4
  <2>4. Cardinality(Spare(u)) >= 1 /\ Cardinality(Spare(u)) \in Nat /\ Cardinality(Spare(w)) \in Nat
    BY <1>1, <1>2, <2>1, <2>2, Counted
  <2> HIDE DEF z, I
  <2>5. CASE t \in enabled
    <3>1. Becomes(u, z, t, s) /\ Cardinality(Spare(z)) >= Cardinality(Spare(u)) - 1
      BY <2>1, <2>3, <2>4, <2>5, AddedTo DEF z
    <3>2. Linked(z, Busy) /\ z \in Worlds
      BY <3>1 DEF Becomes, Linked
    <3>3. \A x \in Things : Source(z, x) = IF x \in e \intersect enabled THEN s ELSE Source(w, x)
      BY <1>4, <2>1, <2>5, <3>1 DEF Becomes
    <3>4. Cardinality(Spare(z)) \in Nat
      BY Counted
    <3>5. Cardinality(Spare(z)) >= Cardinality(Spare(w)) - Cardinality(e)
      BY <1>2, <2>1, <2>2, <2>4, <3>1, <3>4
    <3> QED
      BY <3>2, <3>3, <3>5 DEF I, z
  <2>6. CASE t \notin enabled
    <3>1. z = u
      BY <2>6 DEF z, Added
    <3>2. \A x \in Things : Source(u, x) = IF x \in e \intersect enabled THEN s ELSE Source(w, x)
      BY <2>1, <2>6
    <3>3. Cardinality(Spare(u)) >= Cardinality(Spare(w)) - Cardinality(e)
      BY <1>2, <2>1, <2>2, <2>4
    <3> QED
      BY <2>1, <3>1, <3>2, <3>3 DEF I, z
  <2> QED
    BY <2>5, <2>6
<1>5. \A e \in SUBSET S : \A u \in Worlds :
        LET x == CHOOSE x \in e : TRUE
        IN  e # {} /\ <<e \ {x}, u>> \in I => <<e, Added(u, x, s)>> \in I
  <2> HIDE DEF I, S
  <2> QED
    BY <1>4
<1>6. <<S, v>> \in I
  <2>1. I \in SUBSET ((SUBSET S) \X Worlds) /\ S = known
    OBVIOUS
  <2> HIDE DEF I, S
  <2> QED
    BY <1>1, <1>3, <1>5, <2>1, AddedFold
<1> QED
  BY <1>6

\* The old remove functions: the timeouts lose their sources, wherever they are,
\* and the watches those in the old setup.
LEMMA RemovedSources ==
  ASSUME NEW w, Linked(w, Busy), known \subseteq Things, NEW s,
         NEW v, v = RemovedAll(w, s)
  PROVE  /\ Linked(v, Busy)
         /\ \A x \in Things :
              Source(v, x) = IF x \in known /\ ~(x \in Watches /\ Source(w, x) # s)
                             THEN 0 ELSE Source(w, x)
<1> DEFINE S == known
           Lost(x) == ~(x \in Watches /\ Source(w, x) # s)
           I == {p \in (SUBSET S) \X Worlds :
                   /\ Linked(p[2], Busy)
                   /\ \A x \in Things :
                        Source(p[2], x) = IF x \in p[1] /\ Lost(x) THEN 0 ELSE Source(w, x)}
<1>1. IsFiniteSet(S)
  BY Counted, FS_Subset
<1>2. <<{}, w>> \in I
  BY LinkedShape
<1>3. ASSUME NEW e \in SUBSET S, NEW u \in Worlds, e # {}, NEW t, t \in e,
             <<e \ {t}, u>> \in I
      PROVE  <<e, Removed(u, t, s)>> \in I
  <2> DEFINE z == Removed(u, t, s)
  <2>1. /\ Linked(u, Busy)
        /\ \A x \in Things :
             Source(u, x) = IF x \in e \ {t} /\ Lost(x) THEN 0 ELSE Source(w, x)
    BY <1>3
  <2>2. t \in Things
    BY <1>3
  <2> HIDE DEF z, I, Lost
  <2>3. Becomes(u, z, t, IF t \in Watches /\ Source(u, t) # s THEN Source(u, t) ELSE 0)
    BY <2>1, <2>2, RemovedFrom DEF z
  <2>4. Source(u, t) = Source(w, t)
    BY <2>1, <2>2
  <2>5. Linked(z, Busy) /\ z \in Worlds
    BY <2>3 DEF Becomes, Linked
  <2>6. Source(z, t) = IF Lost(t) THEN 0 ELSE Source(w, t)
    BY <2>2, <2>3, <2>4 DEF Becomes, Lost
  <2>7. \A x \in Things : Source(z, x) = IF x \in e /\ Lost(x) THEN 0 ELSE Source(w, x)
    BY <1>3, <2>1, <2>3, <2>6 DEF Becomes
  <2> QED
    BY <2>5, <2>7 DEF I, z
<1>4. \A e \in SUBSET S : \A u \in Worlds :
        LET x == CHOOSE x \in e : TRUE
        IN  e # {} /\ <<e \ {x}, u>> \in I => <<e, Removed(u, x, s)>> \in I
  <2> HIDE DEF I, S
  <2> QED
    BY <1>3
<1>5. <<S, v>> \in I
  <2>1. I \in SUBSET ((SUBSET S) \X Worlds) /\ S = known
    OBVIOUS
  <2> HIDE DEF I, S
  <2> QED
    BY <1>1, <1>2, <1>4, <2>1, RemovedFold
<1> QED
  BY <1>5

\* The connection is finalized: nothing that libdbus has keeps a source.
LEMMA UnsetSources ==
  ASSUME NEW w, Linked(w, Busy), known \subseteq Things,
         NEW v, v = UnsetAll(w)
  PROVE  /\ Linked(v, Busy)
         /\ \A x \in Things : Source(v, x) = IF x \in known THEN 0 ELSE Source(w, x)
<1> DEFINE S == known
           I == {p \in (SUBSET S) \X Worlds :
                   /\ Linked(p[2], Busy)
                   /\ \A x \in Things : Source(p[2], x) = IF x \in p[1] THEN 0 ELSE Source(w, x)}
<1>1. IsFiniteSet(S)
  BY Counted, FS_Subset
<1>2. <<{}, w>> \in I
  BY LinkedShape
<1>3. ASSUME NEW e \in SUBSET S, NEW u \in Worlds, e # {}, NEW t, t \in e,
             <<e \ {t}, u>> \in I
      PROVE  <<e, DataSet(Removed(u, t, setup), t, None)>> \in I
  <2> DEFINE y == Removed(u, t, setup)
             z == DataSet(y, t, None)
  <2>1. /\ Linked(u, Busy)
        /\ \A x \in Things : Source(u, x) = IF x \in e \ {t} THEN 0 ELSE Source(w, x)
    BY <1>3
  <2>2. t \in Things
    BY <1>3
  <2> HIDE DEF y, z, I
  <2>3. PICK n : Becomes(u, y, t, n)
    BY <2>1, <2>2, RemovedFrom DEF y
  <2>4. Linked(y, Busy)
    BY <2>3 DEF Becomes
  <2>5. Becomes(y, z, t, 0)
    BY <2>2, <2>4, Unset DEF z
  <2>6. Linked(z, Busy) /\ z \in Worlds
    BY <2>5 DEF Becomes, Linked
  <2>7. \A x \in Things : Source(z, x) = IF x \in e THEN 0 ELSE Source(w, x)
    BY <1>3, <2>1, <2>3, <2>5 DEF Becomes
  <2> QED
    BY <2>6, <2>7 DEF I, z, y
<1>4. \A e \in SUBSET S : \A u \in Worlds :
        LET x == CHOOSE x \in e : TRUE
        IN  e # {} /\ <<e \ {x}, u>> \in I => <<e, DataSet(Removed(u, x, setup), x, None)>> \in I
  <2> HIDE DEF I, S
  <2> QED
    BY <1>3
<1>5. <<S, v>> \in I
  <2>1. I \in SUBSET ((SUBSET S) \X Worlds) /\ S = known
    OBVIOUS
  <2> HIDE DEF I, S
  <2> QED
    BY <1>1, <1>2, <1>4, <2>1, UnsetFold
<1> QED
  BY <1>5

\* dbus_connection_set_watch_functions by the loops.
LEMMA FunctionsSetLoops ==
  ASSUME NEW w, NEW old, NEW s
  PROVE  FunctionsSet(w, old, s) =
           IF old = 0 THEN AddedAll(w, s) ELSE RemovedAll(AddedAll(w, s), old)
BY DEF FunctionsSet, AddedAll, RemovedAll

\* The end of a connection by its loops.
LEMMA ConnectionFreedLoops ==
  ASSUME NEW w
  PROVE  ConnectionFreed(w) = IF setup = 0 THEN w ELSE SetupFreed(UnsetAll(w), setup)
BY DEF ConnectionFreed, UnsetAll

\* io_handler_source_finalized of a handler that is off: it is no longer in use.
LEMMA FinalizedShape ==
  ASSUME NEW w, Linked(w, Busy), NEW h \in Handlers, ~w.handler[h].attached,
         NEW busy, Busy \ {h} \subseteq busy,
         NEW v, v = Finalized(w, h)
  PROVE  /\ Linked(v, busy)
         /\ \A x \in Things : Source(v, x) = Source(w, x)
<1> DEFINE t == w.handler[h].thing
           freed == [w EXCEPT !.handler[h] = Free]
<1>1. w \in Worlds /\ None \notin Handlers /\ (t # None => t \in Things /\ w.data[t] = h)
  BY LinkedShape
<1>2. /\ freed \in Worlds /\ freed.data = w.data /\ freed.handler[h] = Free
      /\ \A g \in Handlers : g # h => freed.handler[g] = w.handler[g]
  <2>1. Free \in Records
    BY DEF Records
  <2> QED
    BY <1>1, <2>1, HandlerChanged
<1>3. /\ v \in Worlds /\ v.handler[h] = Free
      /\ \A g \in Handlers : g # h => v.handler[g] = w.handler[g]
      /\ \A x \in Things : v.data[x] = IF x = t THEN None ELSE w.data[x]
  <2>1. CASE t = None
    <3>1. v = freed /\ t \notin Things
      BY <2>1, LinkedShape DEF Finalized
    <3> HIDE DEF freed, t
    <3> QED
      BY <1>2, <3>1
  <2>2. CASE t # None
    <3>1. v = [w EXCEPT !.handler[h] = Free, !.data[t] = None]
      BY <2>2 DEF Finalized
    <3>2. v = [freed EXCEPT !.data[t] = None]
      BY <1>1, <3>1 DEF Worlds
    <3>3. freed \in Worlds /\ t \in Things /\ None \in Handlers \union {None}
      BY <1>1, <1>2, <2>2
    <3> HIDE DEF freed, t
    <3>4. /\ v \in Worlds /\ v.handler = freed.handler /\ v.data[t] = None
          /\ \A x \in Things : x # t => v.data[x] = freed.data[x]
      BY <3>2, <3>3, DataChanged
    <3> QED
      BY <1>2, <3>3, <3>4
  <2> QED
    BY <2>1, <2>2
<1>4. \A x \in Things : x # t /\ w.data[x] # None => w.data[x] \in Handlers /\ w.data[x] # h
  BY LinkedShape
<1>5. \A x \in Things : Source(v, x) = Source(w, x)
  <2>1. ASSUME NEW x \in Things
        PROVE  Source(v, x) = Source(w, x)
    <3>1. CASE x = t
      <4>1. v.data[x] = None
        BY <1>3, <3>1
      <4>2. w.data[x] = h /\ ~w.handler[h].attached
        BY <1>1, <3>1, LinkedShape
      <4> QED
        BY <4>1, <4>2 DEF Source
    <3>2. CASE x # t
      BY <1>3, <1>4, <3>2 DEF Source
    <3> QED
      BY <3>1, <3>2
  <2> QED
    BY <2>1
<1>6. Linked(v, busy)
  <2>1. ASSUME NEW x \in Things, v.data[x] # None
        PROVE  v.handler[v.data[x]].thing = x
    <3>1. x # t /\ v.data[x] = w.data[x]
      BY <1>3, <2>1
    <3> HIDE DEF t
    <3> QED
      BY <1>3, <1>4, <2>1, <3>1, LinkedShape
  <2>2. ASSUME NEW g \in Handlers, v.handler[g] # Free
        PROVE  /\ v.handler[g].thing # None => v.data[v.handler[g].thing] = g
               /\ IF v.handler[g].attached THEN v.handler[g].thing # None ELSE g \in busy
    <3>1. g # h /\ v.handler[g] = w.handler[g]
      BY <1>3, <2>2
    <3>2. w.handler[g].thing # None =>
            w.handler[g].thing \in Things /\ w.data[w.handler[g].thing] = g
      BY LinkedShape
    <3>3. w.handler[g].thing # None => w.handler[g].thing # t
      BY <1>1, <3>1, <3>2
    <3>4. IF w.handler[g].attached THEN w.handler[g].thing # None ELSE g \in Busy
      BY <2>2, <3>1, LinkedShape
    <3> HIDE DEF t
    <3> QED
      BY <1>3, <3>1, <3>2, <3>3, <3>4
  <2> HIDE DEF t
  <2> QED
    BY <1>3, <2>1, <2>2 DEF Linked
<1> QED
  BY <1>5, <1>6

\* No handler is in the lists of a setup that no thing has its source in.
LEMMA NothingListed ==
  ASSUME NEW w, Linked(w, Busy), NEW s \in Setups, \A x \in Things : Source(w, x) # s
  PROVE  ListedFor(w, s) = {}
BY ListedShape

\* The end of a connection: it leaves no source.
LEMMA FreedSources ==
  ASSUME LoopInv, NEW v, v = ConnectionFreed(World)
  PROVE  Linked(v, Busy) /\ \A x \in Things : Source(v, x) = 0
<1>1. /\ Linked(World, Busy) /\ Placed /\ known \subseteq Things
      /\ setup \in Setups \union {0} /\ 0 \notin Setups
  BY DEF LoopInv, TypeOK, Setups
<1>2. CASE setup = 0
  BY <1>1, <1>2, ConnectionFreedLoops DEF Placed
<1>3. CASE setup # 0
  <2> DEFINE u == UnsetAll(World)
  <2>1. /\ Linked(u, Busy)
        /\ \A x \in Things : Source(u, x) = IF x \in known THEN 0 ELSE Source(World, x)
    BY <1>1, UnsetSources
  <2>2. \A x \in Things : Source(u, x) = 0
    BY <1>1, <2>1 DEF Placed
  <2>3. v = SetupFreed(u, setup)
    BY <1>3, ConnectionFreedLoops
  <2> HIDE DEF u
  <2>4. ListedFor(u, setup) = {}
    BY <1>1, <1>3, <2>1, <2>2, NothingListed
  <2>5. v = u
    BY <2>3, <2>4, NothingFreed
  <2> QED
    BY <2>1, <2>2, <2>5
<1> QED
  BY <1>2, <1>3

\* dbus_gmain_set_up_connection: the enabled watches have their sources in the
\* new setup, the timeouts there or nowhere, and nothing else has one.
LEMMA SetUpSources ==
  ASSUME LoopInv, NEW new, new = Len(context) + 1, Len(context) < MaxSetups, Room,
         NEW v,
         v = FunctionsSet(IF setup = 0 THEN World ELSE SetupFreed(Moved(World, setup, new), setup),
                          setup, new)
  PROVE  /\ Linked(v, Busy) /\ new \in Setups
         /\ setup # 0 => ~Spins(World, setup)
         /\ \A x \in Things : Source(v, x) # 0 =>
              Source(v, x) = new /\ x \in known \intersect enabled
         /\ \A x \in Watches \intersect known \intersect enabled : Source(v, x) = new
<1>1. /\ Linked(World, Busy) /\ Placed /\ Numbered /\ known \subseteq Things
      /\ setup \in Setups \union {0} /\ Len(context) \in Nat
  BY DEF LoopInv, TypeOK
<1>2. new \in Setups /\ new # 0 /\ new # setup /\ 0 \notin Setups
  BY <1>1, MainLoopAssumption DEF Setups, Numbered
<1>3. Watches \subseteq Things
  BY DEF Things
<1>4. Cardinality(Spare(World)) >= 2 * Cardinality(Things) /\ Cardinality(Things) \in Nat
  BY Counted DEF Room, Spare, World
<1>5. CASE setup = 0
  <2>1. v = AddedAll(World, new)
    BY <1>5, FunctionsSetLoops
  <2>2. Cardinality(Spare(World)) >= Cardinality(Things)
    BY <1>4, Counted
  <2>3. /\ Linked(v, Busy)
        /\ \A x \in Things :
             Source(v, x) = IF x \in known \intersect enabled THEN new ELSE Source(World, x)
    BY <1>1, <1>2, <2>1, <2>2, AddedSources
  <2> QED
    BY <1>1, <1>2, <1>3, <1>5, <2>3 DEF Placed
<1>6. CASE setup # 0
  <2> DEFINE m == Moved(World, setup, new)
             a == AddedAll(m, new)
  <2>1. setup \in Setups
    BY <1>1, <1>6
  <2>2. ~Spins(World, setup)
    <3>1. \A h \in ListedFor(World, setup) :
            World.handler[h].thing \in Things /\ Source(World, World.handler[h].thing) = setup
      BY <1>1, <2>1, ListedShape
    <3> QED
      BY <1>1, <1>6, <3>1 DEF Spins, Placed
  <2>3. /\ Linked(m, Busy)
        /\ \A x \in Things :
             Source(m, x) = IF Source(World, x) = setup THEN new ELSE Source(World, x)
        /\ Cardinality(Spare(m)) >= Cardinality(Spare(World)) - Cardinality(Things)
    <3>1. Cardinality(Spare(World)) >= Cardinality(Things)
      BY <1>4, Counted
    <3> QED
      BY <1>1, <1>2, <2>1, <2>2, <3>1, MovedSources
  <2> HIDE DEF m
  <2>4. \A x \in Things : Source(m, x) # setup
    BY <1>1, <1>2, <1>6, <2>3 DEF Placed
  <2>5. SetupFreed(m, setup) = m
    BY <2>1, <2>3, <2>4, NothingListed, NothingFreed
  <2>6. v = RemovedAll(a, setup)
    BY <1>6, <2>5, FunctionsSetLoops DEF m
  <2>7. /\ Linked(a, Busy)
        /\ \A x \in Things :
             Source(a, x) = IF x \in known \intersect enabled THEN new ELSE Source(m, x)
    <3>1. Cardinality(Spare(m)) >= Cardinality(Things)
      BY <1>4, <2>3, Counted
    <3> QED
      BY <1>1, <1>2, <2>3, <3>1, AddedSources
  <2> HIDE DEF a
  <2>8. /\ Linked(v, Busy)
        /\ \A x \in Things :
             Source(v, x) = IF x \in known /\ ~(x \in Watches /\ Source(a, x) # setup)
                            THEN 0 ELSE Source(a, x)
    BY <1>1, <2>6, <2>7, RemovedSources
  <2>9. ASSUME NEW x \in Things, Source(v, x) # 0
        PROVE  Source(v, x) = new /\ x \in known \intersect enabled
    <3>1. Source(v, x) = Source(a, x)
      BY <2>8, <2>9
    <3>2. x \notin known \intersect enabled => Source(World, x) = 0
      BY <1>1 DEF Placed
    <3> QED
      BY <1>6, <2>3, <2>7, <2>9, <3>1, <3>2
  <2>10. \A x \in Watches \intersect known \intersect enabled : Source(v, x) = new
    BY <1>2, <1>3, <2>7, <2>8
  <2> QED
    BY <1>2, <2>2, <2>8, <2>9, <2>10
<1> QED
  BY <1>5, <1>6

--------------------------------------------------------------------------------
(* The invariant holds *)

LEMMA WorldSet ==
  ASSUME NEW w, Linked(w, Busy'), SetWorld(w)
  PROVE  /\ World' = w /\ Linked(World, Busy)'
         /\ handler' \in [Handlers -> Records] /\ data' \in [Things -> Handlers \union {None}]
<1>1. w \in Worlds
  BY DEF Linked
<1>2. w = [handler |-> w.handler, data |-> w.data]
  BY <1>1 DEF Worlds
<1>3. World' = w
  BY <1>2 DEF World, SetWorld
<1>4. handler' \in [Handlers -> Records] /\ data' \in [Things -> Handlers \union {None}]
  BY <1>1 DEF Worlds, SetWorld
<1> QED
  BY <1>3, <1>4 DEF Linked

LEMMA LoopInvInit ==
  ASSUME Init
  PROVE  LoopInv
<1>1. None \notin Things /\ MaxSetups \in Nat /\ MaxDepth \in Nat
  BY MainLoopAssumption
<1>2. TypeOK
  <2>1. /\ context \in Seq(Contexts) /\ Len(context) <= MaxSetups
        /\ stack \in Seq(Frames) /\ Len(stack) <= MaxDepth
    BY <1>1 DEF Init
  <2>2. /\ handler \in [Handlers ->
             {Free} \union [setup : Setups, thing : Things \union {None}, attached : BOOLEAN]]
        /\ data \in [Things -> Handlers \union {None}]
    BY DEF Init
  <2> QED
    BY <2>1, <2>2 DEF Init, TypeOK
<1>3. World \in Worlds
  BY DEF Init, World, Worlds, Records
<1>4. Linked(World, Busy)
  BY <1>3 DEF Init, Linked, World
<1>5. \A t \in Things : Source(World, t) = 0
  BY DEF Init, Source, World
<1>6. Placed /\ Numbered
  BY <1>5 DEF Init, Placed, Numbered
<1> QED
  BY <1>2, <1>4, <1>6 DEF LoopInv, Init

\* The last reference is dropped, in whatever dispatch.
LEMMA GonePlaced ==
  ASSUME known' = {}, setup' = 0, queues' = {}, enabled' = {},
         Len(context) \in Nat, context' = context,
         \A t \in Things : Source(World', t) = 0
  PROVE  Placed' /\ Numbered'
BY DEF Placed, Numbered, Source, World

\* The bound leaves something to allocate.
LEMMA SpareLeft ==
  ASSUME Room, NEW t \in Things
  PROVE  Spare(World) # {}
<1>1. Cardinality(Spare(World)) >= 2 * Cardinality(Things)
  BY DEF Room, Spare, World
<1>2. Cardinality(Things) \in Nat /\ Things # {}
  BY Counted
<1>3. Cardinality(Things) # 0
  BY <1>2, Counted, FS_EmptySet
<1>4. Cardinality(Spare(World)) # 0
  BY <1>1, <1>2, <1>3
<1> QED
  BY <1>4, FS_EmptySet

\* The dispatches that go on when the innermost one returns.
LEMMA OuterFrames ==
  ASSUME NEW s \in Seq(Frames), s # <<>>
  PROVE  /\ SubSeq(s, 1, Len(s) - 1) \in Seq(Frames)
         /\ Len(SubSeq(s, 1, Len(s) - 1)) = Len(s) - 1
         /\ \A k \in 1 .. Len(s) - 1 : SubSeq(s, 1, Len(s) - 1)[k] = s[k]
<1>1. Len(s) \in Nat \ {0} /\ DOMAIN s = 1 .. Len(s)
  OBVIOUS
<1>2. \A k \in 1 .. Len(s) : s[k] \in Frames
  BY <1>1
<1> QED
  BY <1>1, <1>2

LEMMA LoopInvNext ==
  ASSUME LoopInv, [Next]_vars
  PROVE  LoopInv'
<1> USE MainLoopAssumption
<1>1. /\ TypeOK /\ Linked(World, Busy) /\ Placed /\ Numbered /\ ~spinning
  BY DEF LoopInv
<1>2. Watches \subseteq Things /\ 0 \notin Setups /\ Len(context) \in Nat /\ known \subseteq Things
  BY <1>1 DEF Things, Setups, TypeOK
<1>3. ASSUME NEW c \in Contexts, SetUp(c)
      PROVE  LoopInv'
  <2> DEFINE new == Len(context) + 1
             v == FunctionsSet(IF setup = 0 THEN World ELSE SetupFreed(Moved(World, setup, new), setup),
                               setup, new)
  <2>1. /\ Len(context) < MaxSetups /\ Room
        /\ context' = Append(context, c)
        /\ spinning' = (setup # 0 /\ Spins(World, setup))
        /\ setup' = new /\ queues' = (queues \ {setup}) \union {new}
        /\ SetWorld(v)
        /\ UNCHANGED <<held, gone, known, enabled, stack>>
    BY <1>3 DEF SetUp
  <2> HIDE DEF v
  <2>2. /\ Linked(v, Busy) /\ new \in Setups
        /\ setup # 0 => ~Spins(World, setup)
        /\ \A x \in Things : Source(v, x) # 0 =>
             Source(v, x) = new /\ x \in known \intersect enabled
        /\ \A x \in Watches \intersect known \intersect enabled : Source(v, x) = new
    BY <2>1, SetUpSources DEF v, LoopInv
  <2>3. Busy' = Busy
    BY <2>1 DEF Busy
  <2>4. /\ World' = v /\ Linked(World, Busy)'
        /\ handler' \in [Handlers -> Records] /\ data' \in [Things -> Handlers \union {None}]
    BY <2>1, <2>2, <2>3, WorldSet
  <2>5. Len(context') = new /\ context' \in Seq(Contexts) /\ new <= MaxSetups
    BY <1>1, <2>1 DEF TypeOK
  <2>6. queues' = {new} /\ new # 0
    BY <1>1, <2>1, <1>2, <2>2 DEF Numbered
  <2> HIDE DEF new
  <2>7. TypeOK'
    BY <1>1, <2>1, <2>2, <2>4, <2>5, <2>6 DEF TypeOK, Records
  <2>8. Placed'
    BY <1>1, <2>1, <2>2, <2>4 DEF Placed, Source
  <2>9. Numbered'
    BY <2>1, <2>2, <2>5, <2>6 DEF Numbered, Setups
  <2> QED
    BY <2>1, <2>2, <2>4, <2>7, <2>8, <2>9 DEF LoopInv
<1>4. CASE Release
  <2>1. UNCHANGED <<context, stack, spinning>> /\ held' \in BOOLEAN /\ Busy' = Busy
    BY <1>4 DEF Release, Busy
  <2>2. CASE UNCHANGED <<gone, known, enabled, setup, queues, handler, data>>
    BY <1>1, <2>1, <2>2 DEF LoopInv, TypeOK, Linked, World, Placed, Source, Numbered
  <2>3. CASE /\ gone' = TRUE /\ known' = {} /\ enabled' = {} /\ setup' = 0 /\ queues' = {}
             /\ SetWorld(ConnectionFreed(World))
    <3>1. /\ Linked(ConnectionFreed(World), Busy)
          /\ \A t \in Things : Source(ConnectionFreed(World), t) = 0
      BY FreedSources
    <3>2. /\ World' = ConnectionFreed(World) /\ Linked(World, Busy)'
          /\ handler' \in [Handlers -> Records] /\ data' \in [Things -> Handlers \union {None}]
      BY <2>1, <2>3, <3>1, WorldSet
    <3>3. TypeOK'
      BY <1>1, <2>1, <2>3, <3>2 DEF TypeOK, Records
    <3>4. Placed' /\ Numbered'
      BY <1>2, <2>1, <2>3, <3>1, <3>2, GonePlaced
    <3> QED
      BY <1>1, <2>1, <3>2, <3>3, <3>4 DEF LoopInv
  <2> QED
    BY <1>4, <2>2, <2>3 DEF Release
<1>5. ASSUME NEW w, NEW t \in Things, NEW n, Becomes(World, w, t, n), SetWorld(w),
             known' \subseteq Things, enabled' \subseteq known',
             \A x \in Things : x # t => (x \in known' <=> x \in known) /\ (x \in enabled' <=> x \in enabled),
             n # 0 => n = setup /\ t \in known' \intersect enabled',
             setup # 0 /\ t \in known' \intersect enabled' => n = setup,
             UNCHANGED <<held, gone, setup, context, queues, stack, spinning>>
      PROVE  LoopInv'
  <2>1. Linked(w, Busy) /\ \A x \in Things : Source(w, x) = IF x = t THEN n ELSE Source(World, x)
    BY <1>5 DEF Becomes
  <2>2. Busy' = Busy
    BY <1>5 DEF Busy
  <2>3. /\ World' = w /\ Linked(World, Busy)'
        /\ handler' \in [Handlers -> Records] /\ data' \in [Things -> Handlers \union {None}]
    BY <1>5, <2>1, <2>2, WorldSet
  <2>4. TypeOK'
    BY <1>1, <1>5, <2>3 DEF TypeOK, Records
  <2>5. \A x \in Things : Source(w, x) # 0 => Source(w, x) = setup /\ x \in known' \intersect enabled'
    BY <1>1, <1>5, <2>1 DEF Placed
  <2>6. setup # 0 => \A x \in Watches \intersect known' \intersect enabled' : Source(w, x) = setup
    BY <1>1, <1>2, <1>5, <2>1 DEF Placed
  <2>7. Placed'
    BY <1>5, <2>3, <2>5, <2>6 DEF Placed, Source
  <2>8. Numbered'
    BY <1>1, <1>5 DEF Numbered
  <2> QED
    BY <1>1, <1>5, <2>3, <2>4, <2>7, <2>8 DEF LoopInv
<1>6. ASSUME NEW t \in Things, NEW on \in BOOLEAN, Adds(t, on)
      PROVE  LoopInv'
  <2>1. Spare(World) # {}
    BY <1>6, SpareLeft DEF Adds
  <2>2. /\ known' = known \union {t}
        /\ enabled' = IF on THEN enabled \union {t} ELSE enabled
        /\ UNCHANGED <<held, gone, setup, context, queues, stack, spinning>>
        /\ t \notin known
    BY <1>6 DEF Adds
  <2>3. Source(World, t) = 0 /\ t \notin enabled
    BY <1>1, <2>2 DEF Placed
  <2>4. CASE setup = 0 \/ ~on
    <3>1. SetWorld(World)
      BY <1>6, <2>4 DEF Adds, SetWorld, World
    <3>2. Becomes(World, World, t, 0)
      BY <1>1, <2>3 DEF Becomes
    <3> QED
      BY <1>1, <1>2, <1>5, <2>2, <2>3, <2>4, <3>1, <3>2 DEF Placed
  <2>5. CASE setup # 0 /\ on
    <3>1. SetWorld(Attached(World, t, setup))
      BY <1>6, <2>5 DEF Adds
    <3>2. Becomes(World, Attached(World, t, setup), t, setup)
      BY <1>1, <2>1, <2>5, AttachedTo DEF TypeOK
    <3> QED
      BY <1>1, <1>2, <1>5, <2>2, <2>5, <3>1, <3>2 DEF Placed
  <2> QED
    BY <2>4, <2>5
<1>7. ASSUME NEW t \in Things, Removes(t)
      PROVE  LoopInv'
  <2> DEFINE u == IF setup = 0 THEN World ELSE Removed(World, t, setup)
             v == DataSet(u, t, None)
  <2>1. /\ known' = known \ {t} /\ enabled' = enabled \ {t}
        /\ SetWorld(v)
        /\ UNCHANGED <<held, gone, setup, context, queues, stack, spinning>>
    BY <1>7 DEF Removes
  <2>2. PICK n : Becomes(World, u, t, n)
    <3>1. Becomes(World, World, t, Source(World, t))
      BY <1>1 DEF Becomes
    <3>2. setup # 0 => \E n : Becomes(World, Removed(World, t, setup), t, n)
      BY <1>1, RemovedFrom
    <3> QED
      BY <3>1, <3>2
  <2> HIDE DEF u
  <2>3. Linked(u, Busy)
    BY <2>2 DEF Becomes
  <2>4. Becomes(u, v, t, 0)
    BY <2>3, Unset
  <2> HIDE DEF v
  <2>5. Becomes(World, v, t, 0)
    BY <2>2, <2>4 DEF Becomes
  <2> QED
    BY <1>1, <1>2, <1>5, <2>1, <2>5 DEF Placed
<1>8. ASSUME NEW t \in Things, Enables(t)
      PROVE  LoopInv'
  <2>1. Spare(World) # {}
    BY <1>8, SpareLeft DEF Enables
  <2>2. /\ enabled' = enabled \union {t} /\ t \in known /\ t \notin enabled
        /\ UNCHANGED <<held, gone, known, setup, context, queues, stack, spinning>>
    BY <1>8 DEF Enables
  <2>3. CASE setup = 0
    <3>1. SetWorld(World)
      BY <1>8, <2>3 DEF Enables, SetWorld, World
    <3>2. Becomes(World, World, t, 0)
      BY <1>1, <2>2 DEF Becomes, Placed
    <3> QED
      BY <1>1, <1>2, <1>5, <2>2, <2>3, <3>1, <3>2 DEF Placed
  <2>4. CASE setup # 0
    <3>1. SetWorld(Attached(World, t, setup))
      BY <1>8, <2>4 DEF Enables
    <3>2. Becomes(World, Attached(World, t, setup), t, setup)
      BY <1>1, <2>1, <2>4, AttachedTo DEF TypeOK
    <3> QED
      BY <1>1, <1>2, <1>5, <2>2, <3>1, <3>2 DEF Placed
  <2> QED
    BY <2>3, <2>4
<1>9. ASSUME NEW t \in Things, Disables(t)
      PROVE  LoopInv'
  <2>1. /\ enabled' = enabled \ {t}
        /\ UNCHANGED <<held, gone, known, setup, context, queues, stack, spinning>>
    BY <1>9 DEF Disables
  <2>2. CASE setup = 0
    <3>1. SetWorld(World)
      BY <1>9, <2>2 DEF Disables, SetWorld, World
    <3>2. Becomes(World, World, t, 0)
      BY <1>1, <2>2 DEF Becomes, Placed
    <3> QED
      BY <1>1, <1>2, <1>5, <2>1, <3>1, <3>2 DEF Placed
  <2>3. CASE setup # 0
    <3>1. SetWorld(Removed(World, t, setup))
      BY <1>9, <2>3 DEF Disables
    <3>2. Becomes(World, Removed(World, t, setup), t,
                  IF t \in Watches /\ Source(World, t) # setup THEN Source(World, t) ELSE 0)
      BY <1>1, RemovedFrom
    <3>3. Becomes(World, Removed(World, t, setup), t, 0)
      BY <1>1, <3>2 DEF Placed
    <3> QED
      BY <1>1, <1>2, <1>5, <2>1, <3>1, <3>3 DEF Placed
  <2> QED
    BY <2>2, <2>3
<1>10. ASSUME NEW frame \in Frames, stack' = Append(stack, frame), Len(stack) < MaxDepth,
              UNCHANGED <<held, gone, known, enabled, setup, context, queues, handler, data, spinning>>
       PROVE  LoopInv'
  <2>1. stack' \in Seq(Frames) /\ Len(stack') <= MaxDepth
    BY <1>1, <1>10 DEF TypeOK
  <2>2. Busy \subseteq Busy'
    <3>1. ASSUME NEW k \in DOMAIN stack
          PROVE  k \in DOMAIN stack' /\ stack'[k] = stack[k]
      BY <1>1, <1>10 DEF TypeOK
    <3> QED
      BY <3>1 DEF Busy
  <2>3. TypeOK'
    BY <1>1, <1>10, <2>1 DEF TypeOK
  <2>4. World' = World
    BY <1>10 DEF World
  <2>5. Linked(World, Busy')
    BY <1>1, <2>2 DEF Linked
  <2>6. SetWorld(World)
    BY <1>10 DEF SetWorld, World
  <2>7. Linked(World, Busy)'
    BY <2>5, <2>6, WorldSet
  <2>8. Placed' /\ Numbered'
    BY <1>1, <1>10, <2>4 DEF Placed, Numbered, Source, World
  <2> QED
    BY <1>1, <1>10, <2>3, <2>7, <2>8 DEF LoopInv
<1>11. CASE DispatchesMessages
  <2>1. [kind |-> "queue", handler |-> None] \in Frames
    BY DEF Frames
  <2> QED
    BY <1>10, <1>11, <2>1 DEF DispatchesMessages
<1>12. ASSUME NEW h \in Handlers, DispatchesSource(h)
       PROVE  LoopInv'
  <2> DEFINE frame == [kind |-> IF handler[h].thing \in Watches THEN "watch" ELSE "timeout",
                       handler |-> h]
  <2>1. frame \in Frames
    BY DEF Frames
  <2>2. /\ stack' = Append(stack, frame) /\ Len(stack) < MaxDepth
        /\ UNCHANGED <<held, gone, known, enabled, setup, context, queues, handler, data, spinning>>
    BY <1>12 DEF DispatchesSource
  <2> HIDE DEF frame
  <2> QED
    BY <1>10, <2>1, <2>2
<1>13. CASE DispatchReturns
  <2> DEFINE frame == stack[Len(stack)]
             outer == SubSeq(stack, 1, Len(stack) - 1)
             last == ~held /\ ~gone /\ ~\E k \in DOMAIN outer : HoldsConnection(outer[k])
             world == IF last THEN ConnectionFreed(World) ELSE World
             h == frame.handler
             v == IF h # None /\ ~world.handler[h].attached THEN Finalized(world, h) ELSE world
  <2>1. /\ stack # <<>> /\ stack' = outer
        /\ IF last THEN gone' = TRUE /\ known' = {} /\ enabled' = {} /\ setup' = 0 /\ queues' = {}
           ELSE UNCHANGED <<gone, known, enabled, setup, queues>>
        /\ SetWorld(v)
        /\ UNCHANGED <<held, context, spinning>>
    BY <1>13 DEF DispatchReturns
  <2>2. /\ Linked(world, Busy)
        /\ \A t \in Things : Source(world, t) = IF last THEN 0 ELSE Source(World, t)
    BY <1>1, FreedSources
  <2>3. /\ h \in Handlers \union {None}
        /\ stack' \in Seq(Frames) /\ Len(stack') <= MaxDepth
        /\ Busy \ {h} \subseteq Busy'
    <3>1. stack \in Seq(Frames) /\ Len(stack) \in Nat \ {0}
      BY <1>1, <2>1 DEF TypeOK
    <3>2. frame \in Frames
      BY <3>1
    <3>3. /\ outer \in Seq(Frames) /\ Len(outer) = Len(stack) - 1
          /\ \A k \in 1 .. Len(stack) - 1 : outer[k] = stack[k]
      BY <2>1, <3>1, OuterFrames
    <3>4. ASSUME NEW k \in DOMAIN stack, k # Len(stack)
          PROVE  k \in DOMAIN outer /\ outer[k] = stack[k]
      <4>1. k \in 1 .. Len(stack) - 1
        BY <3>1, <3>4
      <4> QED
        BY <3>1, <4>1
    <3> HIDE DEF outer
    <3>5. Busy \ {h} \subseteq Busy'
      BY <2>1, <3>4 DEF Busy
    <3> QED
      BY <1>1, <2>1, <3>1, <3>2, <3>3, <3>5 DEF Frames, TypeOK
  <2> HIDE DEF world, h, outer, last
  <2>4. Linked(v, Busy') /\ \A t \in Things : Source(v, t) = Source(world, t)
    <3>1. CASE h # None /\ ~world.handler[h].attached
      <4>1. v = Finalized(world, h) /\ h \in Handlers
        BY <2>3, <3>1
      <4> HIDE DEF v
      <4> QED
        BY <2>2, <2>3, <3>1, <4>1, FinalizedShape
    <3>2. CASE ~(h # None /\ ~world.handler[h].attached)
      <4>1. v = world
        BY <3>2
      <4>2. \A g \in Handlers : world.handler[g] # Free /\ ~world.handler[g].attached => g \in Busy \ {h}
        BY <2>2, <3>2, LinkedShape
      <4>3. Linked(world, Busy')
        BY <2>2, <2>3, <4>2 DEF Linked
      <4> QED
        BY <4>1, <4>3
    <3> QED
      BY <3>1, <3>2
  <2> HIDE DEF v
  <2>5. /\ World' = v /\ Linked(World, Busy)'
        /\ handler' \in [Handlers -> Records] /\ data' \in [Things -> Handlers \union {None}]
    BY <2>1, <2>4, WorldSet
  <2>6. TypeOK'
    BY <1>1, <2>1, <2>3, <2>5 DEF TypeOK, Records
  <2>7. Placed' /\ Numbered'
    <3>1. CASE last
      BY <1>2, <2>1, <2>2, <2>4, <2>5, <3>1, GonePlaced
    <3>2. CASE ~last
      <4>1. UNCHANGED <<known, enabled, setup, queues, context>>
        BY <2>1, <3>2
      <4>2. \A t \in Things : Source(World', t) = Source(World, t)
        BY <2>2, <2>4, <2>5, <3>2
      <4> QED
        BY <1>1, <1>2, <4>1, <4>2 DEF Placed, Numbered, Source, World
    <3> QED
      BY <3>1, <3>2
  <2> QED
    BY <1>1, <2>1, <2>5, <2>6, <2>7 DEF LoopInv
<1>14. CASE UNCHANGED vars
  BY <1>1, <1>14 DEF vars, LoopInv, TypeOK, Linked, World, Placed, Source, Numbered, Busy
<1> QED
  BY <1>3, <1>4, <1>6, <1>7, <1>8, <1>9, <1>11, <1>12, <1>13, <1>14 DEF Next, LibDBus

--------------------------------------------------------------------------------
(* The theorems *)

\* What holds of a connection's main loop whatever it is moved between, and
\* whatever dispatch is in progress.
THEOREM LoopInvariance == Spec => []LoopInv
<1>1. Init => LoopInv
  BY LoopInvInit
<1>2. LoopInv /\ [Next]_vars => LoopInv'
  BY LoopInvNext
<1> QED
  BY <1>1, <1>2, PTL DEF Spec

\* The types of the state (dbus-gmain.c, ConnectionSetup and the handlers).
THEOREM LoopTypes == Spec => []TypeOK
<1>1. LoopInv => TypeOK
  BY DEF LoopInv
<1> QED
  BY <1>1, LoopInvariance, PTL

\* A handler that is attached has a setup.
LEMMA SetupOfAttached ==
  ASSUME LoopInv, NEW h \in Handlers, handler[h].attached
  PROVE  handler[h].setup # 0
<1>1. handler[h] \in Records
  BY DEF LoopInv, TypeOK, Records
<1>2. handler[h].setup \in Setups
  BY <1>1, RecordShape
<1> QED
  BY <1>2 DEF Setups

\* The sources of a thing by its data.
LEMMA SourcesShape ==
  ASSUME LoopInv, NEW t \in Things
  PROVE  IF Source(World, t) = 0 THEN SourcesOf(t) = {}
         ELSE \E h \in Handlers : SourcesOf(t) = {h} /\ handler[h].setup = Source(World, t)
<1>1. Linked(World, Busy)
  BY DEF LoopInv
<1>2. World.handler = handler /\ World.data = data
  BY DEF World
<1>3. \A h \in SourcesOf(t) : h = data[t] /\ data[t] # None
  BY <1>1, <1>2, LinkedShape DEF SourcesOf
<1>4. \A h \in Handlers : handler[h].attached => handler[h].setup # 0
  BY SetupOfAttached
<1>5. CASE Source(World, t) = 0
  BY <1>2, <1>3, <1>4, <1>5 DEF Source, SourcesOf
<1>6. CASE Source(World, t) # 0
  <2>1. data[t] # None /\ handler[data[t]].attached /\ Source(World, t) = handler[data[t]].setup
    BY <1>2, <1>6 DEF Source
  <2>2. data[t] \in Handlers /\ handler[data[t]].thing = t
    BY <1>1, <1>2, <2>1, LinkedShape
  <2> QED
    BY <1>3, <1>6, <2>1, <2>2 DEF SourcesOf
<1> QED
  BY <1>5, <1>6

\* Each enabled watch has one source, in the context that monitors the connection
\* now, and so has the message queue (connection_setup_new_from_old,
\* set_up_connection, watch_toggled).
THEOREM WatchesMonitored == Spec => []WatchesFollowContext
<1>1. ASSUME LoopInv
      PROVE  WatchesFollowContext
  <2>1. Placed /\ Numbered /\ Watches \subseteq Things
    BY <1>1 DEF LoopInv, Things
  <2>2. ASSUME NEW w \in Watches
        PROVE  Monitored(w)
    <3>1. /\ w \in Things
          /\ Source(World, w) = IF setup # 0 /\ w \in known \intersect enabled THEN setup ELSE 0
      BY <2>1 DEF Placed
    <3>2. IF Source(World, w) = 0 THEN SourcesOf(w) = {}
          ELSE \E h \in Handlers : SourcesOf(w) = {h} /\ handler[h].setup = Source(World, w)
      BY <1>1, <3>1, SourcesShape
    <3> QED
      BY <3>1, <3>2 DEF Monitored
  <2> QED
    BY <2>1, <2>2 DEF WatchesFollowContext, Numbered
<1> QED
  BY <1>1, LoopInvariance, PTL

\* Handlers and watches know each other, no source outlives its setup, a handler
\* that is off lasts no longer than its dispatch, and the move to another context
\* comes to an end (connection_setup_new_from_old, io_handler_destroy_source).
THEOREM HandlersAgree == Spec => []HandlersConsistent
<1>1. ASSUME LoopInv
      PROVE  HandlersConsistent
  <2>1. Linked(World, Busy) /\ Placed /\ ~spinning
    BY <1>1 DEF LoopInv
  <2>2. World.handler = handler /\ World.data = data
    BY DEF World
  <2>3. \A t \in Things : data[t] # None => handler[data[t]].thing = t
    BY <2>1, <2>2, LinkedShape
  <2>4. ASSUME NEW h \in Handlers, handler[h] # Free
        PROVE  /\ handler[h].thing # None => data[handler[h].thing] = h
               /\ IF handler[h].attached
                  THEN handler[h].setup = setup /\ handler[h].thing \in known \intersect enabled
                  ELSE h \in Busy
    <3>1. /\ handler[h].thing # None =>
               handler[h].thing \in Things /\ data[handler[h].thing] = h
          /\ handler[h].attached => handler[h].thing # None
          /\ ~handler[h].attached => h \in Busy
          /\ None \notin Handlers
      BY <2>1, <2>2, <2>4, LinkedShape
    <3>2. ASSUME handler[h].attached
          PROVE  handler[h].setup = setup /\ handler[h].thing \in known \intersect enabled
      <4>1. Source(World, handler[h].thing) = handler[h].setup
        BY <2>2, <3>1, <3>2 DEF Source
      <4>2. handler[h].setup # 0
        BY <1>1, <3>2, SetupOfAttached
      <4> QED
        BY <2>1, <3>1, <3>2, <4>1, <4>2 DEF Placed
    <3> QED
      BY <3>1, <3>2
  <2> QED
    BY <2>1, <2>3, <2>4 DEF HandlersConsistent
<1> QED
  BY <1>1, LoopInvariance, PTL
================================================================================
