--------------------------- MODULE RPCServerProofs ---------------------------
(* Proofs about the handler registry, for any groups, keys and calls of Close, *)
(* however they overlap: the map and the count agree with the handlers, and a  *)
(* failed registration leaves nothing behind, but for keys that two calls      *)
(* registered at once; and after a graceful Close nothing is served but by     *)
(* registrations that had begun before it.                                     *)
EXTENDS RPCServer, FiniteSetTheorems, TLAPS

-----------------------------------------------------------------------------
(* A handler is past its insertion into the map.                               *)
Lived == {"open", "closing", "done", "complete"}

(* How far each group has come, as a whole and handler by handler.             *)
GroupFits(g) ==
    /\ pos[g] > 0
    /\ limit[g] <= Len(Slice[g])
    /\ regPc[g] \in Registering \cup {"next"} => pos[g] <= Len(Slice[g])
    /\ target[g] # None => Deregistering(g) /\ pos[g] <= limit[g]

HandlerFits(h) ==
    /\ regPc[h[1]] \in {"next", "checked", "absent", "made", "counted"} =>
          (h[2] < pos[h[1]] <=> state[h] \in Lived)
    /\ regPc[h[1]] = "mapped" => (h[2] <= pos[h[1]] <=> state[h] \in Lived)
    /\ regPc[h[1]] \in {"registered", "deregister", "gone"} => state[h] \in Lived
    /\ regPc[h[1]] \in {"undo", "failed"} => (h[2] <= limit[h[1]] <=> state[h] \in Lived)
    /\ state[h] = "made" <=> regPc[h[1]] = "made" /\ h[2] = pos[h[1]]
    /\ state[h] = "counted" <=> regPc[h[1]] = "counted" /\ h[2] = pos[h[1]]

Progress ==
    /\ \A g \in Groups : GroupFits(g)
    /\ \A h \in Handlers : HandlerFits(h)

(* What is deregistered has completed, position by position, if its key was    *)
(* not registered twice at once.                                               *)
UndoneFits(h) ==
    \/ /\ Deregistering(h[1]) /\ h[2] < pos[h[1]] /\ h[2] <= limit[h[1]] => state[h] = "complete"
       /\ target[h[1]] # None /\ h[2] = pos[h[1]] => target[h[1]] = h \/ state[h] = "complete"
       /\ regPc[h[1]] = "failed" => state[h] \in {"none", "complete"}
    \/ KeyOf(h) \in raced

Undone == \A h \in Handlers : UndoneFits(h)

(* What history notes: two calls that register the same key, and every         *)
(* registration under way while or after Close runs.                           *)
Apart ==
    /\ \A g, o \in Groups : g # o /\ regPc[g] \in Making /\ regPc[o] \in Making
                            /\ Key(g) = Key(o) => Key(g) \in raced
    /\ \A c \in Calls : closePc[c] # "idle" => owner # None
    /\ owner # None =>
        /\ InCallback \/ broken
        /\ \A g \in Groups : regPc[g] \in Begun => This(g) \in late

(* The map has the handlers that live, and room for the one being registered.  *)
Mapped ==
    \A h \in Handlers : state[h] \in {"open", "closing", "done"} =>
        handlers[KeyOf(h)] = h \/ KeyOf(h) \in raced

Roomy == \A g \in Groups : regPc[g] \in Making => handlers[Key(g)] = None \/ Key(g) \in raced

MapFits == Mapped /\ Roomy

Counted == {h \in Handlers : state[h] \in {"counted", "open", "closing"}}

CountFits == active = Cardinality(Counted)

(* A request is in flight at a handler that lives, and no longer than its      *)
(* graceful close.                                                             *)
WorkFits ==
    \A h \in inFlight :
        ~IsStream(h) /\ state[h] \in Lived
        /\ (state[h] \in {"done", "complete"} => h \in forced)

(* A graceful Close that returned found, and left, nobody to wait for but the  *)
(* late ones.                                                                  *)
QuietAfter ==
    (\E c \in Calls \ ForceCalls : closePc[c] = "returned") =>
        \A h \in Handlers \ late : state[h] \in {"none", "done", "complete"}

ServerInv ==
    TypeOK /\ Progress /\ Undone /\ Apart /\ MapFits /\ CountFits /\ WorkFits /\ QuietAfter

-----------------------------------------------------------------------------
(* A slice has at least one key, and a handler is a group and a position.      *)
LEMMA HandlerFacts ==
  /\ \A g \in Groups : /\ Len(Slice[g]) \in Nat \ {0} /\ DOMAIN Slice[g] = 1..Len(Slice[g])
                       /\ \A i \in 1..Len(Slice[g]) : <<g, i>> \in Handlers /\ Slice[g][i] \in Keys
  /\ \A h \in Handlers : /\ h[1] \in Groups /\ h[2] \in 1..Len(Slice[h[1]])
                         /\ h = <<h[1], h[2]>> /\ KeyOf(h) \in Keys
  /\ None \notin Handlers /\ None \notin Calls
<1>1. \A g \in Groups : /\ Len(Slice[g]) \in Nat \ {0} /\ DOMAIN Slice[g] = 1..Len(Slice[g])
                        /\ Slice[g] \in Seq(Keys)
  BY ServerAssumption
<1>2. ASSUME NEW g \in Groups, NEW i \in 1..Len(Slice[g])
      PROVE  <<g, i>> \in Handlers /\ Slice[g][i] \in Keys
  BY <1>1 DEF Handlers
<1>3. ASSUME NEW h \in Handlers
      PROVE  /\ h[1] \in Groups /\ h[2] \in 1..Len(Slice[h[1]])
             /\ h = <<h[1], h[2]>> /\ KeyOf(h) \in Keys
  <2>1. PICK g \in Groups : h \in {<<g, i>> : i \in DOMAIN Slice[g]}
    BY DEF Handlers
  <2>2. PICK i \in DOMAIN Slice[g] : h = <<g, i>>
    BY <2>1
  <2> QED
    BY <1>1, <1>2, <2>2 DEF KeyOf
<1> QED
  BY <1>1, <1>2, <1>3, ServerAssumption

(* There are finitely many handlers.                                           *)
LEMMA HandlersFinite == IsFiniteSet(Handlers)
<1> DEFINE Of(g) == {<<g, i>> : i \in DOMAIN Slice[g]}
           All == {Of(g) : g \in Groups}
<1>1. ASSUME NEW g \in Groups PROVE IsFiniteSet(Of(g))
  <2> DEFINE f == [i \in DOMAIN Slice[g] |-> <<g, i>>]
  <2>1. IsFiniteSet(DOMAIN Slice[g])
    <3>1. Len(Slice[g]) \in Int /\ DOMAIN Slice[g] = 1..Len(Slice[g]) /\ 1 \in Int
      BY HandlerFacts
    <3>2. IsFiniteSet(1..Len(Slice[g]))
      BY <3>1, FS_Interval
    <3> QED
      BY <3>1, <3>2
  <2>2. f \in Surjection(DOMAIN Slice[g], Of(g))
    BY DEF Surjection
  <2> HIDE DEF f, Of
  <2> QED
    BY <2>1, <2>2, FS_Surjection
<1>2. IsFiniteSet(All)
  <2> DEFINE f == [g \in Groups |-> Of(g)]
  <2>1. f \in Surjection(Groups, All)
    BY DEF Surjection
  <2> HIDE DEF f, All
  <2> QED
    BY <2>1, FS_Surjection, ServerAssumption
<1>3. \A T \in All : IsFiniteSet(T)
  BY <1>1
<1> HIDE DEF Of
<1>4. IsFiniteSet(UNION All)
  BY <1>2, <1>3, FS_UNION
<1> QED
  BY <1>4 DEF Handlers, Of

(* A set of handlers can be counted, and changes its count by one at a time.   *)
LEMMA Countable ==
  ASSUME NEW S \in SUBSET Handlers
  PROVE  /\ Cardinality(S) \in 0..Cardinality(Handlers)
         /\ Cardinality(S) = 0 => S = {}
         /\ \A h : Cardinality(S \cup {h}) = IF h \in S THEN Cardinality(S) ELSE Cardinality(S) + 1
         /\ \A h \in S : Cardinality(S \ {h}) = Cardinality(S) - 1
<1>1. IsFiniteSet(S) /\ Cardinality(S) <= Cardinality(Handlers)
  BY HandlersFinite, FS_Subset
<1>2. Cardinality(S) \in Nat /\ Cardinality(Handlers) \in Nat
  BY <1>1, HandlersFinite, FS_CardinalityType
<1>3. Cardinality(S) = 0 => S = {}
  BY <1>1, FS_EmptySet
<1>4. \A h : Cardinality(S \cup {h}) = IF h \in S THEN Cardinality(S) ELSE Cardinality(S) + 1
  BY <1>1, FS_AddElement
<1>5. \A h \in S : Cardinality(S \ {h}) = Cardinality(S) - 1
  BY <1>1, FS_RemoveElement
<1> QED
  BY <1>1, <1>2, <1>3, <1>4, <1>5

(* Initially no group has begun and nobody closes.                             *)
LEMMA InitServer == Init => ServerInv
<1> SUFFICES ASSUME Init PROVE ServerInv
  OBVIOUS
<1>0. Counted = {} /\ Cardinality({}) = 0
  BY FS_EmptySet DEF Init, Counted
<1>1. CountFits /\ active \in 0..Cardinality(Handlers)
  BY <1>0, Countable DEF Init, CountFits
<1>2. TypeOK
  BY <1>1 DEF Init, TypeOK, history, Registering, Begun, Making
<1>3. Progress
  BY HandlerFacts DEF Init, Progress, GroupFits, HandlerFits, Registering, Begun, Making, Lived
<1>4. Undone /\ Apart /\ MapFits /\ WorkFits /\ QuietAfter
  BY HandlerFacts DEF Init, Undone, UndoneFits, history, Deregistering, Apart, Key, This, Begun,
     Making, Registering, MapFits, Mapped, Roomy, WorkFits, QuietAfter
<1> QED
  BY <1>1, <1>2, <1>3, <1>4 DEF ServerInv

-----------------------------------------------------------------------------
(* What is left alone when no handler, entry, count or request changes.        *)
LEMMA Untouched ==
  ASSUME ServerInv, UNCHANGED <<mapVars, state, forced, workVars>>,
         raced \subseteq raced', late \subseteq late'
  PROVE  /\ CountFits' /\ WorkFits' /\ (closePc' = closePc => QuietAfter')
         /\ Mapped'
         /\ UNCHANGED active
  BY DEF ServerInv, MapFits, Mapped, CountFits, Counted, WorkFits, QuietAfter, mapVars, workVars

(* A group that registers is at a position of its slice.                       *)
LEMMA AtPosition ==
  ASSUME ServerInv, NEW g \in Groups, regPc[g] \in Registering \cup {"next"}
  PROVE  /\ pos[g] \in 1..Len(Slice[g]) /\ Len(Slice[g]) \in Nat /\ target[g] = None
         /\ This(g) \in Handlers /\ Key(g) \in Keys /\ KeyOf(This(g)) = Key(g)
<1>1. Len(Slice[g]) \in Nat /\ pos[g] \in Nat
  BY HandlerFacts DEF ServerInv, TypeOK
<1>2. pos[g] > 0 /\ pos[g] <= Len(Slice[g]) /\ target[g] = None
  BY DEF ServerInv, Progress, GroupFits, Registering, Begun, Making, Deregistering
<1>3. pos[g] \in 1..Len(Slice[g])
  BY <1>1, <1>2
<1> QED
  BY <1>1, <1>2, <1>3, HandlerFacts DEF This, Key, KeyOf

(* A failed registration begins to undo the group's earlier ones.              *)
LEMMA FailInv ==
  ASSUME ServerInv, NEW g \in Groups, regPc[g] \in {"next", "checked", "absent"}, Fail(g),
         UNCHANGED <<target, mapVars, onceVars, state, forced, workVars, history>>
  PROVE  ServerInv'
<1> USE DEF ServerInv, Fail
<1>1. CountFits' /\ WorkFits' /\ QuietAfter'
      /\ Mapped'
  BY Untouched DEF onceVars, history
<1>2. /\ pos[g] \in 1..Len(Slice[g]) /\ Len(Slice[g]) \in Nat /\ target[g] = None
  BY AtPosition DEF Registering, Begun, Making
<1>3. \A o \in Groups : /\ regPc'[o] = IF o = g THEN "undo" ELSE regPc[o]
                        /\ limit'[o] = IF o = g THEN pos[g] - 1 ELSE limit[o]
                        /\ pos'[o] = IF o = g THEN 1 ELSE pos[o]
  BY DEF TypeOK, history
<1>4. TypeOK'
  BY <1>2 DEF TypeOK, history, mapVars, onceVars, workVars, Registering, Begun, Making
<1>5. Progress'
  BY <1>2, <1>3, HandlerFacts DEF Progress, GroupFits, HandlerFits, Deregistering, Registering,
     Begun, Making, TypeOK, history
<1>6. Undone'
  BY <1>2, <1>3, HandlerFacts DEF Undone, UndoneFits, history, Deregistering, TypeOK
<1>7. Apart'
  BY <1>3 DEF Apart, Key, This, history, Begun, Making, InCallback, Registering, onceVars
<1>8. MapFits'
  BY <1>1, <1>3 DEF MapFits, Mapped, Roomy, history, Making, Key, mapVars
<1> QED
  BY <1>1, <1>4, <1>5, <1>6, <1>7, <1>8

(* The checks before a handler is made: whoever passes the first one beside    *)
(* Close is noted as late, and whoever passes the second one with another call *)
(* for the same key has its key noted as raced.                                *)
LEMMA CheckInv ==
  ASSUME ServerInv, NEW g \in Groups, CheckShutdown(g) \/ CheckExists(g)
  PROVE  ServerInv'
<1> USE DEF ServerInv
<1>1. CASE regPc[g] \in {"next", "checked", "absent"} /\ Fail(g) /\ UNCHANGED history
  BY <1>1, FailInv DEF CheckShutdown, CheckExists
<1>2. ASSUME NEW from \in {"next", "checked"}, NEW to \in {"checked", "absent"},
             regPc[g] = from, regPc' = [regPc EXCEPT ![g] = to],
             to = "absent" => from = "checked",
             UNCHANGED <<pos, limit, target, mapVars, onceVars, state, forced, workVars>>,
             raced \subseteq raced', raced' \subseteq Keys, late \subseteq late', late' \subseteq Handlers
      PROVE  /\ CountFits' /\ WorkFits' /\ QuietAfter' /\ Mapped' /\ TypeOK' /\ Progress' /\ Undone'
             /\ \A o \in Groups : regPc'[o] = IF o = g THEN to ELSE regPc[o]
  <2>3. CountFits' /\ WorkFits' /\ QuietAfter' /\ Mapped'
    BY <1>2, Untouched DEF onceVars, history
  <2>4. \A o \in Groups : regPc'[o] = IF o = g THEN to ELSE regPc[o]
    BY <1>2 DEF TypeOK
  <2>5. TypeOK'
    BY <1>2 DEF TypeOK, mapVars, onceVars, workVars, Registering, Begun, Making
  <2>6. Progress'
    BY <1>2, <2>4, HandlerFacts DEF Progress, GroupFits, HandlerFits, Deregistering, Registering,
       Begun, Making
  <2>7. Undone'
    BY <1>2, <2>4, HandlerFacts DEF Undone, UndoneFits, Deregistering
  <2> QED
    BY <2>3, <2>4, <2>5, <2>6, <2>7
<1>3. CASE CheckShutdown(g) /\ ~broken /\ Reg(g, "next", "checked") /\ UNCHANGED <<pos, limit>>
           /\ late' = IF InCallback THEN late \cup {This(g)} ELSE late
  <2>1. /\ regPc[g] = "next" /\ regPc' = [regPc EXCEPT ![g] = "checked"]
        /\ UNCHANGED <<pos, limit, target, mapVars, onceVars, state, forced, workVars>>
        /\ UNCHANGED raced
    BY <1>3 DEF CheckShutdown, Reg
  <2>2. This(g) \in Handlers
    BY <2>1, AtPosition
  <2>3. /\ CountFits' /\ WorkFits' /\ QuietAfter' /\ Mapped' /\ TypeOK' /\ Progress' /\ Undone'
        /\ \A o \in Groups : regPc'[o] = IF o = g THEN "checked" ELSE regPc[o]
    BY <1>2, <1>3, <2>1, <2>2 DEF TypeOK
  <2>4. Apart'
    BY <1>3, <2>1, <2>3 DEF Apart, Key, This, Begun, Making, InCallback, onceVars
  <2>5. Roomy'
    BY <2>1, <2>3 DEF MapFits, Roomy, Key, Making, mapVars
  <2> QED
    BY <2>3, <2>4, <2>5 DEF MapFits
<1>4. CASE CheckExists(g) /\ handlers[Key(g)] = None /\ Reg(g, "checked", "absent") /\ Race(g)
           /\ UNCHANGED <<pos, limit>>
  <2>1. /\ regPc[g] = "checked" /\ regPc' = [regPc EXCEPT ![g] = "absent"]
        /\ UNCHANGED <<pos, limit, target, mapVars, onceVars, state, forced, workVars>>
        /\ UNCHANGED late
    BY <1>4 DEF CheckExists, Reg
  <2>2. /\ Key(g) \in Keys /\ raced \subseteq raced' /\ raced' \subseteq raced \cup {Key(g)}
        /\ (\E o \in Groups \ {g} : regPc[o] \in Making /\ Key(o) = Key(g)) => Key(g) \in raced'
    BY <1>4, <2>1, AtPosition DEF Race, Registering, Begun
  <2>3. /\ CountFits' /\ WorkFits' /\ QuietAfter' /\ Mapped' /\ TypeOK' /\ Progress' /\ Undone'
        /\ \A o \in Groups : regPc'[o] = IF o = g THEN "absent" ELSE regPc[o]
    BY <1>2, <2>1, <2>2 DEF TypeOK
  <2>4. Apart'
    BY <2>1, <2>2, <2>3 DEF Apart, Key, This, Begun, Making, InCallback, onceVars
  <2>5. Roomy'
    BY <1>4, <2>1, <2>2, <2>3 DEF MapFits, Roomy, Key, Making, mapVars
  <2> QED
    BY <2>3, <2>4, <2>5 DEF MapFits
<1> QED
  BY <1>1, <1>3, <1>4 DEF CheckShutdown, CheckExists, history

(* The handler is made, counted, mapped and run.                               *)
LEMMA MakeInv ==
  ASSUME ServerInv, NEW g \in Groups, NewHandler(g) \/ Count(g) \/ Insert(g)
  PROVE  ServerInv'
<1> USE DEF ServerInv
<1> DEFINE a == This(g)
<1>0. regPc[g] \in {"absent", "made", "counted"}
  BY DEF NewHandler, Count, Insert, Reg
<1>1. /\ pos[g] \in 1..Len(Slice[g]) /\ a \in Handlers /\ a[1] = g /\ a[2] = pos[g]
      /\ KeyOf(a) = Key(g) /\ Key(g) \in Keys /\ target[g] = None
      /\ handlers[Key(g)] = None \/ Key(g) \in raced
  BY <1>0, HandlerFacts DEF Progress, GroupFits, HandlerFits, Registering, Begun, Making,
     Deregistering, TypeOK, history, This, KeyOf, Key, MapFits, Mapped, Roomy
<1>2. PICK to \in {"made", "counted", "mapped"}, st \in {"made", "counted", "open"} :
        /\ regPc' = [regPc EXCEPT ![g] = to] /\ state' = [state EXCEPT ![a] = st]
        /\ to = "made" => st = "made" /\ regPc[g] = "absent" /\ UNCHANGED <<handlers, active>>
        /\ to = "counted" => st = "counted" /\ regPc[g] = "made" /\ UNCHANGED handlers
                             /\ active' = active + 1
        /\ to = "mapped" => st = "open" /\ regPc[g] = "counted" /\ UNCHANGED active
                            /\ handlers' = [handlers EXCEPT ![Key(g)] = a]
  BY DEF NewHandler, Count, Insert, Reg, mapVars
<1>3. UNCHANGED <<pos, limit, target, onceVars, forced, workVars, history>>
  BY DEF NewHandler, Count, Insert
<1>4. \A h \in Handlers : h = a <=> h[1] = g /\ h[2] = pos[g]
  BY <1>1, HandlerFacts
<1> HIDE DEF a
<1>5. /\ \A o \in Groups : regPc'[o] = IF o = g THEN to ELSE regPc[o]
      /\ \A h \in Handlers : state'[h] = IF h = a THEN st ELSE state[h]
  BY <1>2 DEF TypeOK, history
<1>6. state[a] = IF to = "made" THEN "none" ELSE IF to = "counted" THEN "made" ELSE "counted"
  <2>1. state[a] \notin Lived
    BY <1>0, <1>1 DEF Progress, GroupFits, HandlerFits, TypeOK, history
  <2>2. /\ state[a] = "made" <=> regPc[g] = "made"
        /\ state[a] = "counted" <=> regPc[g] = "counted"
    BY <1>1 DEF Progress, GroupFits, HandlerFits
  <2> QED
    BY <1>1, <1>2, <2>1, <2>2 DEF Lived, TypeOK, history
<1>7. CountFits' /\ active' \in 0..Cardinality(Handlers)
  <2>1. Counted \in SUBSET Handlers /\ Counted' \in SUBSET Handlers
    BY DEF Counted
  <2>2. CASE to = "counted"
    <3>1. Counted' = Counted \cup {a} /\ a \notin Counted
      BY <1>1, <1>2, <1>5, <1>6, <2>2 DEF Counted
    <3>2. Cardinality(Counted') = Cardinality(Counted) + 1
      BY <2>1, <3>1, Countable
    <3> QED
      BY <1>2, <2>1, <2>2, <3>2, Countable DEF CountFits
  <2>3. CASE to # "counted"
    <3>1. Counted' = Counted
      BY <1>1, <1>2, <1>5, <1>6, <2>3 DEF Counted
    <3> QED
      BY <1>2, <2>1, <2>3, <3>1, Countable DEF CountFits
  <2> QED BY <2>2, <2>3
<1>8. TypeOK'
  <2>1. handlers' \in [Keys -> Handlers \cup {None}]
    <3>1. handlers \in [Keys -> Handlers \cup {None}]
      BY DEF TypeOK, history
    <3>2. handlers' = handlers \/ handlers' = [handlers EXCEPT ![Key(g)] = a]
      BY <1>2
    <3> QED
      BY <1>1, <3>1, <3>2
  <2>2. /\ regPc' \in [Groups -> Registering \cup {"next", "registered", "undo", "failed",
                                                   "deregister", "gone"}]
        /\ state' \in [Handlers -> {"none", "made", "counted", "open", "closing", "done", "complete"}]
    BY <1>1, <1>2 DEF TypeOK, history, Registering, Begun, Making
  <2> QED
    BY <1>3, <1>7, <2>1, <2>2 DEF TypeOK, history, onceVars, workVars
<1>9. Progress'
  <2>1. ASSUME NEW o \in Groups
        PROVE  GroupFits(o)'
    BY <1>0, <1>1, <1>3, <1>5 DEF Progress, GroupFits, HandlerFits, Registering, Begun, Making,
       Deregistering
  <2>2. ASSUME NEW h \in Handlers, h = a
        PROVE  HandlerFits(h)'
    BY <2>2, <1>1, <1>2, <1>3, <1>5 DEF HandlerFits, Lived
  <2>3. ASSUME NEW h \in Handlers, h # a
        PROVE  HandlerFits(h)'
    <3>1. h[1] \in Groups /\ h[2] \in Nat /\ pos[h[1]] \in Nat /\ state'[h] = state[h]
          /\ (h[1] = g => h[2] # pos[g])
      BY <2>3, <1>4, <1>5, HandlerFacts DEF TypeOK, history
    <3> QED
      BY <3>1, <1>0, <1>1, <1>2, <1>3, <1>5 DEF Progress, GroupFits, HandlerFits
  <2> QED
    BY <2>1, <2>2, <2>3 DEF Progress
<1>10. Undone'
  BY <1>0, <1>1, <1>2, <1>3, <1>5, HandlerFacts DEF Undone, UndoneFits, history, Deregistering
<1>11. Apart' /\ QuietAfter'
  <2>1. owner # None => a \in late
    BY <1>0 DEF Apart, Begun, Making, a
  <2>2. \A o \in Groups : regPc'[o] \in Making => regPc[o] \in Making
    BY <1>0, <1>5 DEF Making
  <2>3. \A o \in Groups : regPc'[o] \in Begun => regPc[o] \in Begun
    BY <1>0, <1>5 DEF Making, Begun
  <2>4. Apart'
    BY <1>3, <2>2, <2>3 DEF Apart, Key, This, InCallback, onceVars, history
  <2>5. QuietAfter'
    BY <1>3, <1>5, <2>1 DEF Apart, QuietAfter, onceVars, history
  <2> QED BY <2>4, <2>5
<1>12. WorkFits'
  BY <1>3, <1>5, <1>6, <1>2 DEF WorkFits, workVars, Lived, TypeOK
<1>13. MapFits'
  <2>2. ASSUME NEW h \in Handlers, state'[h] \in {"open", "closing", "done"}, KeyOf(h) \notin raced
        PROVE  handlers'[KeyOf(h)] = h
    <3>1. CASE h = a
      BY <1>1, <1>2, <1>5, <2>2, <3>1 DEF TypeOK
    <3>2. CASE h # a
      <4>1. handlers[KeyOf(h)] = h /\ KeyOf(h) # Key(g)
        BY <1>1, <1>5, <2>2, <3>2, HandlerFacts DEF MapFits, Mapped
      <4> QED
        BY <4>1, <1>2, HandlerFacts DEF TypeOK
    <3> QED BY <3>1, <3>2
  <2>3. ASSUME NEW o \in Groups, regPc'[o] \in Making, Key(o) \notin raced
        PROVE  handlers'[Key(o)] = None
    <3>1. CASE o = g
      BY <3>1, <1>1, <1>2, <1>5, <2>3 DEF Making
    <3>2. CASE o # g
      <4>1. regPc[o] \in Making /\ regPc[g] \in Making
        BY <1>0, <1>5, <2>3, <3>2 DEF Making
      <4>2. Key(o) # Key(g) /\ handlers[Key(o)] = None /\ Key(o) \in Keys
        BY <2>3, <3>2, <4>1, AtPosition DEF Apart, MapFits, Roomy, Registering, Begun
      <4> QED
        BY <1>2, <4>2 DEF TypeOK
    <3> QED BY <3>1, <3>2
  <2> QED
    BY <1>3, <2>2, <2>3 DEF MapFits, Mapped, Roomy, Key, history
<1> QED
  BY <1>7, <1>8, <1>9, <1>10, <1>11, <1>12, <1>13

(* The run loop starts and the group goes on to its next key.                  *)
LEMMA RunInv ==
  ASSUME ServerInv, NEW g \in Groups, Run(g)
  PROVE  ServerInv'
<1> USE DEF ServerInv
<1>0. regPc[g] = "mapped"
  BY DEF Run, Reg
<1>1. /\ pos[g] \in 1..Len(Slice[g]) /\ This(g) \in Handlers /\ target[g] = None
      /\ Len(Slice[g]) \in Nat
  <2>1. Len(Slice[g]) \in Nat /\ pos[g] \in Nat
    BY HandlerFacts DEF TypeOK, history
  <2>2. pos[g] > 0 /\ pos[g] <= Len(Slice[g]) /\ target[g] = None
    BY <1>0 DEF Progress, GroupFits, Registering, Begun, Making, Deregistering
  <2>3. pos[g] \in 1..Len(Slice[g])
    BY <2>1, <2>2
  <2> QED
    BY <2>1, <2>2, <2>3, HandlerFacts DEF This
<1> DEFINE to == IF pos[g] = Len(Slice[g]) THEN "registered" ELSE "next"
           n == IF pos[g] = Len(Slice[g]) THEN pos[g] ELSE pos[g] + 1
<1>2. /\ to \in {"registered", "next"} /\ n \in Nat
      /\ regPc' = [regPc EXCEPT ![g] = to] /\ pos' = [pos EXCEPT ![g] = n]
      /\ to = "registered" => pos[g] = Len(Slice[g]) /\ n = pos[g]
      /\ to = "next" => n = pos[g] + 1 /\ n <= Len(Slice[g])
  BY <1>1 DEF Run, Reg
<1> HIDE DEF to, n
<1>3. /\ running' = running \cup {This(g)}
      /\ UNCHANGED <<limit, target, mapVars, onceVars, state, forced, drained, inFlight, history>>
  BY DEF Run
<1>4. \A o \in Groups : /\ regPc'[o] = IF o = g THEN to ELSE regPc[o]
                        /\ pos'[o] = IF o = g THEN n ELSE pos[o]
  BY <1>2 DEF TypeOK, history
<1>5. TypeOK'
  BY <1>1, <1>2, <1>3 DEF TypeOK, history, mapVars, onceVars, Registering, Begun, Making
<1>6. Progress'
  <2>1. ASSUME NEW o \in Groups
        PROVE  GroupFits(o)'
    BY <1>0, <1>1, <1>2, <1>3, <1>4 DEF Progress, GroupFits, HandlerFits, Registering, Begun,
       Making, Deregistering
  <2>2. ASSUME NEW h \in Handlers
        PROVE  HandlerFits(h)'
    <3>1. h[1] \in Groups /\ h[2] \in 1..Len(Slice[h[1]]) /\ pos[h[1]] \in Nat /\ state'[h] = state[h]
      BY <1>3, HandlerFacts DEF TypeOK, history
    <3> QED
      BY <3>1, <1>0, <1>1, <1>2, <1>3, <1>4 DEF Progress, GroupFits, HandlerFits
  <2> QED
    BY <2>1, <2>2 DEF Progress
<1>7. Undone'
  BY <1>0, <1>1, <1>2, <1>3, <1>4, HandlerFacts DEF Undone, UndoneFits, history, Deregistering
<1>8. Apart'
  BY <1>2, <1>3, <1>4 DEF Apart, Key, This, history, Begun, Making, InCallback, Registering,
     onceVars
<1>9. MapFits'
  BY <1>2, <1>3, <1>4 DEF MapFits, Mapped, Roomy, history, Making, Key, mapVars
<1>10. CountFits' /\ WorkFits' /\ QuietAfter'
  BY <1>3 DEF CountFits, Counted, WorkFits, QuietAfter, history, mapVars, onceVars
<1> QED
  BY <1>5, <1>6, <1>7, <1>8, <1>9, <1>10

-----------------------------------------------------------------------------
(* A handler that goes on living, where no group moves.                        *)
LEMMA LivesOn ==
  ASSUME ServerInv, NEW a \in Handlers, state[a] \in {"open", "closing", "done"},
         NEW to \in Lived, state' = [state EXCEPT ![a] = to],
         UNCHANGED <<regPc, pos, limit, onceVars, history>>
  PROVE  /\ \A h \in Handlers : HandlerFits(h)'
         /\ \A h \in Handlers : regPc'[h[1]] = "failed" =>
                 state'[h] \in {"none", "complete"} \/ KeyOf(h) \in raced
         /\ \A h \in Handlers : state[h] = "complete" => state'[h] = "complete"
         /\ Apart'
         /\ (state[a] = "done" => to = "complete") => QuietAfter'
<1> USE DEF ServerInv
<1>1. \A h \in Handlers : state'[h] = IF h = a THEN to ELSE state[h]
  BY DEF TypeOK, history
<1>2. \A h \in Handlers : HandlerFits(h)'
  BY <1>1 DEF Progress, HandlerFits, Lived
<1>3. /\ \A h \in Handlers : regPc'[h[1]] = "failed" =>
                 state'[h] \in {"none", "complete"} \/ KeyOf(h) \in raced
      /\ \A h \in Handlers : state[h] = "complete" => state'[h] = "complete"
  BY <1>1 DEF Undone, UndoneFits, history
<1>4. Apart'
  BY DEF Apart, Key, This, history, Begun, Making, InCallback, onceVars
<1>5. (state[a] = "done" => to = "complete") => QuietAfter'
  BY <1>1 DEF QuietAfter, history, onceVars
<1> QED
  BY <1>2, <1>3, <1>4, <1>5

(* The first closer of a handler sets it closing; every other one waits.       *)
LEMMA CloseHandlerInv ==
  ASSUME ServerInv, NEW a \in Handlers, CloseHandler(a, TRUE) \/ CloseHandler(a, FALSE),
         UNCHANGED <<regPc, pos, limit, mapVars, onceVars, workVars, history>>
  PROVE  /\ \A h \in Handlers : HandlerFits(h)'
         /\ \A h \in Handlers : regPc'[h[1]] = "failed" =>
                 state'[h] \in {"none", "complete"} \/ KeyOf(h) \in raced
         /\ \A h \in Handlers : state[h] = "complete" => state'[h] = "complete"
         /\ state' \in [Handlers -> {"none", "made", "counted", "open", "closing", "done",
                                     "complete"}]
         /\ forced' \subseteq Handlers
         /\ Apart' /\ QuietAfter' /\ MapFits' /\ CountFits' /\ WorkFits'
<1> USE DEF ServerInv
<1>1. CASE state[a] # "open"
  <2>1. UNCHANGED <<state, forced>>
    BY <1>1 DEF CloseHandler
  <2>2. \A h \in Handlers : HandlerFits(h)'
    BY <2>1 DEF Progress, HandlerFits
  <2>3. Apart' /\ QuietAfter' /\ MapFits' /\ CountFits' /\ WorkFits'
    BY <2>1 DEF Apart, Key, This, history, Begun, Making, QuietAfter, MapFits, Mapped, Roomy,
       CountFits, Counted, WorkFits, InCallback, onceVars, mapVars, workVars
  <2> QED
    BY <2>1, <2>2, <2>3 DEF Undone, UndoneFits, history, TypeOK
<1>2. CASE state[a] = "open"
  <2>1. /\ state' = [state EXCEPT ![a] = "closing"] /\ forced \subseteq forced'
        /\ forced' \subseteq forced \cup {a}
    BY <1>2 DEF CloseHandler
  <2>2. \A h \in Handlers : state'[h] = IF h = a THEN "closing" ELSE state[h]
    BY <2>1 DEF TypeOK, history
  <2>3. /\ \A h \in Handlers : HandlerFits(h)'
        /\ \A h \in Handlers : regPc'[h[1]] = "failed" =>
                 state'[h] \in {"none", "complete"} \/ KeyOf(h) \in raced
        /\ \A h \in Handlers : state[h] = "complete" => state'[h] = "complete"
        /\ Apart' /\ QuietAfter'
    BY <1>2, <2>1, LivesOn DEF Lived
  <2>4. MapFits'
    BY <1>2, <2>2 DEF MapFits, Mapped, Roomy, history, Making, Key, mapVars
  <2>5. CountFits'
    <3>1. Counted' = Counted
      BY <1>2, <2>2 DEF Counted
    <3> QED
      BY <3>1 DEF CountFits, mapVars
  <2>6. WorkFits'
    BY <2>1, <2>2 DEF WorkFits, workVars, Lived, TypeOK, history
  <2> QED
    BY <2>1, <2>3, <2>4, <2>5, <2>6 DEF TypeOK, history
<1> QED
  BY <1>1, <1>2

(* The callback of Once closes a handler it found.                             *)
LEMMA CloseOneInv ==
  ASSUME ServerInv, NEW a \in Handlers, CloseOne(a)
  PROVE  ServerInv'
<1> USE DEF ServerInv
<1>1. /\ CloseHandler(a, TRUE) \/ CloseHandler(a, FALSE)
      /\ UNCHANGED <<mapVars, groupVars, onceVars, workVars, history>>
  BY DEF CloseOne, CloseHandler
<1>2. /\ \A h \in Handlers : HandlerFits(h)'
      /\ \A h \in Handlers : regPc'[h[1]] = "failed" =>
                 state'[h] \in {"none", "complete"} \/ KeyOf(h) \in raced
      /\ \A h \in Handlers : state[h] = "complete" => state'[h] = "complete"
      /\ state' \in [Handlers -> {"none", "made", "counted", "open", "closing", "done", "complete"}]
      /\ forced' \subseteq Handlers
      /\ Apart' /\ QuietAfter' /\ MapFits' /\ CountFits' /\ WorkFits'
  BY <1>1, CloseHandlerInv DEF groupVars
<1>3. TypeOK'
  BY <1>1, <1>2 DEF TypeOK, history, mapVars, groupVars, onceVars, workVars
<1>4. Progress'
  BY <1>1, <1>2 DEF Progress, GroupFits, Deregistering, groupVars
<1>5. Undone'
  BY <1>1, <1>2 DEF Undone, UndoneFits, history, Deregistering, groupVars
<1> QED
  BY <1>2, <1>3, <1>4, <1>5

(* The close of a handler completes.                                           *)
LEMMA CompleteInv ==
  ASSUME ServerInv, NEW a \in Handlers, CompleteStep(a)
  PROVE  ServerInv'
<1> USE DEF ServerInv
<1>1. UNCHANGED <<groupVars, onceVars, forced, workVars, history>>
  BY DEF CompleteStep, ActiveDone, Complete
<1>2. PICK to \in {"done", "complete"} :
        /\ state' = [state EXCEPT ![a] = to]
        /\ to = "done" => /\ state[a] = "closing" /\ MayComplete(a)
                          /\ active' = active - 1 /\ UNCHANGED handlers
        /\ to = "complete" => /\ state[a] = "done" /\ UNCHANGED active
                              /\ handlers' = [handlers EXCEPT ![KeyOf(a)] = None]
  BY DEF CompleteStep, ActiveDone, Complete
<1>3. \A h \in Handlers : state'[h] = IF h = a THEN to ELSE state[h]
  BY <1>2 DEF TypeOK, history
<1>4. /\ \A h \in Handlers : HandlerFits(h)'
      /\ \A h \in Handlers : regPc'[h[1]] = "failed" =>
                 state'[h] \in {"none", "complete"} \/ KeyOf(h) \in raced
      /\ \A h \in Handlers : state[h] = "complete" => state'[h] = "complete"
      /\ Apart' /\ QuietAfter'
  BY <1>1, <1>2, LivesOn DEF Lived, groupVars
<1>5. CountFits' /\ active' \in 0..Cardinality(Handlers)
  <2>1. Counted \in SUBSET Handlers /\ Counted' \in SUBSET Handlers
    BY DEF Counted
  <2>2. CASE to = "done"
    <3>1. Counted' = Counted \ {a} /\ a \in Counted
      BY <1>2, <1>3, <2>2 DEF Counted
    <3>2. Cardinality(Counted') = Cardinality(Counted) - 1
      BY <2>1, <3>1, Countable
    <3> QED
      BY <1>2, <2>1, <2>2, <3>2, Countable DEF CountFits
  <2>3. CASE to = "complete"
    <3>1. Counted' = Counted
      BY <1>2, <1>3, <2>3 DEF Counted
    <3> QED
      BY <1>2, <2>1, <2>3, <3>1, Countable DEF CountFits
  <2> QED BY <2>2, <2>3
<1>6. MapFits' /\ handlers' \in [Keys -> Handlers \cup {None}]
  <2>1. CASE to = "done"
    BY <1>1, <1>2, <1>3, <2>1 DEF MapFits, Mapped, Roomy, history, Making, Key, groupVars, TypeOK
  <2>2. CASE to = "complete"
    <3>1. (handlers[KeyOf(a)] = a \/ KeyOf(a) \in raced) /\ KeyOf(a) \in Keys
      BY <1>2, <2>2, HandlerFacts DEF MapFits, Mapped
    <3>2. \A k \in Keys : handlers'[k] = IF k = KeyOf(a) THEN None ELSE handlers[k]
      BY <1>2, <2>2 DEF TypeOK
    <3>3. ASSUME NEW h \in Handlers, state'[h] \in {"open", "closing", "done"}, KeyOf(h) \notin raced
          PROVE  handlers'[KeyOf(h)] = h
      <4>1. h # a /\ handlers[KeyOf(h)] = h /\ KeyOf(h) \in Keys
        BY <1>3, <2>2, <3>3, HandlerFacts DEF MapFits, Mapped
      <4> QED
        BY <3>1, <3>2, <3>3, <4>1
    <3>4. ASSUME NEW g \in Groups, regPc[g] \in Making, Key(g) \notin raced
          PROVE  handlers'[Key(g)] = None
      <4>1. handlers[Key(g)] = None
        BY <3>4 DEF MapFits, Roomy
      <4>2. Key(g) \in Keys
        BY <3>4, AtPosition DEF Registering, Begun
      <4> QED
        BY <3>2, <4>1, <4>2
    <3>5. MapFits'
      BY <1>1, <3>3, <3>4 DEF MapFits, Mapped, Roomy, Key, groupVars, history
    <3> QED
      BY <1>2, <2>2, <3>5 DEF TypeOK
  <2> QED BY <2>1, <2>2
<1>7. TypeOK'
  BY <1>1, <1>2, <1>5, <1>6 DEF TypeOK, history, groupVars, onceVars, workVars
<1>8. Progress' /\ Undone'
  BY <1>1, <1>4 DEF Progress, GroupFits, Undone, UndoneFits, history, Deregistering, groupVars
<1>9. WorkFits'
  <2>1. to = "done" /\ a \in inFlight => a \in forced
    BY <1>2 DEF MayComplete, WorkFits
  <2>2. to = "complete" /\ a \in inFlight => a \in forced
    BY <1>2 DEF WorkFits
  <2> QED
    BY <1>1, <1>3, <2>1, <2>2 DEF WorkFits, workVars, Lived, TypeOK, history
<1> QED
  BY <1>4, <1>5, <1>6, <1>7, <1>8, <1>9

(* Requests come and go, and the run loop drains.                              *)
LEMMA WorkInv ==
  ASSUME ServerInv, NEW a \in Handlers, TakeRequest(a) \/ EndRequest(a) \/ Drain(a)
  PROVE  ServerInv'
<1> USE DEF ServerInv
<1>1. UNCHANGED <<mapVars, groupVars, onceVars, state, forced, running, history>>
  BY DEF TakeRequest, EndRequest, Drain
<1>2. /\ inFlight' \subseteq inFlight \cup {a}
      /\ drained' \subseteq drained \cup {a}
      /\ a \in inFlight' => a \in inFlight \/ (~IsStream(a) /\ state[a] \in {"open", "closing"})
  BY DEF TakeRequest, EndRequest, Drain
<1>3. TypeOK'
  BY <1>1, <1>2 DEF TypeOK, history, mapVars, groupVars, onceVars
<1>4. Progress' /\ Undone' /\ Apart'
  BY <1>1 DEF Progress, GroupFits, HandlerFits, Undone, UndoneFits, history, Apart, Key, This,
     Begun, Making, Deregistering, InCallback, groupVars, onceVars
<1>5. MapFits' /\ CountFits' /\ QuietAfter'
  BY <1>1 DEF MapFits, Mapped, Roomy, history, Making, Key, CountFits, Counted, QuietAfter,
     mapVars, groupVars, onceVars
<1>6. WorkFits'
  BY <1>1, <1>2 DEF WorkFits, Lived
<1> QED
  BY <1>3, <1>4, <1>5, <1>6

-----------------------------------------------------------------------------
(* Deregistration, key by key.                                                 *)
LEMMA DeregisterInv ==
  ASSUME ServerInv, NEW g \in Groups, CallDeregister(g) \/ HandlerClosed(g) \/ Deregistered(g)
  PROVE  ServerInv'
<1> USE DEF ServerInv
<1>1. /\ UNCHANGED <<mapVars, onceVars, state, forced, workVars, history>>
      /\ pos[g] \in Nat \ {0} /\ limit[g] \in Nat /\ Len(Slice[g]) \in Nat
  BY HandlerFacts DEF CallDeregister, HandlerClosed, Deregistered, Progress, GroupFits, TypeOK,
     history
<1>2. CountFits' /\ WorkFits' /\ QuietAfter'
      /\ Mapped'
  BY <1>1, Untouched DEF onceVars, history
<1>3. ASSUME regPc'[g] \in {"undo", "deregister", "failed", "gone"},
             \A o \in Groups \ {g} : regPc'[o] = regPc[o] /\ pos'[o] = pos[o],
             regPc' \in [Groups -> Registering \cup {"next", "registered", "undo", "failed",
                                                     "deregister", "gone"}],
             pos' \in [Groups -> Nat], limit' \in [Groups -> Nat],
             target' \in [Groups -> Handlers \cup {None}]
      PROVE  TypeOK' /\ Apart' /\ MapFits'
  <2>1. TypeOK'
    BY <1>1, <1>3 DEF TypeOK, history, mapVars, onceVars, workVars
  <2>2. Apart'
    BY <1>1, <1>3 DEF Apart, Key, This, history, Begun, Making, InCallback, Registering, onceVars
  <2>3. MapFits'
    BY <1>1, <1>2, <1>3 DEF MapFits, Mapped, Roomy, history, Making, Key, mapVars
  <2> QED BY <2>1, <2>2, <2>3
<1>4. CASE CallDeregister(g)
  <2>1. /\ regPc[g] = "registered" /\ regPc' = [regPc EXCEPT ![g] = "deregister"]
        /\ pos' = [pos EXCEPT ![g] = 1] /\ limit' = [limit EXCEPT ![g] = Len(Slice[g])]
        /\ target' = [target EXCEPT ![g] = target[g]] /\ target[g] \in Handlers \cup {None}
    BY <1>4 DEF CallDeregister, Reg, TypeOK, history
  <2>2. /\ TypeOK' /\ Apart' /\ MapFits'
        /\ \A o \in Groups : /\ regPc'[o] = IF o = g THEN "deregister" ELSE regPc[o]
                             /\ pos'[o] = IF o = g THEN 1 ELSE pos[o]
                             /\ limit'[o] = IF o = g THEN Len(Slice[g]) ELSE limit[o]
                             /\ target'[o] = target[o]
    <3>1. \A o \in Groups : /\ regPc'[o] = IF o = g THEN "deregister" ELSE regPc[o]
                            /\ pos'[o] = IF o = g THEN 1 ELSE pos[o]
                            /\ limit'[o] = IF o = g THEN Len(Slice[g]) ELSE limit[o]
                            /\ target'[o] = target[o]
      BY <2>1 DEF TypeOK, history
    <3>2. /\ regPc' \in [Groups -> Registering \cup {"next", "registered", "undo", "failed",
                                                     "deregister", "gone"}]
          /\ pos' \in [Groups -> Nat] /\ limit' \in [Groups -> Nat]
          /\ target' \in [Groups -> Handlers \cup {None}]
      BY <1>1, <2>1 DEF TypeOK, history
    <3> QED
      BY <1>3, <3>1, <3>2
  <2>3. Progress'
    BY <1>1, <2>1, <2>2, HandlerFacts DEF Progress, GroupFits, HandlerFits, Deregistering,
       Registering, Begun, Making
  <2>4. Undone'
    <3>1. target[g] = None
      BY <2>1 DEF Progress, GroupFits, Deregistering
    <3>2. \A h \in Handlers : h[1] \in Groups /\ h[2] \in 1..Len(Slice[h[1]]) /\ ~(h[2] < 1)
      BY HandlerFacts
    <3> QED
      BY <1>1, <2>1, <2>2, <3>1, <3>2 DEF Undone, UndoneFits, history, Deregistering
  <2> QED BY <1>2, <2>2, <2>3, <2>4
<1>5. CASE HandlerClosed(g)
  <2>1. /\ target[g] # None /\ state[target[g]] = "complete"
        /\ target' = [target EXCEPT ![g] = None] /\ pos' = [pos EXCEPT ![g] = pos[g] + 1]
        /\ regPc' = [regPc EXCEPT ![g] = regPc[g]] /\ limit' = [limit EXCEPT ![g] = limit[g]]
    BY <1>5 DEF HandlerClosed, TypeOK, history
  <2>1a. Deregistering(g) /\ pos[g] <= limit[g] /\ regPc[g] \in {"undo", "deregister"}
    BY <2>1 DEF Progress, GroupFits, Deregistering
  <2>2. /\ TypeOK' /\ Apart' /\ MapFits'
        /\ \A o \in Groups : /\ regPc'[o] = regPc[o] /\ limit'[o] = limit[o]
                             /\ pos'[o] = IF o = g THEN pos[g] + 1 ELSE pos[o]
                             /\ target'[o] = IF o = g THEN None ELSE target[o]
    <3>1. \A o \in Groups : /\ regPc'[o] = regPc[o] /\ limit'[o] = limit[o]
                            /\ pos'[o] = IF o = g THEN pos[g] + 1 ELSE pos[o]
                            /\ target'[o] = IF o = g THEN None ELSE target[o]
      BY <2>1 DEF TypeOK, history
    <3>2. /\ regPc' \in [Groups -> Registering \cup {"next", "registered", "undo", "failed",
                                                     "deregister", "gone"}]
          /\ pos' \in [Groups -> Nat] /\ limit' \in [Groups -> Nat]
          /\ target' \in [Groups -> Handlers \cup {None}]
      BY <1>1, <2>1 DEF TypeOK, history
    <3> QED
      BY <1>3, <2>1a, <3>1, <3>2
  <2>3. Progress'
    BY <1>1, <2>1, <2>1a, <2>2, HandlerFacts DEF Progress, GroupFits, HandlerFits,
       Deregistering, Registering, Begun, Making
  <2>4. Undone'
    <3>1. ASSUME NEW h \in Handlers, h[1] = g, h[2] < pos[g] + 1, h[2] <= limit[g]
          PROVE  state[h] = "complete" \/ KeyOf(h) \in raced
      <4>1. CASE h[2] < pos[g]
        BY <2>1a, <3>1, <4>1 DEF Undone, UndoneFits, history
      <4>2. CASE h[2] = pos[g]
        BY <2>1, <3>1, <4>2 DEF Undone, UndoneFits, history
      <4> QED
        BY <1>1, <3>1, <4>1, <4>2, HandlerFacts
    <3> QED
      BY <1>1, <2>1a, <2>2, <3>1, HandlerFacts DEF Undone, UndoneFits, history, Deregistering
  <2> QED BY <1>2, <2>2, <2>3, <2>4
<1>6. CASE Deregistered(g)
  <2> DEFINE to == IF regPc[g] = "undo" THEN "failed" ELSE "gone"
  <2>1. /\ Deregistering(g) /\ pos[g] > limit[g]
        /\ to = "failed" => regPc[g] = "undo"
        /\ to = "gone" => regPc[g] = "deregister"
        /\ to \in {"failed", "gone"}
        /\ regPc' = [regPc EXCEPT ![g] = to] /\ pos' = [pos EXCEPT ![g] = pos[g]]
        /\ limit' = [limit EXCEPT ![g] = limit[g]] /\ target' = [target EXCEPT ![g] = target[g]]
        /\ target[g] \in Handlers \cup {None}
    BY <1>6 DEF Deregistered, Deregistering, TypeOK, history
  <2> HIDE DEF to
  <2>2. /\ TypeOK' /\ Apart' /\ MapFits'
        /\ \A o \in Groups : /\ regPc'[o] = IF o = g THEN to ELSE regPc[o]
                             /\ pos'[o] = pos[o] /\ limit'[o] = limit[o] /\ target'[o] = target[o]
    <3>1. \A o \in Groups :
            /\ regPc'[o] = IF o = g THEN to ELSE regPc[o]
            /\ pos'[o] = pos[o] /\ limit'[o] = limit[o] /\ target'[o] = target[o]
      BY <2>1 DEF TypeOK, history
    <3>2. /\ regPc' \in [Groups -> Registering \cup {"next", "registered", "undo", "failed",
                                                     "deregister", "gone"}]
          /\ pos' \in [Groups -> Nat] /\ limit' \in [Groups -> Nat]
          /\ target' \in [Groups -> Handlers \cup {None}]
      BY <1>1, <2>1 DEF TypeOK, history
    <3> QED
      BY <1>3, <2>1, <3>1, <3>2
  <2>3. Progress'
    BY <1>1, <2>1, <2>2, HandlerFacts DEF Progress, GroupFits, HandlerFits, Deregistering,
       Registering, Begun, Making
  <2>4. Undone'
    <3>1. ASSUME NEW h \in Handlers, h[1] = g, to = "failed"
          PROVE  state[h] \in {"none", "complete"} \/ KeyOf(h) \in raced
      <4>1. CASE h[2] <= limit[g]
        BY <1>1, <2>1, <3>1, <4>1, HandlerFacts DEF Undone, UndoneFits, history
      <4>2. CASE ~(h[2] <= limit[g])
        BY <2>1, <3>1, <4>2 DEF Progress, HandlerFits, Lived, TypeOK, history
      <4> QED BY <4>1, <4>2
    <3>2. target[g] = None
      BY <1>1, <2>1 DEF Progress, GroupFits
    <3> QED
      BY <1>1, <2>1, <2>2, <3>1, <3>2, HandlerFacts DEF Undone, UndoneFits, history, Deregistering
  <2> QED BY <1>2, <2>2, <2>3, <2>4
<1> QED
  BY <1>4, <1>5, <1>6

(* The lookup of DeregisterHandler: the entry of a key is the one handler of   *)
(* that key that lives, so a key without an entry has completed.               *)
LEMMA LookupInv ==
  ASSUME ServerInv, NEW g \in Groups, DeregisterHandler(g)
  PROVE  ServerInv'
<1> USE DEF ServerInv
<1> DEFINE a == This(g)
           k == Key(g)
<1>1. /\ Deregistering(g) /\ regPc[g] \in {"undo", "deregister"} /\ target[g] = None
      /\ pos[g] <= limit[g] /\ UNCHANGED <<regPc, limit, mapVars, onceVars, workVars, history>>
  BY DEF DeregisterHandler, Deregistering
<1>2. /\ pos[g] \in 1..Len(Slice[g]) /\ Len(Slice[g]) \in Nat /\ limit[g] \in Nat
      /\ a \in Handlers /\ a[1] = g /\ a[2] = pos[g] /\ KeyOf(a) = k /\ k \in Keys
  BY <1>1, HandlerFacts DEF Progress, GroupFits, TypeOK, history, This, KeyOf, Key
<1>3. /\ state[a] \in Lived
      /\ handlers[k] # a => state[a] = "complete" \/ KeyOf(a) \in raced
  <2>1. state[a] \in Lived
    BY <1>1, <1>2 DEF Progress, HandlerFits
  <2> QED
    BY <1>2, <2>1 DEF MapFits, Mapped, Roomy, history, Making, Lived
<1>4. \A h \in Handlers : h[1] = g /\ h[2] = pos[g] => h = a
  BY <1>2, HandlerFacts
<1>4a. DeregisterHandler(g) => \/ /\ handlers[k] = None
                                  /\ pos' = [pos EXCEPT ![g] = @ + 1]
                                  /\ UNCHANGED <<target, state, forced>>
                               \/ /\ handlers[k] # None
                                  /\ target' = [target EXCEPT ![g] = handlers[k]]
                                  /\ CloseHandler(handlers[k], TRUE)
                                  /\ UNCHANGED pos
  BY DEF DeregisterHandler
<1> HIDE DEF a, k
<1>5. CASE handlers[k] = None
  <2>1. pos' = [pos EXCEPT ![g] = pos[g] + 1] /\ UNCHANGED <<target, state, forced>>
    BY <1>4a, <1>5
  <2>2. \A o \in Groups : pos'[o] = IF o = g THEN pos[g] + 1 ELSE pos[o]
    BY <2>1 DEF TypeOK, history
  <2>3. CountFits' /\ WorkFits' /\ QuietAfter'
        /\ Mapped'
    BY <1>1, <2>1, Untouched DEF onceVars, history
  <2>4. TypeOK'
    BY <1>1, <1>2, <2>1 DEF TypeOK, history, mapVars, onceVars, workVars
  <2>5. Progress'
    BY <1>1, <1>2, <2>1, <2>2, HandlerFacts DEF Progress, GroupFits, HandlerFits, Deregistering,
       Registering, Begun, Making
  <2>6. Undone'
    <3>1. state[a] = "complete" \/ KeyOf(a) \in raced
      BY <1>2, <1>3, <1>5, HandlerFacts
    <3>2. ASSUME NEW h \in Handlers, h[1] = g, h[2] < pos[g] + 1, h[2] <= limit[g]
          PROVE  state[h] = "complete" \/ KeyOf(h) \in raced
      <4>1. CASE h[2] < pos[g]
        BY <1>1, <3>2, <4>1 DEF Undone, UndoneFits, history
      <4>2. CASE h[2] = pos[g]
        BY <1>4, <3>1, <3>2, <4>2
      <4> QED
        BY <1>2, <3>2, <4>1, <4>2, HandlerFacts
    <3> QED
      BY <1>1, <2>1, <2>2, <3>2, HandlerFacts DEF Undone, UndoneFits, history, Deregistering
  <2>7. Apart'
    BY <1>1, <2>2 DEF Apart, Key, This, history, Begun, Making, InCallback, onceVars
  <2>8. MapFits'
    BY <1>1, <2>1, <2>2, <2>3 DEF MapFits, Mapped, Roomy, history, Making, Key, mapVars
  <2> QED BY <2>3, <2>4, <2>5, <2>6, <2>7, <2>8
<1>6. CASE handlers[k] # None
  <2> DEFINE b == handlers[k]
  <2>1. /\ b \in Handlers /\ target' = [target EXCEPT ![g] = b] /\ CloseHandler(b, TRUE)
        /\ UNCHANGED pos
    BY <1>2, <1>4a, <1>6 DEF TypeOK, history
  <2>2. b = a \/ state[a] = "complete" \/ KeyOf(a) \in raced
    BY <1>3
  <2> HIDE DEF b
  <2>3. /\ \A h \in Handlers : HandlerFits(h)'
        /\ \A h \in Handlers : regPc'[h[1]] = "failed" =>
                 state'[h] \in {"none", "complete"} \/ KeyOf(h) \in raced
        /\ \A h \in Handlers : state[h] = "complete" => state'[h] = "complete"
        /\ state' \in [Handlers -> {"none", "made", "counted", "open", "closing", "done",
                                    "complete"}]
        /\ forced' \subseteq Handlers
        /\ Apart' /\ QuietAfter' /\ MapFits' /\ CountFits' /\ WorkFits'
    BY <1>1, <2>1, CloseHandlerInv
  <2>4. \A o \in Groups : target'[o] = IF o = g THEN b ELSE target[o]
    BY <2>1 DEF TypeOK, history
  <2>5. TypeOK'
    BY <1>1, <2>1, <2>3 DEF TypeOK, history, mapVars, onceVars, workVars
  <2>6. Progress'
    BY <1>1, <2>1, <2>3, <2>4 DEF Progress, GroupFits, Deregistering
  <2>7. Undone'
    BY <1>1, <1>2, <1>4, <2>1, <2>2, <2>3, <2>4, HandlerFacts DEF Undone, UndoneFits, history,
       Deregistering
  <2> QED BY <2>3, <2>5, <2>6, <2>7
<1> QED
  BY <1>5, <1>6

-----------------------------------------------------------------------------
(* Close: it notes the registrations under way as late, breaks the fuse before *)
(* its callback ends, and waits until nothing is counted.                      *)
LEMMA CloseInv ==
  ASSUME ServerInv, NEW c \in Calls, CallClose(c) \/ CloseStep(c)
  PROVE  ServerInv'
<1> USE DEF ServerInv
<1>1. /\ UNCHANGED <<mapVars, groupVars, state, forced, workVars, raced>>
      /\ late \subseteq late' /\ late' \subseteq Handlers
  <2>1. \A g \in Groups : regPc[g] \in Begun => This(g) \in Handlers
    BY AtPosition DEF Registering
  <2>2. late \subseteq Handlers
    BY DEF TypeOK
  <2>3. late' = late \/ late' = late \cup {This(g) : g \in {o \in Groups : regPc[o] \in Begun}}
    BY DEF CallClose, CloseStep, Snapshot, AllClosed, NotFirst, ActiveWait, history
  <2>4. late \subseteq late' /\ late' \subseteq Handlers
    BY <2>1, <2>2, <2>3
  <2>5. UNCHANGED <<mapVars, groupVars, state, forced, workVars, raced>>
    BY DEF CallClose, CloseStep, Snapshot, AllClosed, NotFirst, ActiveWait, history
  <2> QED BY <2>4, <2>5
<1>2. CountFits' /\ WorkFits' /\ UNCHANGED active
  BY <1>1, Untouched
<1>3. Progress' /\ Undone' /\ MapFits'
  BY <1>1 DEF Progress, GroupFits, HandlerFits, Undone, UndoneFits, history, MapFits, Mapped,
     Roomy, Making, Key, Deregistering, groupVars, mapVars
<1>4. AfterOnce(c) \in {"wait", "returned"} /\ (c \notin ForceCalls => AfterOnce(c) = "wait")
  BY DEF AfterOnce
<1>5. TypeOK'
  <2>1. CASE CallClose(c)
    <3>1. closePc' \in [Calls -> {"idle", "once", "closing", "behind", "wait", "returned"}]
      BY <1>4, <2>1 DEF CallClose, TypeOK
    <3>2. broken' \in BOOLEAN
      BY <2>1, ServerAssumption DEF CallClose, TypeOK
    <3>3. owner' \in Calls \cup {None} /\ UNCHANGED <<fuse, snapshot>>
      BY <2>1 DEF CallClose, TypeOK
    <3> QED
      BY <1>1, <3>1, <3>2, <3>3 DEF TypeOK, mapVars, groupVars, workVars
  <2>2. CASE Snapshot(c)
    BY <1>1, <2>2 DEF Snapshot, TypeOK, history, mapVars, groupVars, workVars
  <2>3. CASE AllClosed(c) \/ NotFirst(c) \/ ActiveWait(c)
    BY <1>1, <1>4, <2>3 DEF AllClosed, NotFirst, ActiveWait, TypeOK, history, mapVars,
       groupVars, workVars
  <2> QED
    BY <2>1, <2>2, <2>3 DEF CloseStep
<1>6. Apart'
  <2>1. CASE CallClose(c)
    BY <1>1, <2>1, HandlerFacts DEF CallClose, Apart, Key, This, history, Begun, Making,
       InCallback, groupVars, TypeOK
  <2>2. CASE Snapshot(c) \/ NotFirst(c) \/ ActiveWait(c)
    <3>1. InCallback => InCallback'
      BY <2>2 DEF Snapshot, NotFirst, ActiveWait, InCallback, TypeOK, history
    <3> QED
      BY <1>1, <2>2, <3>1 DEF Snapshot, NotFirst, ActiveWait, Apart, Key, This, history, Begun,
         Making, groupVars, TypeOK
  <2>3. CASE AllClosed(c)
    BY <1>1, <2>3 DEF AllClosed, Apart, Key, This, history, Begun, Making, groupVars, TypeOK
  <2> QED
    BY <2>1, <2>2, <2>3 DEF CloseStep
<1>7. QuietAfter'
  <2>1. CASE ActiveWait(c)
    <3>1. Counted \in SUBSET Handlers /\ Cardinality(Counted) = 0
      BY <2>1 DEF ActiveWait, CountFits, Counted
    <3>2. Counted = {}
      BY <3>1, Countable
    <3>3. \A g \in Groups : regPc[g] \in Begun => This(g) \in late
      BY <2>1 DEF ActiveWait, Apart
    <3>4. ASSUME NEW h \in Handlers \ late PROVE state[h] \in {"none", "done", "complete"}
      <4>1. state[h] \notin {"counted", "open", "closing"}
        BY <3>2 DEF Counted
      <4>2. state[h] # "made"
        BY <3>3, HandlerFacts DEF Progress, HandlerFits, This, Begun, Making
      <4> QED
        BY <4>1, <4>2 DEF TypeOK, history
    <3> QED
      BY <1>1, <3>4 DEF QuietAfter, history
  <2>2. CASE ~ActiveWait(c)
    <3>1. \A d \in Calls \ ForceCalls : closePc'[d] = "returned" => closePc[d] = "returned"
      BY <1>4, <2>2 DEF CallClose, CloseStep, Snapshot, AllClosed, NotFirst, TypeOK, history
    <3> QED
      BY <1>1, <3>1 DEF QuietAfter, history
  <2> QED BY <2>1, <2>2
<1> QED
  BY <1>2, <1>3, <1>5, <1>6, <1>7

-----------------------------------------------------------------------------
(* Every step keeps the invariant.                                             *)
LEMMA StepServer ==
  ServerInv /\ [Next]_vars => ServerInv'
<1> SUFFICES ASSUME ServerInv, [Next]_vars PROVE ServerInv'
  OBVIOUS
<1>1. CASE UNCHANGED vars
  <2> USE <1>1 DEF vars, mapVars, onceVars, groupVars, workVars, ServerInv
  <2>1. TypeOK'
    BY DEF TypeOK, history
  <2>2. Progress' /\ Undone' /\ Apart'
    BY DEF Progress, GroupFits, HandlerFits, Undone, UndoneFits, history, Apart, Key, This,
       Begun, Making, Deregistering, InCallback
  <2>3. MapFits' /\ CountFits' /\ WorkFits' /\ QuietAfter'
    BY DEF MapFits, Mapped, Roomy, history, Making, Key, CountFits, Counted, WorkFits, QuietAfter
  <2> QED BY <2>1, <2>2, <2>3
<1>2. ASSUME NEW g \in Groups, RegisterStep(g) \/ CallDeregister(g) \/ DeregisterStep(g)
      PROVE  ServerInv'
  <2>1. CASE NewHandlerFails(g)
    BY <2>1, FailInv DEF NewHandlerFails
  <2> QED
    BY <1>2, <2>1, CheckInv, MakeInv, RunInv, DeregisterInv, LookupInv
       DEF RegisterStep, DeregisterStep
<1>3. ASSUME NEW h \in Handlers,
             CompleteStep(h) \/ TakeRequest(h) \/ EndRequest(h) \/ Drain(h) \/ CloseOne(h)
      PROVE  ServerInv'
  BY <1>3, CompleteInv, WorkInv, CloseOneInv
<1>4. ASSUME NEW c \in Calls, CallClose(c) \/ CloseStep(c) PROVE ServerInv'
  BY <1>4, CloseInv
<1> QED
  BY <1>1, <1>2, <1>3, <1>4 DEF Next

(* The invariant holds of every reachable state.                               *)
THEOREM ServerInvariance ==
  Spec => []ServerInv
<1>1. ServerInv /\ [Next]_vars => ServerInv'
  BY StepServer
<1> QED
  BY <1>1, InitServer, PTL DEF Spec

(* Every handler that serves is in the map under its key, unless two calls     *)
(* registered that key at once; the count is that of the handlers Close has to *)
(* wait for; and a grouped registration that failed left nothing behind under  *)
(* any other key (server.go, RegisterHandler and onCompleted; registration.go, *)
(* Register).                                                                  *)
THEOREM HandlersMapped == Spec => []EveryHandlerIsMapped
<1>1. ServerInv => EveryHandlerIsMapped
  <2> SUFFICES ASSUME ServerInv PROVE EveryHandlerIsMapped
    OBVIOUS
  <2>1. \A h \in Handlers : state[h] \in {"open", "closing", "done"} =>
            handlers[KeyOf(h)] = h \/ KeyOf(h) \in raced
    BY DEF ServerInv, MapFits, Mapped
  <2>2. active = Cardinality({h \in Handlers : state[h] \in {"counted", "open", "closing"}})
    BY DEF ServerInv, CountFits, Counted
  <2>3. ASSUME NEW g \in Groups, regPc[g] = "failed", NEW i \in DOMAIN Slice[g]
        PROVE  state[<<g, i>>] \in {"none", "complete"} \/ KeyOf(<<g, i>>) \in raced
    <3>1. <<g, i>> \in Handlers /\ <<g, i>>[1] = g
      BY HandlerFacts
    <3> QED
      BY <2>3, <3>1 DEF ServerInv, Undone, UndoneFits
  <2> QED
    BY <2>1, <2>2, <2>3 DEF EveryHandlerIsMapped
<1> QED
  BY <1>1, ServerInvariance, PTL

(* When a graceful Close has returned no handler is registered, and no request *)
(* is in flight but at a handler closed by force, except by a registration     *)
(* that had found the server open before Close broke its fuse (server.go,      *)
(* Close).                                                                     *)
THEOREM QuietShutdown == Spec => []ShutdownIsQuiet
<1>1. ServerInv => ShutdownIsQuiet
  <2> SUFFICES ASSUME ServerInv, \E c \in Calls \ ForceCalls : closePc[c] = "returned",
                      NEW h \in Handlers \ late
               PROVE  /\ state[h] \in {"none", "done", "complete"}
                      /\ h \in inFlight => h \in forced
    BY DEF ShutdownIsQuiet
  <2>1. state[h] \in {"none", "done", "complete"}
    BY DEF ServerInv, QuietAfter
  <2> QED
    BY <2>1 DEF ServerInv, WorkFits, Lived
<1> QED
  BY <1>1, ServerInvariance, PTL

=============================================================================
