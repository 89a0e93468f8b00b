--------------------------- MODULE StreamOpenProofs ---------------------------
(* Proofs about the opening of streams and the close of a stream handler, for  *)
(* any number of servers and streams: only the chosen server serves, what is   *)
(* acknowledged is in a server's map, and close leaves no stream it held open. *)
EXTENDS StreamOpen, TLAPS

-----------------------------------------------------------------------------
(* The call has not yet selected a server, and then none is chosen.            *)
Undecided(r) == callPc[r] \in {"idle", "publish", "select"}

ChosenLate == \A r \in Streams : Undecided(r) => choice[r] = NoServer

(* Past its claim, a task is the one of the chosen server.                     *)
ServedIsChosen ==
    requireClaim =>
        \A t \in Tasks :
            task[t] \in {"granted", "inserted", "running", "closing", "releasing"}
            \/ sEnd[t] # "none"
            => choice[t[2]] = t[1]

(* An open request reaches a server once, so a task inserts one stream, once.  *)
TakenOnce ==
    /\ \A t \in Tasks : callPc[t[2]] \in {"idle", "publish"} => t \notin openNet /\ task[t] = "none"
    /\ \A t \in openNet : task[t] = "none"

InsertedOnce ==
    \A t \in Tasks :
        /\ task[t] \in {"none", "started", "waiting", "granted"} => sEnd[t] = "none"
        /\ task[t] \in {"inserted", "running", "closing", "releasing"} => sEnd[t] # "none"
        /\ drain[t] # "none" => sEnd[t] # "none"

(* An acknowledgement, wherever it is, follows the insertion.                  *)
Held(r) == \E s \in Servers : sEnd[<<s, r>>] # "none"

AckAfterInsert ==
    /\ \A t \in Tasks : <<t, "ack">> \in toClient => Held(t[2])
    /\ \A r \in Streams : "ack" \in recvChan[r] => Held(r)
    /\ \A r \in acked : Held(r)

(* Before the snapshot no stream is being drained; after it, each of the held  *)
(* ones is closed or about to be.                                              *)
Drained ==
    \A s \in Servers :
        /\ closing[s] = "open" => held[s] = {}
        /\ \A r \in held[s] :
              /\ sEnd[<<s, r>>] # "none"
              /\ closing[s] \in {"waiting", "complete"} =>
                    sEnd[<<s, r>>] \in {"closing", "released"} \/ drain[<<s, r>>] = "called"
              /\ closing[s] = "complete" => drain[<<s, r>>] # "called"

OpenInv ==
    TypeOK /\ ChosenLate /\ ServedIsChosen /\ TakenOnce /\ InsertedOnce /\ AckAfterInsert
    /\ Drained

-----------------------------------------------------------------------------
(* A task is a pair of a server and a stream.                                  *)
LEMMA TaskPair ==
  /\ \A t \in Tasks : t[1] \in Servers /\ t[2] \in Streams /\ t = <<t[1], t[2]>>
  /\ \A s \in Servers, r \in Streams : <<s, r>> \in Tasks /\ <<s, r>>[1] = s /\ <<s, r>>[2] = r
  BY DEF Tasks

(* Initially nothing is chosen, taken, inserted or being closed.               *)
LEMMA InitOpen == Init => OpenInv
<1> SUFFICES ASSUME Init PROVE OpenInv
  OBVIOUS
<1>1. TypeOK
  BY DEF Init, TypeOK, EndStates
<1>2. ChosenLate /\ ServedIsChosen
  BY DEF Init, ChosenLate, ServedIsChosen
<1>3. TakenOnce /\ InsertedOnce /\ AckAfterInsert /\ Drained
  BY DEF Init, TakenOnce, InsertedOnce, AckAfterInsert, Drained
<1> QED
  BY <1>1, <1>2, <1>3 DEF OpenInv

-----------------------------------------------------------------------------
(* OpenStream: its steps leave the servers alone, and only Select chooses.     *)
LEMMA CallInv ==
  ASSUME OpenInv, NEW r \in Streams, Open(r) \/ CallStep(r) \/ CallCloses(r)
  PROVE  OpenInv'
<1> USE DEF OpenInv
<1>0. Open(r) \/ PublishOpen(r) \/ Select(r) \/ Grant(r) \/ Acked(r) \/ OpenFails(r)
      \/ CallCloses(r) \/ CallReleases(r)
  BY DEF CallStep
<1>1. UNCHANGED <<requireClaim, task, sEnd, answered, closing, drain, held, loopExit, toClient,
                  recvChan, acked>>
  BY <1>0 DEF Open, PublishOpen, Select, Grant, Acked, OpenFails, CallCloses, CallReleases,
              ClientReleases, callVars, endVars, taskVars, closeVars, netVars
<1>2. TypeOK'
  <2>1. CASE Open(r) \/ CallCloses(r)
    BY <2>1, <1>1 DEF Open, CallCloses, ClientSetsClosed, Goto, TypeOK, EndStates, callVars, endVars, envVars, netVars
  <2>2. CASE PublishOpen(r) \/ Grant(r)
    <3>1. Servers \X {r} \subseteq Tasks
      BY DEF Tasks
    <3> QED
      BY <2>2, <3>1, <1>1 DEF PublishOpen, Grant, Goto, TypeOK, callVars, endVars, envVars, netVars
  <2>3. CASE Select(r)
    <3>1. PICK s \in bids[r] : choice' = [choice EXCEPT ![r] = s]
      BY <2>3 DEF Select
    <3>2. s \in Servers
      BY DEF TypeOK
    <3> QED
      BY <2>3, <3>1, <3>2, <1>1 DEF Select, Goto, TypeOK, callVars, endVars, envVars, netVars
  <2>4. CASE Acked(r) \/ OpenFails(r)
    BY <2>4, <1>1 DEF Acked, OpenFails, Goto, TypeOK, callVars, endVars, envVars, netVars
  <2>5. CASE CallReleases(r)
    <3>1. Servers \X {r} \subseteq Tasks
      BY DEF Tasks
    <3> QED
      BY <2>5, <3>1, <1>1 DEF CallReleases, ClientReleases, Goto, TypeOK, EndStates, callVars, endVars, envVars,
                          netVars
  <2> QED
    BY <1>0, <2>1, <2>2, <2>3, <2>4, <2>5
<1>3. InsertedOnce' /\ AckAfterInsert' /\ Drained'
  BY <1>1 DEF InsertedOnce, AckAfterInsert, Held, Drained
<1>4. \A q \in Streams :
         /\ Undecided(q)' => Undecided(q)
         /\ choice'[q] # choice[q] => Undecided(q) /\ ~Undecided(q)'
         /\ callPc'[q] \in {"idle", "publish"} => callPc[q] \in {"idle", "publish"}
  BY <1>0 DEF Open, PublishOpen, Select, Grant, Acked, OpenFails, CallCloses, CallReleases, Goto,
              Undecided, TypeOK, callVars
<1>5. ChosenLate'
  BY <1>4 DEF ChosenLate
<1>6. ServedIsChosen'
  BY <1>1, <1>4, StreamOpenAssumption, TaskPair DEF ServedIsChosen, ChosenLate
<1>7. TakenOnce'
  <2>1. CASE PublishOpen(r)
    <3>1. callPc[r] = "publish" /\ callPc'[r] \notin {"idle", "publish"}
          /\ openNet' = openNet \cup (Servers \X {r})
      BY <2>1 DEF PublishOpen, Goto, TypeOK
    <3>2. ASSUME NEW t \in Servers \X {r} PROVE t \in Tasks /\ t[2] = r
      BY DEF Tasks
    <3>3. \A t \in openNet' : task'[t] = "none"
      BY <1>1, <3>1, <3>2 DEF TakenOnce
    <3>4. \A t \in Tasks : callPc'[t[2]] \in {"idle", "publish"}
                             => t \notin openNet' /\ task'[t] = "none"
      <4> SUFFICES ASSUME NEW t \in Tasks, callPc'[t[2]] \in {"idle", "publish"}
                   PROVE  t \notin openNet' /\ task'[t] = "none"
        OBVIOUS
      <4>1. t[2] \in Streams /\ t[2] # r
        BY <3>1, TaskPair
      <4>2. t \notin openNet /\ task[t] = "none"
        BY <4>1, <1>4 DEF TakenOnce
      <4> QED
        BY <1>1, <3>1, <3>2, <4>1, <4>2
    <3> QED
      BY <3>3, <3>4 DEF TakenOnce
  <2>2. CASE ~PublishOpen(r)
    <3>1. openNet' = openNet
      BY <1>0, <2>2 DEF Open, Select, Grant, Acked, OpenFails, CallCloses, CallReleases, netVars
    <3> QED
      BY <1>1, <1>4, <3>1, TaskPair DEF TakenOnce
  <2> QED
    BY <2>1, <2>2
<1> QED
  BY <1>2, <1>3, <1>5, <1>6, <1>7

(* The client's dispatcher and stream goroutine, and the ends of contexts: an  *)
(* acknowledgement only moves on.                                              *)
LEMMA ClientInv ==
  ASSUME OpenInv,
         \/ \E r \in Streams : PumpStep(r) \/ Cancel(r) \/ Tick(r)
         \/ BreakFuse
         \/ \E t \in Tasks : TakeBid(t)
         \/ \E p \in Tasks \X {"ack", "close"} : Dispatch(p)
  PROVE  OpenInv'
<1> USE DEF OpenInv
<1>1. ASSUME UNCHANGED <<requireClaim, callPc, choice, taskVars, closeVars, openNet>>
      PROVE  ChosenLate' /\ ServedIsChosen' /\ TakenOnce' /\ InsertedOnce' /\ Drained'
  BY <1>1 DEF ChosenLate, Undecided, ServedIsChosen, TakenOnce, InsertedOnce, Drained, taskVars,
              closeVars
<1>2. ASSUME NEW r \in Streams, PumpAck(r) PROVE OpenInv'
  <2> USE <1>2 DEF PumpAck, callVars, envVars, taskVars, closeVars, netVars
  <2>1. TypeOK'
    BY DEF TypeOK
  <2>2. Held(r)
    BY DEF AckAfterInsert
  <2>3. \A q \in Streams : recvChan'[q] \subseteq recvChan[q]
    BY DEF TypeOK
  <2>4. AckAfterInsert'
    BY <2>2, <2>3 DEF AckAfterInsert, Held
  <2> QED BY <1>1, <2>1, <2>4
<1>3. ASSUME NEW r \in Streams, PumpClose(r) \/ PumpEnds(r) PROVE OpenInv'
  <2> USE <1>3 DEF PumpClose, PumpEnds, ClientSetsClosed, callVars, envVars, taskVars, closeVars,
                   netVars
  <2>1. TypeOK'
    BY DEF TypeOK, EndStates
  <2>2. \A q \in Streams : recvChan'[q] \subseteq recvChan[q]
    BY DEF TypeOK
  <2>3. AckAfterInsert'
    BY <2>2 DEF AckAfterInsert, Held
  <2> QED BY <1>1, <2>1, <2>3
<1>4. ASSUME NEW r \in Streams, PumpReleases(r) PROVE OpenInv'
  <2> USE <1>4 DEF PumpReleases, ClientReleases, callVars, envVars, taskVars, closeVars
  <2>1. Servers \X {r} \subseteq Tasks
    BY DEF Tasks
  <2>2. TypeOK'
    BY <2>1 DEF TypeOK, EndStates
  <2>3. AckAfterInsert'
    BY DEF AckAfterInsert, Held
  <2> QED BY <1>1, <2>2, <2>3
<1>5. ASSUME NEW r \in Streams, Cancel(r) \/ Tick(r) PROVE OpenInv'
  <2> USE <1>5 DEF Cancel, Tick, callVars, endVars, taskVars, closeVars, netVars
  <2>1. TypeOK'
    BY DEF TypeOK
  <2>2. AckAfterInsert'
    BY DEF AckAfterInsert, Held
  <2> QED BY <1>1, <2>1, <2>2
<1>6. CASE BreakFuse
  <2> USE <1>6 DEF BreakFuse, callVars, endVars, taskVars, closeVars, netVars
  <2>1. TypeOK'
    BY DEF TypeOK
  <2>2. AckAfterInsert'
    BY DEF AckAfterInsert, Held
  <2> QED BY <1>1, <2>1, <2>2
<1>7. ASSUME NEW t \in Tasks, TakeBid(t) PROVE OpenInv'
  <2> USE <1>7 DEF TakeBid, endVars, envVars, taskVars, closeVars
  <2>1. TypeOK'
    BY TaskPair DEF TypeOK
  <2>2. AckAfterInsert'
    BY DEF AckAfterInsert, Held
  <2> QED BY <1>1, <2>1, <2>2
<1>8. ASSUME NEW p \in Tasks \X {"ack", "close"}, Dispatch(p) PROVE OpenInv'
  <2>1. PICK t \in Tasks, b \in {"ack", "close"} : p = <<t, b>>
    OBVIOUS
  <2>2. t[2] \in Streams
    BY TaskPair
  <2>3. /\ <<t, b>> \in toClient
        /\ toClient' = toClient \ {<<t, b>>}
        /\ recvChan' = [recvChan EXCEPT ![t[2]] = @ \cup {b}]
        /\ UNCHANGED <<callVars, acked, cEnd, pump, envVars, taskVars, closeVars>>
        /\ UNCHANGED <<openNet, bidNet, grantNet, toServer>>
    BY <1>8, <2>1 DEF Dispatch
  <2> USE <2>2, <2>3 DEF callVars, envVars, taskVars, closeVars
  <2>4. TypeOK'
    BY DEF TypeOK
  <2>5. b = "ack" => Held(t[2])
    BY DEF AckAfterInsert
  <2>6. \A r \in Streams : recvChan'[r] = IF r = t[2] THEN recvChan[r] \cup {b} ELSE recvChan[r]
    <3>1. recvChan \in [Streams -> SUBSET {"ack", "close"}]
      BY DEF TypeOK
    <3> QED BY ONLY <2>2, <2>3, <3>1
  <2>7. AckAfterInsert'
    BY <2>5, <2>6 DEF AckAfterInsert, Held
  <2> QED BY <1>1, <2>4, <2>7
<1> QED
  BY <1>2, <1>3, <1>4, <1>5, <1>6, <1>7, <1>8 DEF PumpStep

-----------------------------------------------------------------------------
(* What the servers' steps keep as long as no end of a stream is forgotten.    *)
LEMMA EndsKept ==
  ASSUME OpenInv, UNCHANGED callVars, \A t \in Tasks : sEnd[t] # "none" => sEnd'[t] # "none"
  PROVE  /\ ChosenLate'
         /\ \A r \in Streams : Held(r) => Held(r)'
         /\ UNCHANGED <<acked, recvChan>>
            /\ (\A t \in Tasks : <<t, "ack">> \in toClient' => <<t, "ack">> \in toClient)
            => AckAfterInsert'
<1>1. ChosenLate'
  BY DEF OpenInv, ChosenLate, Undecided, callVars
<1>2. \A r \in Streams : Held(r) => Held(r)'
  BY TaskPair DEF Held
<1>3. ASSUME UNCHANGED <<acked, recvChan>>,
             \A t \in Tasks : <<t, "ack">> \in toClient' => <<t, "ack">> \in toClient
      PROVE  AckAfterInsert'
  BY <1>2, <1>3, TaskPair DEF OpenInv, AckAfterInsert, TypeOK
<1> QED
  BY <1>1, <1>2, <1>3

(* The run loop of a handler.                                                  *)
LEMMA LoopInv ==
  ASSUME OpenInv, NEW t \in Tasks, TakeOpen(t) \/ TakeGrant(t) \/ TakeClose(t)
  PROVE  OpenInv'
<1> USE DEF OpenInv, callVars, endVars, envVars, closeVars
<1>1. CASE TakeOpen(t)
  <2> USE <1>1 DEF TakeOpen
  <2>1. TypeOK'
    BY DEF TypeOK
  <2>2. task[t] = "none" /\ sEnd[t] = "none" /\ callPc[t[2]] \notin {"idle", "publish"}
    BY DEF TakenOnce, InsertedOnce
  <2>3. ChosenLate' /\ AckAfterInsert'
    BY EndsKept
  <2>4. ServedIsChosen' /\ InsertedOnce'
    BY <2>2 DEF ServedIsChosen, InsertedOnce, TypeOK
  <2>5. TakenOnce'
    BY <2>2 DEF TakenOnce, TypeOK
  <2>6. Drained'
    BY DEF Drained
  <2> QED BY <2>1, <2>3, <2>4, <2>5, <2>6
<1>2. CASE TakeGrant(t)
  <2> USE <1>2 DEF TakeGrant
  <2>1. TypeOK'
    BY DEF TypeOK
  <2>2. ChosenLate' /\ AckAfterInsert'
    BY EndsKept
  <2>3. ServedIsChosen' /\ InsertedOnce' /\ TakenOnce' /\ Drained'
    BY DEF ServedIsChosen, InsertedOnce, TakenOnce, Drained
  <2> QED BY <2>1, <2>2, <2>3
<1>3. CASE TakeClose(t)
  <2> USE <1>3 DEF TakeClose
  <2>1. TypeOK'
    BY DEF TypeOK, EndStates
  <2>2. \A u \in Tasks : sEnd'[u] = IF u = t THEN "released" ELSE sEnd[u]
    BY DEF TypeOK
  <2>3. ChosenLate' /\ AckAfterInsert'
    BY <2>2, EndsKept
  <2>4. ServedIsChosen' /\ InsertedOnce' /\ TakenOnce'
    BY <2>2 DEF ServedIsChosen, InsertedOnce, TakenOnce
  <2>5. Drained'
    BY <2>2, TaskPair DEF Drained, TypeOK
  <2> QED BY <2>1, <2>3, <2>4, <2>5
<1> QED
  BY <1>1, <1>2, <1>3

(* A task: it comes to serve without a claim, or as the chosen server.         *)
LEMMA TaskInv ==
  ASSUME OpenInv, NEW t \in Tasks, TaskStep(t) \/ TaskCloses(t)
  PROVE  OpenInv'
<1> USE DEF OpenInv, callVars, endVars, envVars, closeVars
<1>1. ASSUME NEW to \in {"ended", "granted", "waiting", "running", "closing"},
             Advance(t, to),
             \/ task[t] \in {"started", "waiting"} /\ to \in {"ended", "granted", "waiting"}
             \/ task[t] \in {"inserted", "running"} /\ to \in {"running", "closing"},
             requireClaim /\ to = "granted" => choice[t[2]] = t[1],
             UNCHANGED <<callVars, sEnd, closeVars, openNet>>
      PROVE  ServedIsChosen' /\ InsertedOnce' /\ TakenOnce' /\ Drained'
  <2> USE <1>1 DEF Advance
  <2>1. \A u \in Tasks : task'[u] = IF u = t THEN to ELSE task[u]
    BY DEF TypeOK
  <2>2. ServedIsChosen'
    BY <2>1 DEF ServedIsChosen
  <2>3. InsertedOnce' /\ TakenOnce' /\ Drained'
    BY <2>1 DEF InsertedOnce, TakenOnce, Drained
  <2> QED BY <2>2, <2>3
<1>2. CASE SkipClaim(t) \/ Decide(t) \/ ClaimFails(t) \/ TaskCloses(t)
  <2>1. TypeOK'
    BY <1>2 DEF SkipClaim, Decide, ClaimFails, TaskCloses, Advance, TypeOK, netVars
  <2>2. ChosenLate' /\ AckAfterInsert'
    BY <1>2, EndsKept DEF SkipClaim, Decide, ClaimFails, TaskCloses, netVars
  <2>3. ServedIsChosen' /\ InsertedOnce' /\ TakenOnce' /\ Drained'
    <3>1. CASE SkipClaim(t)
      BY <3>1, <1>1 DEF SkipClaim, netVars
    <3>2. CASE Decide(t)
      BY <3>2, <1>1 DEF Decide, netVars
    <3>3. CASE ClaimFails(t)
      BY <3>3, <1>1 DEF ClaimFails, netVars
    <3>4. CASE TaskCloses(t)
      BY <3>4, <1>1 DEF TaskCloses, netVars
    <3> QED BY <1>2, <3>1, <3>2, <3>3, <3>4
  <2> QED BY <2>1, <2>2, <2>3
<1>3. CASE Bid(t)
  <2> USE <1>3 DEF Bid
  <2>1. TypeOK'
    BY DEF Advance, TypeOK
  <2>2. ChosenLate' /\ AckAfterInsert'
    BY EndsKept
  <2>3. ServedIsChosen' /\ InsertedOnce' /\ TakenOnce' /\ Drained'
    BY <1>1
  <2> QED BY <2>1, <2>2, <2>3
<1>4. CASE Insert(t)
  <2> USE <1>4 DEF Insert, Advance, netVars
  <2>1. TypeOK'
    BY DEF TypeOK, EndStates
  <2>2. \A u \in Tasks : /\ sEnd'[u] = IF u = t THEN "open" ELSE sEnd[u]
                         /\ task'[u] = IF u = t THEN "inserted" ELSE task[u]
    BY DEF TypeOK
  <2>3. sEnd[t] = "none"
    BY DEF InsertedOnce
  <2>4. ChosenLate' /\ AckAfterInsert'
    BY <2>2, EndsKept
  <2>5. ServedIsChosen' /\ InsertedOnce' /\ TakenOnce'
    BY <2>2 DEF ServedIsChosen, InsertedOnce, TakenOnce
  <2>6. Drained'
    BY <2>2, <2>3, TaskPair DEF Drained, TypeOK
  <2> QED BY <2>1, <2>4, <2>5, <2>6
<1>5. CASE Ack(t)
  <2> USE <1>5 DEF Ack
  <2>1. TypeOK'
    BY DEF Advance, TypeOK
  <2>2. ServedIsChosen' /\ InsertedOnce' /\ TakenOnce' /\ Drained'
    BY <1>1
  <2>3. sEnd[t] # "none" /\ Held(t[2])
    BY TaskPair DEF InsertedOnce, Held
  <2>4. AckAfterInsert'
    BY <2>3 DEF AckAfterInsert, Held
  <2> QED BY <2>1, <2>2, <2>4, EndsKept
<1>6. CASE TaskSetsClosed(t) \/ TaskReleases(t)
  <2> USE <1>6 DEF TaskSetsClosed, TaskReleases, ServerSetsClosed, ServerReleases, Advance, netVars
  <2>1. TypeOK'
    BY DEF TypeOK, EndStates
  <2>2. PICK end \in {"closing", "released"}, to \in {"releasing", "ended"} :
          \A u \in Tasks : /\ sEnd'[u] = IF u = t THEN end ELSE sEnd[u]
                           /\ task'[u] = IF u = t THEN to ELSE task[u]
    BY DEF TypeOK, InsertedOnce, EndStates
  <2>3. task[t] \in {"closing", "releasing"} /\ sEnd[t] # "none"
    BY DEF InsertedOnce
  <2>4. ChosenLate' /\ AckAfterInsert'
    BY <2>2, EndsKept
  <2>5. ServedIsChosen'
    BY <2>2, <2>3 DEF ServedIsChosen
  <2>6. TakenOnce'
    <3>1. openNet' = openNet /\ callPc' = callPc /\ openNet \subseteq Tasks
      BY DEF TypeOK
    <3>2. t \notin openNet /\ callPc[t[2]] \notin {"idle", "publish"}
      BY <2>3 DEF TakenOnce
    <3> QED
      BY <2>2, <3>1, <3>2 DEF TakenOnce
  <2>7. InsertedOnce'
    BY <2>2, <2>3 DEF InsertedOnce
  <2>8. Drained'
    BY <2>2, TaskPair DEF Drained, TypeOK
  <2> QED BY <2>1, <2>4, <2>5, <2>6, <2>7, <2>8
<1> QED
  BY <1>2, <1>3, <1>4, <1>5, <1>6 DEF TaskStep

-----------------------------------------------------------------------------
(* The close of a handler, and the end of its run loop.                        *)
LEMMA CloseInv ==
  ASSUME OpenInv, NEW s \in Servers, BeginClose(s) \/ CloseStep(s)
  PROVE  OpenInv'
<1> USE DEF OpenInv, callVars, endVars, envVars, taskVars
<1>1. ASSUME UNCHANGED <<callVars, endVars, taskVars, openNet, toClient>>
      PROVE  /\ ChosenLate' /\ ServedIsChosen' /\ TakenOnce' /\ AckAfterInsert'
             /\ drain' = drain => InsertedOnce'
  BY <1>1 DEF ChosenLate, Undecided, ServedIsChosen, TakenOnce, InsertedOnce, AckAfterInsert, Held
<1>2. CASE BeginClose(s)
  <2> USE <1>2 DEF BeginClose, netVars
  <2>1. TypeOK'
    BY DEF TypeOK, HeldAt
  <2>2. \A r \in HeldAt(s) : r \in Streams /\ sEnd[<<s, r>>] # "none"
    BY DEF HeldAt, Mapped
  <2>3. \A z \in Servers : /\ held'[z] = IF z = s THEN HeldAt(s) ELSE held[z]
                           /\ closing'[z] = IF z = s THEN "draining" ELSE closing[z]
    BY DEF TypeOK
  <2>4. Drained'
    BY <2>2, <2>3 DEF Drained
  <2> QED BY <1>1, <2>1, <2>4
<1>3. CASE Snapshot(s)
  <2> USE <1>3 DEF Snapshot, netVars
  <2>1. TypeOK'
    BY DEF TypeOK
  <2>2. \A r \in Streams : drain'[<<s, r>>] = IF Mapped(sEnd[<<s, r>>]) THEN "called"
                                              ELSE drain[<<s, r>>]
    BY TaskPair DEF HeldAt
  <2>3. \A z \in Servers \ {s} : \A r \in Streams : drain'[<<z, r>>] = drain[<<z, r>>]
    BY TaskPair
  <2>4. \A z \in Servers : closing'[z] = IF z = s THEN "waiting" ELSE closing[z]
    BY DEF TypeOK
  <2>5. \A r \in held[s] : r \in Streams /\ sEnd[<<s, r>>] \in EndStates
    BY TaskPair DEF TypeOK
  <2>6. Drained'
    <3> SUFFICES ASSUME NEW z \in Servers
                 PROVE  /\ closing'[z] = "open" => held'[z] = {}
                        /\ \A r \in held'[z] :
                            /\ sEnd'[<<z, r>>] # "none"
                            /\ closing'[z] \in {"waiting", "complete"} =>
                                  \/ sEnd'[<<z, r>>] \in {"closing", "released"}
                                  \/ drain'[<<z, r>>] = "called"
                            /\ closing'[z] = "complete" => drain'[<<z, r>>] # "called"
      BY DEF Drained
    <3>1. CASE z = s
      BY <3>1, <2>2, <2>4, <2>5 DEF Drained, Mapped, EndStates
    <3>2. CASE z # s
      BY <3>2, <2>3, <2>4 DEF Drained, TypeOK
    <3> QED BY <3>1, <3>2
  <2>7. \A u \in Tasks : drain'[u] # "none" => drain[u] # "none" \/ sEnd[u] # "none"
    BY TaskPair DEF HeldAt, Mapped
  <2>8. InsertedOnce'
    BY <2>7 DEF InsertedOnce
  <2> QED BY <1>1, <2>1, <2>6, <2>8
<1>4. CASE FinishClose(s)
  <2> USE <1>4 DEF FinishClose, netVars
  <2>1. TypeOK'
    BY DEF TypeOK
  <2>2. \A z \in Servers : closing'[z] = IF z = s THEN "complete" ELSE closing[z]
    BY DEF TypeOK
  <2>3. \A r \in held[s] : r \in Streams
    BY DEF TypeOK
  <2>4. Drained'
    BY <2>2, <2>3 DEF Drained
  <2> QED BY <1>1, <2>1, <2>4
<1>5. CASE LoopReturns(s)
  <2> USE <1>5 DEF LoopReturns, netVars
  <2>1. TypeOK'
    BY DEF TypeOK
  <2>2. Drained'
    BY DEF Drained
  <2> QED BY <1>1, <2>1, <2>2
<1>6. ASSUME NEW r \in Streams, DrainSetsClosed(<<s, r>>) \/ DrainReleases(<<s, r>>)
      PROVE  OpenInv'
  <2> DEFINE t == <<s, r>>
  <2>1. t \in Tasks /\ (DrainSetsClosed(t) \/ DrainReleases(t))
    BY <1>6, TaskPair
  <2> HIDE DEF t
  <2> USE <2>1 DEF DrainSetsClosed, DrainReleases, ServerSetsClosed, ServerReleases, netVars
  <2>2. TypeOK'
    BY DEF TypeOK, EndStates
  <2>3. PICK to \in {"releasing", "done"} :
          \A u \in Tasks : drain'[u] = IF u = t THEN to ELSE drain[u]
    BY DEF TypeOK
  <2>4. sEnd[t] # "none"
    BY DEF InsertedOnce
  <2>5. PICK end \in {"closing", "released"} :
          \A u \in Tasks : sEnd'[u] = IF u = t THEN end ELSE sEnd[u]
    BY <2>4 DEF TypeOK, EndStates
  <2>6. ChosenLate' /\ AckAfterInsert'
    BY <2>5, EndsKept
  <2>7. ServedIsChosen' /\ TakenOnce'
    BY <2>4, <2>5 DEF ServedIsChosen, TakenOnce
  <2>8. InsertedOnce'
    BY <2>3, <2>4, <2>5 DEF InsertedOnce
  <2>9. Drained'
    <3>1. \A z \in Servers : \A q \in held[z] : <<z, q>> \in Tasks
      BY TaskPair DEF TypeOK
    <3> QED
      BY <2>3, <2>5, <3>1 DEF Drained
  <2> QED
    BY <2>2, <2>6, <2>7, <2>8, <2>9
<1> QED
  BY <1>2, <1>3, <1>4, <1>5, <1>6 DEF CloseStep

-----------------------------------------------------------------------------
(* Every step keeps the invariant.                                             *)
LEMMA StepOpen == OpenInv /\ [Next]_vars => OpenInv'
<1> SUFFICES ASSUME OpenInv, [Next]_vars PROVE OpenInv'
  OBVIOUS
<1>1. CASE UNCHANGED vars
  <2> USE <1>1 DEF vars, callVars, endVars, envVars, taskVars, closeVars, netVars
  <2>1. TypeOK'
    BY DEF OpenInv, TypeOK
  <2> QED
    BY <2>1 DEF OpenInv, ChosenLate, Undecided, ServedIsChosen, TakenOnce, InsertedOnce,
                AckAfterInsert, Held, Drained
<1>2. ASSUME NEW r \in Streams, Open(r) \/ CallStep(r) \/ CallCloses(r) PROVE OpenInv'
  BY <1>2, CallInv
<1>3. ASSUME NEW t \in Tasks, TakeOpen(t) \/ TakeGrant(t) \/ TakeClose(t) \/ TaskStep(t)
                              \/ TaskCloses(t)
      PROVE  OpenInv'
  BY <1>3, LoopInv, TaskInv
<1>4. ASSUME NEW s \in Servers, BeginClose(s) \/ CloseStep(s) PROVE OpenInv'
  BY <1>4, CloseInv
<1> QED
  BY <1>1, <1>2, <1>3, <1>4, ClientInv DEF Next

(* The invariant holds of every reachable state.                               *)
THEOREM OpenInvariance == Spec => []OpenInv
  BY InitOpen, StepOpen, PTL DEF Spec

(* Where a claim is needed, no server but the chosen one ever holds an end of  *)
(* the stream (pkg/client/stream.go, OpenStream; pkg/server/stream.go,         *)
(* claimRequest and handleOpenRequest).                                        *)
THEOREM ChosenServes == Spec => []OnlyChosenServes
<1>1. OpenInv => OnlyChosenServes
  BY DEF OpenInv, ServedIsChosen, OnlyChosenServes
<1> QED
  BY <1>1, OpenInvariance, PTL

(* A stream whose open was acknowledged is one a server put in its map         *)
(* (handleOpenRequest inserts before it acknowledges).                         *)
THEOREM AckedHeld == Spec => []AckedIsHeld
<1>1. OpenInv => AckedIsHeld
  BY DEF OpenInv, AckAfterInsert, Held, AckedIsHeld
<1> QED
  BY <1>1, OpenInvariance, PTL

(* A close that completed left none of the streams it found open               *)
(* (streamHandler.close).                                                      *)
THEOREM CloseHasDrained == Spec => []CloseDrains
<1>1. OpenInv => CloseDrains
  BY DEF OpenInv, Drained, CloseDrains
<1> QED
  BY <1>1, OpenInvariance, PTL

-----------------------------------------------------------------------------
(* An acknowledged stream that needed a claim was inserted by the server the   *)
(* caller chose.                                                               *)
LEMMA AckedByServer ==
  ASSUME OpenInv, requireClaim, NEW r \in Streams, Held(r)
  PROVE  choice[r] \in Servers /\ <<choice[r], r>> \in Served
<1>1. PICK s \in Servers : sEnd[<<s, r>>] # "none"
  BY DEF Held
<1>2. choice[r] = s
  BY <1>1, TaskPair DEF OpenInv, ServedIsChosen
<1> QED
  BY <1>1, <1>2, TaskPair DEF Served

(* The steps of the client: Select assigns, an acknowledgement answers, and    *)
(* nothing else is seen.                                                       *)
LEMMA ClientAssigns ==
  ASSUME OpenInv, UNCHANGED <<requireClaim, sEnd>>,
         NEW r \in Streams, Open(r) \/ CallStep(r) \/ CallCloses(r) \/ PumpStep(r)
  PROVE  [A!Next]_A!vars
<1>0. UNCHANGED Served
  BY DEF Served
<1>1. CASE Select(r)
  <2>1. PICK s \in bids[r] : choice' = [choice EXCEPT ![r] = s]
    BY <1>1 DEF Select
  <2>2. s \in Servers
    BY DEF OpenInv, TypeOK
  <2>3. choice[r] = NoServer
    BY <1>1 DEF Select, OpenInv, ChosenLate, Undecided
  <2>4. ~(requireClaim /\ r \in acked)
    BY <2>3, AckedByServer, StreamOpenAssumption DEF OpenInv, AckAfterInsert
  <2>5. UNCHANGED AckedBy
    <3>1. acked' = acked
      BY <1>1 DEF Select, endVars
    <3>2. \A q \in Streams : q # r => choice'[q] = choice[q]
      BY <2>1 DEF OpenInv, TypeOK
    <3> QED
      BY <2>4, <3>1, <3>2 DEF AckedBy
  <2>6. A!Assign(r, s)
    BY <1>0, <2>1, <2>3, <2>5 DEF A!Assign
  <2> QED
    BY <2>2, <2>6 DEF A!Next
<1>2. CASE PumpAck(r)
  <2>1. /\ UNCHANGED choice
        /\ acked' = acked \cup {r} /\ r \notin acked
        /\ Held(r)
    BY <1>2 DEF PumpAck, callVars, OpenInv, AckAfterInsert
  <2>2. CASE requireClaim
    <3>1. choice[r] \in Servers /\ <<choice[r], r>> \in Served
      BY <2>1, <2>2, AckedByServer
    <3>2. AckedBy' = [AckedBy EXCEPT ![r] = choice[r]] /\ AckedBy[r] = NoServer
      BY <2>1, <2>2 DEF AckedBy
    <3>3. A!Answer(r, choice[r])
      BY <1>0, <2>1, <3>1, <3>2 DEF A!Answer
    <3> QED
      BY <3>1, <3>3 DEF A!Next
  <2>3. CASE ~requireClaim
    BY <1>0, <2>1, <2>3 DEF AckedBy, A!vars
  <2> QED
    BY <2>2, <2>3
<1>3. CASE ~Select(r) /\ ~PumpAck(r)
  <2>1. UNCHANGED <<choice, acked>>
    BY <1>3 DEF CallStep, PumpStep, Open, PublishOpen, Grant, Acked, OpenFails, CallCloses,
                CallReleases, PumpClose, PumpEnds, PumpReleases, callVars, endVars
  <2> QED
    BY <1>0, <2>1 DEF AckedBy, A!vars
<1> QED
  BY <1>1, <1>2, <1>3

(* The steps of the servers: an insertion starts the stream at the chosen      *)
(* server; closing and releasing an end leave it inserted.                     *)
LEMMA ServerAssigns ==
  ASSUME OpenInv, UNCHANGED <<requireClaim, choice, acked>>,
         \/ \E t \in Tasks : TakeOpen(t) \/ TakeGrant(t) \/ TakeClose(t) \/ TaskStep(t)
                             \/ TaskCloses(t)
         \/ \E s \in Servers : BeginClose(s) \/ CloseStep(s)
  PROVE  [A!Next]_A!vars
<1>0. UNCHANGED AckedBy
  BY DEF AckedBy
<1>1. ASSUME NEW t \in Tasks, Insert(t) PROVE [A!Next]_A!vars
  <2>1. sEnd' = [sEnd EXCEPT ![t] = "open"] /\ task[t] = "granted"
    BY <1>1 DEF Insert
  <2>2. CASE requireClaim
    <3>1. t[1] \in Servers /\ t[2] \in Streams /\ t = <<t[1], t[2]>> /\ choice[t[2]] = t[1]
      BY <2>1, <2>2, TaskPair DEF OpenInv, ServedIsChosen
    <3>2. Served' = Served \cup {t}
      BY <2>1, <2>2 DEF Served, OpenInv, TypeOK
    <3>3. A!Start(t[2], t[1])
      BY <1>0, <3>1, <3>2 DEF A!Start
    <3> QED
      BY <3>1, <3>3 DEF A!Next
  <2>3. CASE ~requireClaim
    BY <1>0, <2>3 DEF Served, A!vars
  <2> QED
    BY <2>2, <2>3
<1>2. CASE \A t \in Tasks : ~Insert(t)
  <2>1. \A t \in Tasks : sEnd'[t] # "none" <=> sEnd[t] # "none"
    <3>1. ASSUME NEW t \in Tasks, TaskSetsClosed(t) \/ TaskReleases(t) \/ TakeClose(t)
                                  \/ DrainSetsClosed(t) \/ DrainReleases(t)
          PROVE  \A u \in Tasks : sEnd'[u] # "none" <=> sEnd[u] # "none"
      <4>1. sEnd[t] # "none" \/ UNCHANGED sEnd
        BY <3>1 DEF TaskSetsClosed, TaskReleases, TakeClose, DrainSetsClosed, DrainReleases,
                    OpenInv, InsertedOnce
      <4>2. \E x \in {"closing", "released", sEnd[t]} : sEnd' = [sEnd EXCEPT ![t] = x]
        BY <3>1 DEF TaskSetsClosed, TaskReleases, TakeClose, DrainSetsClosed, DrainReleases,
                    ServerSetsClosed, ServerReleases
      <4> QED
        BY <4>1, <4>2 DEF OpenInv, TypeOK
    <3>2. ASSUME NEW t \in Tasks, TakeOpen(t) \/ TakeGrant(t) \/ SkipClaim(t) \/ Bid(t)
                                  \/ Decide(t) \/ ClaimFails(t) \/ Ack(t) \/ TaskCloses(t)
          PROVE  UNCHANGED sEnd
      BY <3>2 DEF TakeOpen, TakeGrant, SkipClaim, Bid, Decide, ClaimFails, Ack, TaskCloses, taskVars
    <3>3. ASSUME NEW s \in Servers, BeginClose(s) \/ Snapshot(s) \/ FinishClose(s) \/ LoopReturns(s)
          PROVE  UNCHANGED sEnd
      BY <3>3 DEF BeginClose, Snapshot, FinishClose, LoopReturns, taskVars
    <3> QED
      BY <1>2, <3>1, <3>2, <3>3, TaskPair DEF TaskStep, CloseStep
  <2>2. UNCHANGED Served
    BY <2>1 DEF Served
  <2> QED
    BY <1>0, <2>2 DEF A!vars
<1> QED
  BY <1>1, <1>2

(* Opening a stream that needs a claim implements Assignment (OpenStream,      *)
(* selectServerUntil's result and the acknowledgement at the client;           *)
(* claimRequest and the insertion in h.streams at the server).                 *)
THEOREM OpensAreAssigned == Spec => ImplementsAssignment
<1>1. Init => A!Init
  BY DEF Init, A!Init, Served, AckedBy
<1>2. ASSUME OpenInv, [Next]_vars PROVE [A!Next]_A!vars
  <2>1. ASSUME NEW r \in Streams, Open(r) \/ CallStep(r) \/ CallCloses(r) \/ PumpStep(r)
        PROVE  [A!Next]_A!vars
    <3>1. UNCHANGED <<requireClaim, sEnd>>
      BY <2>1 DEF Open, CallStep, CallCloses, PumpStep, PublishOpen, Select, Grant, Acked, OpenFails,
                  CallReleases, PumpAck, PumpClose, PumpEnds, PumpReleases, taskVars, callVars
    <3> QED
      BY <1>2, <2>1, <3>1, ClientAssigns
  <2>2. ASSUME \/ \E t \in Tasks : TakeOpen(t) \/ TakeGrant(t) \/ TakeClose(t) \/ TaskStep(t)
                                   \/ TaskCloses(t)
               \/ \E s \in Servers : BeginClose(s) \/ CloseStep(s)
        PROVE  [A!Next]_A!vars
    <3>1. UNCHANGED <<requireClaim, choice, acked>>
      BY <2>2 DEF TakeOpen, TakeGrant, TakeClose, TaskStep, TaskCloses, BeginClose, CloseStep, SkipClaim,
                  Bid, Decide, ClaimFails, Insert, Ack, TaskSetsClosed, TaskReleases, Snapshot,
                  FinishClose, LoopReturns, DrainSetsClosed, DrainReleases, callVars, endVars
    <3> QED
      BY <1>2, <2>2, <3>1, ServerAssigns
  <2>3. ASSUME \/ \E r \in Streams : Cancel(r) \/ Tick(r)
               \/ BreakFuse
               \/ \E t \in Tasks : TakeBid(t)
               \/ \E p \in Tasks \X {"ack", "close"} : Dispatch(p)
               \/ UNCHANGED vars
        PROVE  [A!Next]_A!vars
    <3>1. UNCHANGED <<requireClaim, choice, acked, sEnd>>
      BY <2>3 DEF Cancel, Tick, BreakFuse, TakeBid, Dispatch, vars, callVars, endVars, taskVars
    <3> QED
      BY <3>1 DEF Served, AckedBy, A!vars
  <2> QED
    BY <1>2, <2>1, <2>2, <2>3 DEF Next
<1> QED
  BY <1>1, <1>2, OpenInvariance, PTL DEF Spec, ImplementsAssignment, A!Spec

-----------------------------------------------------------------------------
(* An end that is closing is being released, by the call or by its goroutine;  *)
(* neither of the two leaves before the end is closed.                         *)
EndsLeft ==
    \A r \in Streams :
        /\ callPc[r] = "idle" => cEnd[r] = "none"
        /\ callPc[r] \in {"release", "leaving"} => cEnd[r] # "none"
        /\ cEnd[r] = "none" <=> pump[r] = "none"
        /\ cEnd[r] = "closing" => callPc[r] \in {"release", "leaving"} \/ pump[r] = "closing"
        /\ callPc[r] \in {"release", "failed", "leaving", "left"}
           \/ pump[r] \in {"closing", "exited"} => cEnd[r] # "open"

(* Only OpenStream, its caller and runClientStream touch the client's end.     *)
LEMMA StepEnds == OpenInv /\ EndsLeft /\ [Next]_vars => EndsLeft'
<1> SUFFICES ASSUME OpenInv, EndsLeft, [Next]_vars PROVE EndsLeft'
  OBVIOUS
<1> USE DEF EndsLeft
<1>0. /\ callPc \in [Streams -> {"idle", "publish", "select", "grant", "wait", "fail",
                                 "release", "failed", "opened", "leaving", "left"}]
      /\ cEnd \in [Streams -> {"none", "open", "closing", "released"}]
      /\ pump \in [Streams -> {"none", "select", "closing", "exited"}]
  BY DEF OpenInv, TypeOK, EndStates
<1>1. ASSUME UNCHANGED <<callPc, cEnd, pump>> PROVE EndsLeft'
  BY <1>1
<1>2. ASSUME NEW r \in Streams, Open(r) PROVE EndsLeft'
  BY <1>0, <1>2 DEF Open, Goto
<1>3. ASSUME NEW r \in Streams,
             PublishOpen(r) \/ Select(r) \/ Grant(r) \/ Acked(r) \/ OpenFails(r)
      PROVE  EndsLeft'
  <2>1. UNCHANGED <<cEnd, pump>> /\ callPc[r] \in {"publish", "select", "grant", "wait"}
    BY <1>3 DEF PublishOpen, Select, Grant, Acked, OpenFails, endVars
  <2>2. \E x \in {"select", "grant", "wait", "opened", "fail"} : callPc' = [callPc EXCEPT ![r] = x]
    BY <1>3 DEF PublishOpen, Select, Grant, Acked, OpenFails, Goto
  <2> QED
    BY <1>0, <2>1, <2>2
<1>4. ASSUME NEW r \in Streams, CallCloses(r) PROVE EndsLeft'
  <2>1. CASE cEnd[r] = "open"
    <3>1. /\ cEnd' = [cEnd EXCEPT ![r] = "closing"] /\ UNCHANGED pump
          /\ callPc[r] \in {"fail", "opened"}
          /\ \E x \in {"release", "leaving"} : callPc' = [callPc EXCEPT ![r] = x]
      BY <1>4, <2>1 DEF CallCloses, ClientSetsClosed, Goto
    <3> QED
      BY <1>0, <2>1, <3>1
  <2>2. CASE cEnd[r] # "open"
    <3>1. /\ UNCHANGED <<cEnd, pump>> /\ callPc[r] \in {"fail", "opened"}
          /\ \E x \in {"failed", "left"} : callPc' = [callPc EXCEPT ![r] = x]
      BY <1>0, <1>4, <2>2 DEF CallCloses, ClientSetsClosed, Goto
    <3> QED
      BY <1>0, <2>2, <3>1
  <2> QED
    BY <2>1, <2>2
<1>5. ASSUME NEW r \in Streams, CallReleases(r) PROVE EndsLeft'
  <2>1. /\ cEnd' = [cEnd EXCEPT ![r] = "released"] /\ UNCHANGED pump
        /\ callPc[r] \in {"release", "leaving"}
        /\ \E x \in {"failed", "left"} : callPc' = [callPc EXCEPT ![r] = x]
    BY <1>5 DEF CallReleases, ClientReleases, Goto
  <2> QED
    BY <1>0, <2>1
<1>6. ASSUME NEW r \in Streams, PumpClose(r) \/ PumpEnds(r) \/ PumpReleases(r) PROVE EndsLeft'
  <2>1. UNCHANGED callPc
    BY <1>6 DEF PumpClose, PumpEnds, PumpReleases, callVars
  <2> QED
    BY <1>0, <1>6, <2>1 DEF PumpClose, PumpEnds, PumpReleases, ClientReleases, ClientSetsClosed
<1>7. ASSUME NEW r \in Streams, Cancel(r) \/ Tick(r) \/ PumpAck(r) PROVE EndsLeft'
  BY <1>1, <1>7 DEF Cancel, Tick, PumpAck, callVars, endVars
<1>8. CASE BreakFuse \/ UNCHANGED vars \/ \E p \in Tasks \X {"ack", "close"} : Dispatch(p)
  BY <1>1, <1>8 DEF BreakFuse, Dispatch, vars, callVars, endVars
<1>9. ASSUME NEW t \in Tasks, TakeBid(t) \/ TakeOpen(t) \/ TakeGrant(t) \/ TakeClose(t)
                              \/ TaskStep(t) \/ TaskCloses(t)
      PROVE  EndsLeft'
  BY <1>1, <1>9 DEF TakeBid, TakeOpen, TakeGrant, TakeClose, TaskStep, TaskCloses, SkipClaim, Bid,
                    Decide, ClaimFails, Insert, Ack, TaskSetsClosed, TaskReleases, callVars, endVars
<1>10. ASSUME NEW s \in Servers, BeginClose(s) \/ CloseStep(s) PROVE EndsLeft'
  BY <1>1, <1>10 DEF BeginClose, CloseStep, Snapshot, FinishClose, LoopReturns, DrainSetsClosed,
                     DrainReleases, callVars, endVars
<1> QED
  BY <1>2, <1>3, <1>4, <1>5, <1>6, <1>7, <1>8, <1>9, <1>10 DEF Next, CallStep, PumpStep

(* What is left when no fair step can be taken.                                *)
LEMMA NothingLeft ==
  ASSUME OpenInv, EndsLeft, ~CanGoOn
  PROVE  Settled
<1>1. ASSUME NEW r \in Streams
      PROVE  /\ ~Registered(r)
             /\ cEnd[r] # "none" /\ (callPc[r] = "failed" \/ fuse \/ r \in canceled) =>
                   cEnd[r] = "released" /\ pump[r] = "exited"
  <2>1. callPc[r] \in {"idle", "failed", "opened", "left"}
    <3>1. callPc[r] \in {"idle", "wait", "failed", "opened", "left"}
      BY DEF CanGoOn, OpenInv, TypeOK
    <3>2. callPc[r] # "wait"
      BY DEF CanGoOn
    <3> QED
      BY <3>1, <3>2
  <2>2. ASSUME cEnd[r] # "none", callPc[r] = "failed" \/ fuse \/ r \in canceled
        PROVE  cEnd[r] = "released" /\ pump[r] = "exited"
    <3>1. cEnd[r] \in {"open", "closing", "released"} /\ pump[r] \in {"select", "closing", "exited"}
      BY <2>2 DEF OpenInv, TypeOK, EndStates, EndsLeft
    <3>2. pump[r] # "closing" /\ cEnd[r] # "closing"
      BY <2>1 DEF CanGoOn, EndsLeft
    <3>3. CASE pump[r] = "exited"
      BY <3>1, <3>2, <3>3 DEF EndsLeft
    <3>4. CASE pump[r] = "select"
      BY <2>2, <3>1, <3>2, <3>4 DEF CanGoOn, EndsLeft
    <3> QED
      BY <3>1, <3>2, <3>3, <3>4
  <2> QED
    BY <2>1, <2>2 DEF Registered
<1>2. ASSUME NEW t \in Tasks PROVE task[t] \in {"none", "running", "ended"}
  <2>1. t[2] \in Streams /\ (task[t] # "none" => callPc[t[2]] # "idle")
    BY TaskPair DEF OpenInv, TakenOnce
  <2>2. task[t] # "waiting"
    BY <2>1 DEF CanGoOn
  <2> QED
    BY <2>2 DEF CanGoOn, OpenInv, TypeOK
<1>3. ASSUME NEW s \in Servers PROVE closing[s] = "open" \/ s \in loopExit
  <2>1. \A r \in Streams : drain[<<s, r>>] \in {"none", "done"}
    BY TaskPair DEF CanGoOn, OpenInv, TypeOK
  <2>2. closing[s] \in {"open", "complete"}
    BY <2>1 DEF CanGoOn, OpenInv, TypeOK
  <2> QED
    BY <2>2 DEF CanGoOn, Looping
<1> QED
  BY <1>1, <1>2, <1>3 DEF Settled

(* Opening and closing can go on by themselves until every open has returned   *)
(* or been given up, every end that is to go is released, and every close of a *)
(* handler has completed (OpenStream, runClientStream, handleOpenRequest,      *)
(* streamHandler.close and run).                                               *)
(* That a step whose guard holds can be taken, the other half of NothingStuck, *)
(* is left to TLC.                                                             *)
THEOREM GoesOnOrSettled == Spec => [](CanGoOn \/ Settled)
<1>1. Init => EndsLeft
  BY DEF Init, EndsLeft
<1>2. OpenInv /\ EndsLeft => CanGoOn \/ Settled
  BY NothingLeft
<1> QED
  BY <1>1, <1>2, StepEnds, OpenInvariance, PTL DEF Spec

=============================================================================
