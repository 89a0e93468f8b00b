----------------------------- MODULE StreamProofs -----------------------------
(* Proofs about an open stream, for any number of sends, any direction of each *)
(* and any channel size: its channels are closed once and never sent to after, *)
(* a Send that returns nil was received, and Close waits for what is pending.  *)
EXTENDS Stream, FiniteSetTheorems, TLAPS

-----------------------------------------------------------------------------
(* Receive channels are finite, so that their length means something.          *)
BuffersFinite == \A e \in Ends : IsFiniteSet(recvBuf[e])

(* The goroutine of an end holds a message exactly while it receives it.       *)
HandlesOne ==
    \A e \in Ends :
        /\ loop[e] \in {"recv", "ack"} => \E m \in Sends : handling[e] = {m}
        /\ loop[e] \notin {"recv", "ack"} => handling[e] = {}

(* Goroutine k of end e has set the stream closed and has yet to release it.   *)
Owns(e, k) == closer[<<e, k>>] \in {"sendClose", "wait"}

(* A closed stream is released by the one goroutine that set it closed: one of *)
(* the local closers, or the goroutine that handles the peer's close.          *)
OneReleaser ==
    \A e \in Ends :
        /\ e \notin closed =>
              /\ loop[e] # "remoteClose" /\ e \notin recvClosed
              /\ \A k \in Closers : ~Owns(e, k) /\ closer[<<e, k>>] # "finished"
        /\ \A k, l \in Closers : Owns(e, k) /\ Owns(e, l) => k = l
        /\ \A k \in Closers : Owns(e, k) => loop[e] # "remoteClose" /\ e \notin recvClosed
        /\ loop[e] \in {"recv", "ack", "remoteClose"} => e \notin recvClosed

(* An acknowledgement, wherever it is, is one of an accepted message, and the  *)
(* context of a stream ends by the caller's doing or once the stream is closed.*)
AcksAreTrue ==
    /\ \A e \in Ends : loop[e] = "ack" => handling[e] \subseteq accepted
    /\ \A m \in Sends : AckOf(m) \in net => m \in accepted
    /\ \A m \in Sends, e \in Ends : AckOf(m) \in inbox[e] => m \in accepted
    /\ acked \subseteq accepted
    /\ \A e \in ctxDone : e \in closed \/ (e = "client" /\ canceled)

StreamInv ==
    TypeOK /\ BuffersFinite /\ HandlesOne /\ OneReleaser /\ AcksAreTrue
    /\ NoPanic /\ SentMeansReceived /\ CloseWaits

-----------------------------------------------------------------------------
(* The other end is an end.                                                    *)
LEMMA PeerType == ASSUME NEW e \in Ends PROVE Peer(e) \in Ends
  BY DEF Peer, Ends

(* A fresh stream has nothing in flight, and nobody closes it.                 *)
LEMMA InitInv == Init => StreamInv
<1> SUFFICES ASSUME Init PROVE StreamInv
  OBVIOUS
<1>1. IsFiniteSet({}) /\ Cardinality({}) = 0
  BY FS_EmptySet
<1>2. TypeOK
  <2>1. \A e \in Ends : recvBuf[e] = {}
    BY DEF Init
  <2>2. \A e \in Ends : Cardinality(recvBuf[e]) <= ChannelSize
    BY <2>1, <1>1, StreamAssumption
  <2> QED
    BY <2>2, StreamAssumption DEF Init, TypeOK, Closers
<1>3. BuffersFinite
  BY <1>1 DEF Init, BuffersFinite
<1>4. HandlesOne /\ OneReleaser /\ AcksAreTrue
  BY DEF Init, HandlesOne, OneReleaser, AcksAreTrue, Owns
<1>5. NoPanic /\ SentMeansReceived /\ CloseWaits
  BY DEF Init, NoPanic, SentMeansReceived, CloseWaits
<1> QED
  BY <1>2, <1>3, <1>4, <1>5 DEF StreamInv

-----------------------------------------------------------------------------
(* The steps of Send.                                                          *)
LEMMA SendInv ==
  ASSUME StreamInv, NEW m \in Sends, BeginSend(m) \/ SendStep(m)
  PROVE  StreamInv'
<1> USE DEF StreamInv
<1>1. Packets' = Packets /\ \A n \in Sends : Message(n)' = Message(n) /\ AckOf(n)' = AckOf(n)
  BY DEF BeginSend, SendStep, PublishMessage, PublishFails, SendAcked, SendTimesOut,
         SendInterrupted, Leave, Packets, Message, AckOf, sendVars
<1>2. CASE BeginSend(m)
  <2> USE <1>2 DEF BeginSend, endVars, recvVars, netVars, closeVars
  <2>1. TypeOK'
    BY <1>1 DEF TypeOK
  <2>2. BuffersFinite' /\ HandlesOne' /\ OneReleaser'
    BY DEF BuffersFinite, HandlesOne, OneReleaser, Owns
  <2>3. AcksAreTrue'
    BY <1>1 DEF AcksAreTrue
  <2>4. NoPanic' /\ SentMeansReceived'
    BY DEF NoPanic, SentMeansReceived, TypeOK
  <2>5. CloseWaits'
    BY DEF CloseWaits, Pending, OneReleaser, TypeOK
  <2> QED BY <2>1, <2>2, <2>3, <2>4, <2>5
<1>3. CASE PublishMessage(m)
  <2> USE <1>3 DEF PublishMessage, endVars, recvVars, netVars, closeVars
  <2>1. TypeOK'
    BY <1>1 DEF TypeOK, Packets
  <2>2. BuffersFinite' /\ HandlesOne' /\ OneReleaser'
    BY DEF BuffersFinite, HandlesOne, OneReleaser, Owns
  <2>3. AcksAreTrue'
    <3>1. \A n \in Sends : AckOf(n) # Message(m)
      BY DEF AckOf, Message
    <3> QED BY <3>1, <1>1 DEF AcksAreTrue
  <2>4. NoPanic' /\ SentMeansReceived'
    BY DEF NoPanic, SentMeansReceived, TypeOK
  <2>5. CloseWaits'
    BY DEF CloseWaits, Pending, TypeOK
  <2> QED BY <2>1, <2>2, <2>3, <2>4, <2>5
<1>4. ASSUME NEW how \in {"failed", "timedOut", "closedErr", "ok"}, Leave(m, how),
             how = "ok" => m \in accepted \/ (sender[m] = "client" /\ canceled)
      PROVE  StreamInv'
  <2> USE <1>4 DEF Leave, endVars, recvVars, netVars, closeVars
  <2>1. TypeOK'
    BY <1>1 DEF TypeOK
  <2>2. BuffersFinite' /\ HandlesOne' /\ OneReleaser'
    BY DEF BuffersFinite, HandlesOne, OneReleaser, Owns
  <2>3. AcksAreTrue'
    BY <1>1 DEF AcksAreTrue
  <2>4. NoPanic' /\ SentMeansReceived'
    BY DEF NoPanic, SentMeansReceived, TypeOK
  <2>5. CloseWaits'
    BY DEF CloseWaits, Pending, TypeOK
  <2> QED BY <2>1, <2>2, <2>3, <2>4, <2>5
<1>5. CASE PublishFails(m) \/ SendAcked(m) \/ SendTimesOut(m)
  BY <1>4, <1>5 DEF PublishFails, SendAcked, SendTimesOut, AcksAreTrue
<1>6. CASE SendInterrupted(m)
  <2>1. sender[m] \notin closed => sender[m] = "client" /\ canceled
    BY <1>6 DEF SendInterrupted, AcksAreTrue
  <2> QED BY <1>4, <1>6, <2>1 DEF SendInterrupted
<1> QED
  BY <1>2, <1>3, <1>5, <1>6 DEF SendStep

-----------------------------------------------------------------------------
(* Delivery of a packet to an end.                                             *)
LEMMA RouteInv ==
  ASSUME StreamInv, NEW p \in Packets, Route(p)
  PROVE  StreamInv'
<1> USE DEF StreamInv
<1>1. Packets' = Packets /\ \A n \in Sends : AckOf(n)' = AckOf(n)
  BY DEF Route, Packets, Message, AckOf, CloseTo, sendVars
<1>2. p.to \in Ends /\ p \in net
  BY PeerType DEF Route, Packets, Message, AckOf, CloseTo, TypeOK
<1> USE DEF Route, sendVars, endVars, recvVars, closeVars
<1>3. TypeOK'
  BY <1>1, <1>2 DEF TypeOK
<1>4. BuffersFinite' /\ HandlesOne' /\ OneReleaser' /\ NoPanic' /\ SentMeansReceived' /\ CloseWaits'
  BY DEF BuffersFinite, HandlesOne, OneReleaser, Owns, NoPanic, SentMeansReceived, CloseWaits,
         Pending
<1>5. AcksAreTrue'
  <2>1. \A e \in Ends : inbox'[e] \subseteq inbox[e] \cup {p}
    BY <1>2 DEF TypeOK
  <2>2. \A n \in Sends : AckOf(n) = p => n \in accepted
    BY <1>2 DEF AcksAreTrue
  <2> QED
    BY <1>1, <2>1, <2>2 DEF AcksAreTrue
<1> QED
  BY <1>3, <1>4, <1>5

(* What a goroutine takes from its inbox leaves fewer acknowledgements there.  *)
LEMMA TakesInv ==
  ASSUME StreamInv, NEW p \in Packets, p.to \in Ends, Takes(p), sender' = sender
  PROVE  /\ Packets' = Packets
         /\ \A n \in Sends : AckOf(n)' = AckOf(n)
         /\ inbox' \in [Ends -> SUBSET Packets]
         /\ \A e \in Ends : inbox'[e] \subseteq inbox[e]
         /\ loop[p.to] = "select" /\ p \in inbox[p.to]
  BY DEF Takes, StreamInv, TypeOK, Packets, Message, AckOf

(* The receipt of an acknowledgement.                                          *)
LEMMA HandleAckInv ==
  ASSUME StreamInv, NEW m \in Sends, HandleAck(m)
  PROVE  StreamInv'
<1> USE DEF StreamInv
<1> DEFINE p == AckOf(m)
<1>1. p \in Packets /\ p.to \in Ends /\ Takes(p) /\ sender' = sender
  BY DEF HandleAck, Packets, AckOf, TypeOK
<1> HIDE DEF p
<1>2. /\ Packets' = Packets
      /\ \A n \in Sends : AckOf(n)' = AckOf(n)
      /\ inbox' \in [Ends -> SUBSET Packets]
      /\ \A e \in Ends : inbox'[e] \subseteq inbox[e]
      /\ p \in inbox[p.to]
  BY <1>1, TakesInv
<1>3. m \in accepted
  BY <1>1, <1>2 DEF AcksAreTrue, p
<1> USE DEF HandleAck, endVars, recvVars, closeVars
<1>4. TypeOK'
  BY <1>2 DEF TypeOK
<1>5. BuffersFinite' /\ HandlesOne' /\ OneReleaser' /\ NoPanic' /\ SentMeansReceived' /\ CloseWaits'
  BY DEF BuffersFinite, HandlesOne, OneReleaser, Owns, NoPanic, SentMeansReceived, CloseWaits,
         Pending
<1>6. AcksAreTrue'
  BY <1>2, <1>3 DEF AcksAreTrue
<1> QED
  BY <1>4, <1>5, <1>6

(* The receipt of a message begins, unless the stream is closed.               *)
LEMMA HandleMessageInv ==
  ASSUME StreamInv, NEW m \in Sends, HandleMessage(m)
  PROVE  StreamInv'
<1> USE DEF StreamInv
<1> DEFINE p == Message(m)
           a == Peer(sender[m])
<1>0. a \in Ends
  BY PeerType DEF TypeOK
<1>1. p \in Packets /\ p.to = a /\ Takes(p) /\ sender' = sender
  BY DEF HandleMessage, Packets, Message, TypeOK, sendVars
<1>a. /\ handling' = [handling EXCEPT ![a] = IF a \in closed THEN @ ELSE {m}]
      /\ loop' = [loop EXCEPT ![a] = IF a \in closed THEN @ ELSE "recv"]
      /\ UNCHANGED <<sendVars, endVars, recvBuf, accepted, net, closeVars>>
  BY DEF HandleMessage
<1> HIDE DEF p, a
<1>2. /\ Packets' = Packets
      /\ \A n \in Sends : AckOf(n)' = AckOf(n)
      /\ inbox' \in [Ends -> SUBSET Packets]
      /\ \A e \in Ends : inbox'[e] \subseteq inbox[e]
      /\ loop[a] = "select"
  BY <1>0, <1>1, TakesInv
<1> USE <1>0, <1>a DEF sendVars, endVars, closeVars
<1>4. TypeOK'
  BY <1>2 DEF TypeOK
<1>5. BuffersFinite' /\ NoPanic' /\ SentMeansReceived'
  BY DEF BuffersFinite, NoPanic, SentMeansReceived
<1>6. HandlesOne'
  BY <1>2 DEF HandlesOne, TypeOK
<1>7. OneReleaser'
  BY <1>2 DEF OneReleaser, Owns, TypeOK
<1>8. CloseWaits'
  BY <1>2 DEF CloseWaits, Pending, OneReleaser, TypeOK
<1>9. AcksAreTrue'
  BY <1>2 DEF AcksAreTrue, TypeOK
<1> QED
  BY <1>4, <1>5, <1>6, <1>7, <1>8, <1>9

(* The peer's close is taken: the first to set the stream closed releases it.  *)
LEMMA HandleCloseInv ==
  ASSUME StreamInv, NEW a \in Ends, HandleClose(a)
  PROVE  StreamInv'
<1> USE DEF StreamInv
<1> DEFINE p == CloseTo(a)
<1>1. p \in Packets /\ p.to = a /\ Takes(p) /\ sender' = sender
  BY DEF HandleClose, Packets, CloseTo, sendVars
<1> HIDE DEF p
<1>2. /\ Packets' = Packets
      /\ \A n \in Sends : AckOf(n)' = AckOf(n)
      /\ inbox' \in [Ends -> SUBSET Packets]
      /\ \A e \in Ends : inbox'[e] \subseteq inbox[e]
      /\ loop[a] = "select"
  BY <1>1, TakesInv
<1> USE DEF HandleClose, sendVars, closeVars
<1>3. TypeOK'
  BY <1>2 DEF TypeOK
<1>4. BuffersFinite' /\ NoPanic' /\ SentMeansReceived' /\ CloseWaits'
  BY DEF BuffersFinite, NoPanic, SentMeansReceived, CloseWaits, Pending
<1>5. HandlesOne'
  BY <1>2 DEF HandlesOne, TypeOK
<1>6. OneReleaser'
  BY <1>2 DEF OneReleaser, Owns, TypeOK
<1>7. AcksAreTrue'
  BY <1>2 DEF AcksAreTrue, TypeOK
<1> QED
  BY <1>3, <1>4, <1>5, <1>6, <1>7

-----------------------------------------------------------------------------
(* What a step that leaves packets and the sends alone leaves as it was.       *)
LEMMA Kept ==
  ASSUME StreamInv, sender' = sender
  PROVE  Packets' = Packets /\ \A n \in Sends : AckOf(n)' = AckOf(n)
  BY DEF Packets, Message, AckOf

(* The rest of the receipt of a message, and the release after a remote close. *)
LEMMA HandleStepInv ==
  ASSUME StreamInv, NEW a \in Ends, HandleStep(a)
  PROVE  StreamInv'
<1> USE DEF StreamInv
<1>1. Packets' = Packets /\ \A n \in Sends : AckOf(n)' = AckOf(n)
  BY Kept DEF HandleStep, Malformed, Recv, SlowConsumer, Ack, FinishRemoteClose, sendVars
<1>2. CASE Malformed(a)
  <2> USE <1>2 DEF Malformed, Handled, sendVars, endVars, netVars
  <2>1. TypeOK'
    <3>1. <<a, "malformed">> \in Ends \X Closers
      BY DEF Closers
    <3> QED BY <1>1, <3>1 DEF TypeOK
  <2>2. BuffersFinite' /\ HandlesOne' /\ NoPanic' /\ SentMeansReceived' /\ AcksAreTrue'
    BY <1>1 DEF BuffersFinite, HandlesOne, NoPanic, SentMeansReceived, AcksAreTrue, TypeOK
  <2>3. \A e \in Ends, k \in Closers : closer'[<<e, k>>] = closer[<<e, k>>]
                                       \/ closer'[<<e, k>>] = "called"
    BY DEF TypeOK
  <2>4. OneReleaser'
    BY <2>3 DEF OneReleaser, Owns, TypeOK
  <2>5. CloseWaits'
    BY <2>3 DEF CloseWaits, Pending, TypeOK
  <2> QED BY <2>1, <2>2, <2>4, <2>5
<1>3. CASE Recv(a)
  <2> USE <1>3 DEF Recv, sendVars, netVars, closeVars
  <2>1. PICK m \in Sends : handling[a] = {m}
    BY DEF HandlesOne
  <2>2. /\ IsFiniteSet(recvBuf[a] \cup {m})
        /\ Cardinality(recvBuf[a] \cup {m}) <= ChannelSize
    <3>1. IsFiniteSet(recvBuf[a]) /\ Cardinality(recvBuf[a]) \in Nat
      BY FS_CardinalityType DEF BuffersFinite
    <3>2. /\ IsFiniteSet(recvBuf[a] \cup {m})
          /\ \/ Cardinality(recvBuf[a] \cup {m}) = Cardinality(recvBuf[a])
             \/ Cardinality(recvBuf[a] \cup {m}) = Cardinality(recvBuf[a]) + 1
      BY <3>1, FS_AddElement
    <3>3. Cardinality(recvBuf[a]) < ChannelSize
      BY DEF OneReleaser
    <3> QED
      BY <3>1, <3>2, <3>3, StreamAssumption
  <2>3. \A e \in Ends : recvBuf'[e] = IF e = a THEN recvBuf[a] \cup {m} ELSE recvBuf[e]
    BY <2>1 DEF TypeOK
  <2>4. BuffersFinite' /\ \A e \in Ends : Cardinality(recvBuf'[e]) <= ChannelSize
    BY <2>2, <2>3 DEF BuffersFinite, TypeOK
  <2>5. TypeOK'
    BY <1>1, <2>1, <2>4 DEF TypeOK
  <2>6. HandlesOne' /\ OneReleaser' /\ NoPanic'
    BY DEF HandlesOne, OneReleaser, Owns, NoPanic, TypeOK
  <2>7. SentMeansReceived' /\ CloseWaits' /\ AcksAreTrue'
    BY <1>1 DEF SentMeansReceived, CloseWaits, Pending, AcksAreTrue, TypeOK
  <2> QED BY <2>4, <2>5, <2>6, <2>7
<1>4. CASE SlowConsumer(a)
  <2> USE <1>4 DEF SlowConsumer, Handled, sendVars, endVars, netVars, closeVars
  <2>1. TypeOK'
    BY <1>1 DEF TypeOK
  <2>2. BuffersFinite' /\ HandlesOne' /\ NoPanic' /\ SentMeansReceived' /\ AcksAreTrue'
    BY <1>1 DEF BuffersFinite, HandlesOne, NoPanic, SentMeansReceived, AcksAreTrue, TypeOK
  <2>3. OneReleaser' /\ CloseWaits'
    BY DEF OneReleaser, Owns, CloseWaits, Pending, TypeOK
  <2> QED BY <2>1, <2>2, <2>3
<1>5. CASE Ack(a)
  <2> USE <1>5 DEF Ack, Handled, sendVars, endVars, closeVars
  <2>1. PICK m \in Sends : handling[a] = {m}
    BY DEF HandlesOne
  <2>2. net' = net \cup {AckOf(m)} /\ m \in accepted
    BY <2>1 DEF AcksAreTrue
  <2>3. TypeOK'
    BY <1>1, <2>2 DEF TypeOK, Packets
  <2>4. BuffersFinite' /\ HandlesOne' /\ NoPanic' /\ SentMeansReceived'
    BY DEF BuffersFinite, HandlesOne, NoPanic, SentMeansReceived, TypeOK
  <2>5. OneReleaser' /\ CloseWaits'
    BY DEF OneReleaser, Owns, CloseWaits, Pending, TypeOK
  <2>6. \A n \in Sends : AckOf(n) = AckOf(m) => n = m
    BY DEF AckOf
  <2>7. AcksAreTrue'
    BY <1>1, <2>2, <2>6 DEF AcksAreTrue, TypeOK
  <2> QED BY <2>3, <2>4, <2>5, <2>7
<1>6. CASE FinishRemoteClose(a)
  <2> USE <1>6 DEF FinishRemoteClose, Release, sendVars, netVars, closeVars
  <2>1. a \in closed /\ a \notin recvClosed
    BY DEF OneReleaser
  <2>2. TypeOK'
    BY <1>1 DEF TypeOK
  <2>3. BuffersFinite' /\ HandlesOne' /\ NoPanic' /\ SentMeansReceived' /\ CloseWaits'
    BY <2>1 DEF BuffersFinite, HandlesOne, NoPanic, SentMeansReceived, CloseWaits, Pending,
                TypeOK
  <2>4. OneReleaser'
    BY <2>1 DEF OneReleaser, Owns, TypeOK
  <2>5. AcksAreTrue'
    BY <1>1, <2>1 DEF AcksAreTrue, TypeOK
  <2> QED BY <2>2, <2>3, <2>4, <2>5
<1> QED
  BY <1>2, <1>3, <1>4, <1>5, <1>6 DEF HandleStep

(* The application takes a message.                                            *)
LEMMA ReadInv ==
  ASSUME StreamInv, NEW a \in Ends, Read(a)
  PROVE  StreamInv'
<1> USE DEF StreamInv, Read, sendVars, endVars, netVars, closeVars
<1>1. Packets' = Packets /\ \A n \in Sends : AckOf(n)' = AckOf(n)
  BY Kept
<1>2. PICK m \in recvBuf[a] : recvBuf' = [recvBuf EXCEPT ![a] = @ \ {m}]
  OBVIOUS
<1>3. \A e \in Ends : recvBuf'[e] = IF e = a THEN recvBuf[a] \ {m} ELSE recvBuf[e]
  BY <1>2 DEF TypeOK
<1>4. IsFiniteSet(recvBuf[a] \ {m}) /\ Cardinality(recvBuf[a] \ {m}) <= ChannelSize
  <2>1. Cardinality(recvBuf[a]) \in Nat /\ IsFiniteSet(recvBuf[a])
    BY FS_CardinalityType DEF BuffersFinite
  <2>2. Cardinality(recvBuf[a]) <= ChannelSize
    BY DEF TypeOK
  <2> QED
    BY <2>1, <2>2, FS_RemoveElement, StreamAssumption
<1>5. BuffersFinite' /\ \A e \in Ends : Cardinality(recvBuf'[e]) <= ChannelSize
  BY <1>3, <1>4 DEF BuffersFinite, TypeOK
<1>6. TypeOK'
  BY <1>1, <1>2, <1>5 DEF TypeOK
<1>7. HandlesOne' /\ OneReleaser' /\ NoPanic' /\ SentMeansReceived' /\ CloseWaits'
  BY DEF HandlesOne, OneReleaser, Owns, NoPanic, SentMeansReceived, CloseWaits, Pending
<1>8. AcksAreTrue'
  BY <1>1 DEF AcksAreTrue
<1> QED
  BY <1>5, <1>6, <1>7, <1>8

-----------------------------------------------------------------------------
(* The steps of Close: one goroutine sets the stream closed, and only that one *)
(* sends the close, waits and releases.                                        *)
LEMMA CloseInv ==
  ASSUME StreamInv, NEW a \in Ends, NEW c \in Closers,
         (c = "app" /\ CallClose(a)) \/ CloseStep(a, c)
  PROVE  StreamInv'
<1> USE DEF StreamInv
<1>1. Packets' = Packets /\ \A n \in Sends : AckOf(n)' = AckOf(n)
  BY Kept DEF CloseStep, CallClose, SetClosed, SendClose, FinishClose, sendVars
<1>2. CASE c = "app" /\ CallClose(a)
  <2> USE <1>2 DEF CallClose, sendVars, endVars, recvVars, netVars
  <2>1. TypeOK'
    BY <1>1 DEF TypeOK
  <2>2. BuffersFinite' /\ HandlesOne' /\ NoPanic' /\ SentMeansReceived' /\ AcksAreTrue'
    BY <1>1 DEF BuffersFinite, HandlesOne, NoPanic, SentMeansReceived, AcksAreTrue
  <2>3. \A e \in Ends, k \in Closers : closer'[<<e, k>>] = closer[<<e, k>>]
                                       \/ closer'[<<e, k>>] = "called"
    BY DEF TypeOK
  <2>4. OneReleaser' /\ CloseWaits'
    BY <2>3 DEF OneReleaser, Owns, CloseWaits, Pending
  <2> QED BY <2>1, <2>2, <2>4
<1>3. CASE SetClosed(a, c)
  <2> USE <1>3 DEF SetClosed, sendVars, recvVars, netVars
  <2>1. TypeOK'
    BY <1>1 DEF TypeOK
  <2>2. BuffersFinite' /\ HandlesOne' /\ NoPanic' /\ SentMeansReceived' /\ AcksAreTrue'
    BY <1>1 DEF BuffersFinite, HandlesOne, NoPanic, SentMeansReceived, AcksAreTrue
  <2>3. \A e \in Ends, k \in Closers :
           closer'[<<e, k>>] = IF e = a /\ k = c
                               THEN IF a \in closed THEN "lost" ELSE "sendClose"
                               ELSE closer[<<e, k>>]
    BY DEF TypeOK
  <2>4. OneReleaser' /\ CloseWaits'
    BY <2>3 DEF OneReleaser, Owns, CloseWaits, Pending
  <2> QED BY <2>1, <2>2, <2>4
<1>4. CASE SendClose(a, c)
  <2> USE <1>4 DEF SendClose, sendVars, endVars, recvVars
  <2>1. CloseTo(Peer(a)) \in Packets /\ \A n \in Sends : AckOf(n) # CloseTo(Peer(a))
    BY PeerType DEF Packets, CloseTo, AckOf
  <2>2. TypeOK'
    BY <1>1, <2>1 DEF TypeOK
  <2>3. BuffersFinite' /\ HandlesOne' /\ NoPanic' /\ SentMeansReceived'
    BY DEF BuffersFinite, HandlesOne, NoPanic, SentMeansReceived
  <2>4. AcksAreTrue'
    BY <1>1, <2>1 DEF AcksAreTrue
  <2>5. \A e \in Ends, k \in Closers :
           closer'[<<e, k>>] = IF e = a /\ k = c THEN "wait" ELSE closer[<<e, k>>]
    BY DEF TypeOK
  <2>6. OneReleaser' /\ CloseWaits'
    BY <2>5 DEF OneReleaser, Owns, CloseWaits, Pending
  <2> QED BY <2>2, <2>3, <2>4, <2>6
<1>5. CASE FinishClose(a, c)
  <2> USE <1>5 DEF FinishClose, Release, sendVars, recvVars, netVars
  <2>1. TypeOK'
    BY <1>1 DEF TypeOK
  <2>2. a \in closed /\ a \notin recvClosed /\ Owns(a, c)
    BY DEF OneReleaser, Owns
  <2>3. BuffersFinite' /\ HandlesOne' /\ NoPanic' /\ SentMeansReceived' /\ AcksAreTrue'
    <3>1. BuffersFinite' /\ HandlesOne' /\ SentMeansReceived'
      BY DEF BuffersFinite, HandlesOne, SentMeansReceived
    <3>2. NoPanic'
      BY <2>2 DEF NoPanic
    <3>3. AcksAreTrue'
      BY <1>1, <2>2 DEF AcksAreTrue
    <3> QED BY <3>1, <3>2, <3>3
  <2>4. \A e \in Ends, k \in Closers :
           closer'[<<e, k>>] = IF e = a /\ k = c THEN "finished" ELSE closer[<<e, k>>]
    BY DEF TypeOK
  <2>5. handling[a] = {}
    BY DEF Pending
  <2>6. OneReleaser'
    BY <2>2, <2>4, <2>5 DEF OneReleaser, Owns, HandlesOne
  <2>7. CloseWaits'
    BY <2>4 DEF CloseWaits, Pending
  <2> QED BY <2>1, <2>3, <2>6, <2>7
<1> QED
  BY <1>2, <1>3, <1>4, <1>5 DEF CloseStep

(* The end of the caller's context or of the client, and what runClientStream  *)
(* does about it.                                                              *)
LEMMA LoopInv ==
  ASSUME StreamInv, BreakFuse \/ Cancel \/ LoopCloses \/ LoopReturns
  PROVE  StreamInv'
<1> USE DEF StreamInv
<1>1. Packets' = Packets /\ \A n \in Sends : AckOf(n)' = AckOf(n)
  BY Kept DEF BreakFuse, Cancel, LoopCloses, LoopReturns, sendVars
<1>2. CASE BreakFuse
  <2> USE <1>2 DEF BreakFuse, sendVars, endVars, recvVars, netVars
  <2>1. TypeOK' /\ AcksAreTrue'
    BY <1>1 DEF TypeOK, AcksAreTrue
  <2> QED
    BY <2>1 DEF BuffersFinite, HandlesOne, OneReleaser, Owns, NoPanic, SentMeansReceived,
                CloseWaits, Pending
<1>3. CASE Cancel
  <2> USE <1>3 DEF Cancel, sendVars, recvVars, netVars, closeVars
  <2>1. TypeOK' /\ AcksAreTrue'
    BY <1>1 DEF TypeOK, AcksAreTrue, Ends
  <2> QED
    BY <2>1 DEF BuffersFinite, HandlesOne, OneReleaser, Owns, NoPanic, SentMeansReceived,
                CloseWaits, Pending
<1>4. CASE LoopCloses
  <2> USE <1>4 DEF LoopCloses, sendVars, endVars, netVars
  <2>1. "client" \in Ends /\ <<"client", "loop">> \in Ends \X Closers
    BY DEF Ends, Closers
  <2>2. TypeOK'
    BY <1>1, <2>1 DEF TypeOK
  <2>3. BuffersFinite' /\ HandlesOne' /\ NoPanic' /\ SentMeansReceived' /\ AcksAreTrue'
    BY <1>1, <2>1 DEF BuffersFinite, HandlesOne, NoPanic, SentMeansReceived, AcksAreTrue, TypeOK
  <2>4. \A e \in Ends, k \in Closers : closer'[<<e, k>>] = closer[<<e, k>>]
                                       \/ closer'[<<e, k>>] = "called"
    BY DEF TypeOK
  <2>5. OneReleaser' /\ CloseWaits'
    BY <2>1, <2>4 DEF OneReleaser, Owns, CloseWaits, Pending, TypeOK
  <2> QED BY <2>2, <2>3, <2>5
<1>5. CASE LoopReturns
  <2> USE <1>5 DEF LoopReturns, sendVars, endVars, netVars, closeVars
  <2>1. "client" \in Ends
    BY DEF Ends
  <2>2. TypeOK'
    BY <1>1, <2>1 DEF TypeOK
  <2>3. BuffersFinite' /\ HandlesOne' /\ NoPanic' /\ SentMeansReceived' /\ AcksAreTrue'
    BY <1>1, <2>1 DEF BuffersFinite, HandlesOne, NoPanic, SentMeansReceived, AcksAreTrue, TypeOK
  <2>4. OneReleaser' /\ CloseWaits'
    BY <2>1 DEF OneReleaser, Owns, CloseWaits, Pending, TypeOK
  <2> QED BY <2>2, <2>3, <2>4
<1> QED
  BY <1>2, <1>3, <1>4, <1>5

-----------------------------------------------------------------------------
(* Every step of a stream keeps the invariant.                                 *)
LEMMA StepInv == StreamInv /\ [Next]_vars => StreamInv'
<1> SUFFICES ASSUME StreamInv, [Next]_vars PROVE StreamInv'
  OBVIOUS
<1>1. CASE UNCHANGED vars
  <2> USE <1>1 DEF vars, sendVars, endVars, recvVars, netVars, closeVars
  <2>1. Packets' = Packets /\ \A n \in Sends : AckOf(n)' = AckOf(n)
    BY Kept
  <2>2. TypeOK' /\ AcksAreTrue'
    BY <2>1 DEF StreamInv, TypeOK, AcksAreTrue
  <2> QED
    BY <2>2 DEF StreamInv, BuffersFinite, HandlesOne, OneReleaser, Owns, NoPanic,
                SentMeansReceived, CloseWaits, Pending
<1>2. ASSUME NEW m \in Sends, BeginSend(m) \/ SendStep(m) \/ HandleAck(m) \/ HandleMessage(m)
      PROVE  StreamInv'
  BY <1>2, SendInv, HandleAckInv, HandleMessageInv
<1>3. ASSUME NEW p \in Packets, Route(p) PROVE StreamInv'
  BY <1>3, RouteInv
<1>4. ASSUME NEW e \in Ends, HandleStep(e) \/ HandleClose(e) \/ Read(e) \/ CallClose(e)
      PROVE  StreamInv'
  <2>1. "app" \in Closers
    BY DEF Closers
  <2> QED
    BY <1>4, <2>1, HandleStepInv, HandleCloseInv, ReadInv, CloseInv
<1>5. ASSUME NEW e \in Ends, NEW k \in Closers, CloseStep(e, k) PROVE StreamInv'
  BY <1>5, CloseInv
<1> QED
  BY <1>1, <1>2, <1>3, <1>4, <1>5, LoopInv DEF Next

(* The invariant holds of every reachable state.                               *)
THEOREM StreamInvariance == Spec => []StreamInv
  BY InitInv, StepInv, PTL DEF Spec

(* Type correctness, with no receive channel over its capacity: Recv tests for *)
(* room and sends in one step (stream.go, Recv).                               *)
THEOREM TypeCorrect == Spec => []TypeOK
<1>1. StreamInv => TypeOK
  BY DEF StreamInv
<1> QED
  BY <1>1, StreamInvariance, PTL

(* However the local closers, a remote close and a receipt in progress meet,   *)
(* the receive channel is closed once and not sent to after that (stream.go,   *)
(* Close, HandleStream and setClosed).                                         *)
THEOREM NeverPanics == Spec => []NoPanic
<1>1. StreamInv => NoPanic
  BY DEF StreamInv
<1> QED
  BY <1>1, StreamInvariance, PTL

(* A Send that returns nil was received by the peer, unless the caller's own   *)
(* context had ended (stream.go, Send and Ack).                                *)
THEOREM SendIsReceived == Spec => []SentMeansReceived
<1>1. StreamInv => SentMeansReceived
  BY DEF StreamInv
<1> QED
  BY <1>1, StreamInvariance, PTL

(* A Close that closed the stream returns only when nothing is pending at that *)
(* end, and nothing begins afterwards (stream.go, Close and addPending).       *)
THEOREM CloseHasWaited == Spec => []CloseWaits
<1>1. StreamInv => CloseWaits
  BY DEF StreamInv
<1> QED
  BY <1>1, StreamInvariance, PTL

-----------------------------------------------------------------------------
(* A closed end is released or about to be: by a closer that owns it, or by    *)
(* the goroutine that handles the peer's close. A released end is out of the   *)
(* map with its context done, and the loop calls Close when it closes.         *)
EndsGo ==
    /\ \A e \in closed : e \in recvClosed \/ loop[e] = "remoteClose" \/ \E k \in Closers : Owns(e, k)
    /\ \A e \in recvClosed : e \in ctxDone /\ e \notin mapped
    /\ loop["client"] = "closing" => closer[<<"client", "loop">>] # "idle"
    /\ loop["client"] \notin {"closing", "exited"} => closer[<<"client", "loop">>] = "idle"

(* Every step keeps a closed end on its way.                                   *)
LEMMA StepGo == StreamInv /\ EndsGo /\ [Next]_vars => EndsGo'
<1> SUFFICES ASSUME StreamInv, EndsGo, [Next]_vars PROVE EndsGo'
  OBVIOUS
<1> USE DEF EndsGo, Owns
<1>0. /\ loop \in [Ends -> {"select", "recv", "ack", "remoteClose", "closing", "exited"}]
      /\ closer \in [Ends \X Closers -> {"idle", "called", "sendClose", "wait", "finished", "lost"}]
      /\ closed \subseteq Ends
  BY DEF StreamInv, TypeOK
<1>1. ASSUME UNCHANGED <<closed, ctxDone, mapped, recvClosed, loop, closer>> PROVE EndsGo'
  BY <1>1
<1>2. ASSUME NEW m \in Sends, BeginSend(m) \/ SendStep(m) \/ HandleAck(m) PROVE EndsGo'
  BY <1>1, <1>2 DEF BeginSend, SendStep, PublishMessage, PublishFails, SendAcked, SendTimesOut,
                    SendInterrupted, Leave, HandleAck, endVars, recvVars, closeVars
<1>3. ASSUME NEW e \in Ends, NEW x \in {"select", "recv", "ack"}, loop[e] \in {"select", "recv", "ack"},
             loop' = [loop EXCEPT ![e] = x], UNCHANGED <<closed, ctxDone, mapped, recvClosed, closer>>
      PROVE  EndsGo'
  BY <1>0, <1>3
<1>4. ASSUME NEW m \in Sends, HandleMessage(m) PROVE EndsGo'
  <2>1. PICK e \in Ends : e = Peer(sender[m])
    BY PeerType DEF StreamInv, TypeOK
  <2>2. loop[e] = "select" /\ UNCHANGED <<closed, ctxDone, mapped, recvClosed, closer>>
    BY <1>4, <2>1 DEF HandleMessage, Takes, Message, endVars, closeVars
  <2>3. loop' = [loop EXCEPT ![e] = "recv"] \/ loop' = loop
    BY <1>0, <1>4, <2>1 DEF HandleMessage
  <2> QED
    BY <1>1, <1>3, <2>2, <2>3
<1>5. ASSUME NEW p \in Packets, Route(p) PROVE EndsGo'
  BY <1>1, <1>5 DEF Route, endVars, recvVars, closeVars
<1>6. ASSUME NEW e \in Ends, Recv(e) \/ SlowConsumer(e) \/ Ack(e) PROVE EndsGo'
  <2>1. loop[e] \in {"recv", "ack"} /\ UNCHANGED <<closed, ctxDone, mapped, recvClosed, closer>>
    BY <1>6 DEF Recv, SlowConsumer, Ack, endVars, closeVars
  <2>2. \E x \in {"select", "ack"} : loop' = [loop EXCEPT ![e] = x]
    BY <1>6 DEF Recv, SlowConsumer, Ack, Handled
  <2> QED
    BY <1>3, <2>1, <2>2
<1>7. ASSUME NEW e \in Ends, Malformed(e) PROVE EndsGo'
  <2>1. /\ loop[e] = "recv" /\ loop' = [loop EXCEPT ![e] = "select"]
        /\ closer' = [closer EXCEPT ![<<e, "malformed">>] = IF @ = "idle" THEN "called" ELSE @]
        /\ UNCHANGED <<closed, ctxDone, mapped, recvClosed>>
    BY <1>7 DEF Malformed, Handled, endVars
  <2>2. \A d \in Ends, k \in Closers : Owns(d, k) => Owns(d, k)'
    BY <1>0, <2>1
  <2>3. closer'[<<"client", "loop">>] = closer[<<"client", "loop">>]
    BY <1>0, <2>1 DEF Ends, Closers
  <2>4. \A d \in closed : loop[d] = "remoteClose" => loop'[d] = "remoteClose"
    BY <1>0, <2>1
  <2>5. \A d \in closed' : d \in recvClosed' \/ loop'[d] = "remoteClose" \/ \E k \in Closers : Owns(d, k)'
    <3> HIDE DEF Owns
    <3> QED
      BY <1>0, <2>1, <2>2, <2>4
  <2>6. "client" \in Ends
    BY DEF Ends
  <2> QED
    BY <1>0, <2>1, <2>3, <2>5, <2>6
<1>8. ASSUME NEW e \in Ends, FinishRemoteClose(e) PROVE EndsGo'
  BY <1>0, <1>8 DEF FinishRemoteClose, Release, closeVars
<1>9. ASSUME NEW e \in Ends, HandleClose(e) PROVE EndsGo'
  <2>1. /\ loop[e] = "select" /\ closed' = closed \cup {e}
        /\ loop' = [loop EXCEPT ![e] = IF e \in closed THEN @ ELSE "remoteClose"]
        /\ UNCHANGED <<ctxDone, mapped, recvClosed, closer>>
    BY <1>9 DEF HandleClose, Takes, CloseTo, closeVars
  <2> QED
    BY <1>0, <2>1
<1>10. ASSUME NEW e \in Ends, Read(e) PROVE EndsGo'
  BY <1>1, <1>10 DEF Read, endVars, closeVars
<1>11. ASSUME NEW e \in Ends, CallClose(e) PROVE EndsGo'
  BY <1>0, <1>11 DEF CallClose, Closers, Ends, endVars, recvVars
<1>12. ASSUME NEW e \in Ends, NEW k \in Closers, CloseStep(e, k) PROVE EndsGo'
  <2>0. UNCHANGED loop /\ <<e, k>> \in Ends \X Closers
    BY <1>12 DEF CloseStep, SetClosed, SendClose, FinishClose, recvVars
  <2>1. CASE SetClosed(e, k)
    <3>1. /\ closer[<<e, k>>] = "called" /\ closed' = closed \cup {e}
          /\ closer' = [closer EXCEPT ![<<e, k>>] = IF e \in closed THEN "lost" ELSE "sendClose"]
          /\ UNCHANGED <<ctxDone, mapped, recvClosed>>
      BY <2>1 DEF SetClosed
    <3>2. \A d \in Ends, l \in Closers : Owns(d, l) => Owns(d, l)'
      BY <1>0, <3>1
    <3>3. e \in closed \/ Owns(e, k)'
      BY <1>0, <2>0, <3>1
    <3>4. closer'[<<"client", "loop">>] = "idle" <=> closer[<<"client", "loop">>] = "idle"
      BY <1>0, <2>0, <3>1
    <3> HIDE DEF Owns
    <3> QED
      BY <1>0, <2>0, <3>1, <3>2, <3>3, <3>4
  <2>2. CASE SendClose(e, k)
    <3>1. closer' = [closer EXCEPT ![<<e, k>>] = "wait"] /\ UNCHANGED <<closed, ctxDone, mapped, recvClosed>>
      BY <2>2 DEF SendClose, endVars
    <3>2. \A d \in Ends, l \in Closers : Owns(d, l) => Owns(d, l)'
      BY <1>0, <3>1
    <3>3. closer'[<<"client", "loop">>] = "idle" <=> closer[<<"client", "loop">>] = "idle"
      BY <1>0, <2>0, <2>2, <3>1 DEF SendClose
    <3> HIDE DEF Owns
    <3> QED
      BY <1>0, <2>0, <3>1, <3>2, <3>3
  <2>3. CASE FinishClose(e, k)
    <3>1. /\ closer' = [closer EXCEPT ![<<e, k>>] = "finished"] /\ UNCHANGED closed
          /\ recvClosed' = recvClosed \cup {e} /\ ctxDone' = ctxDone \cup {e} /\ mapped' = mapped \ {e}
      BY <2>3 DEF FinishClose, Release
    <3>2. \A d \in Ends, l \in Closers : d # e /\ Owns(d, l) => Owns(d, l)'
      BY <1>0, <3>1
    <3>3. closer'[<<"client", "loop">>] = "idle" <=> closer[<<"client", "loop">>] = "idle"
      BY <1>0, <2>0, <2>3, <3>1 DEF FinishClose
    <3> HIDE DEF Owns
    <3> QED
      BY <1>0, <2>0, <3>1, <3>2, <3>3
  <2> QED
    BY <1>12, <2>1, <2>2, <2>3 DEF CloseStep
<1>13. CASE BreakFuse \/ Cancel \/ UNCHANGED vars
  BY <1>13 DEF BreakFuse, Cancel, vars, endVars, recvVars, closeVars
<1>14. CASE LoopCloses
  <2>1. /\ loop["client"] = "select" /\ loop' = [loop EXCEPT !["client"] = "closing"]
        /\ closer' = [closer EXCEPT ![<<"client", "loop">>] = "called"]
        /\ UNCHANGED <<closed, ctxDone, mapped, recvClosed>>
    BY <1>14 DEF LoopCloses, endVars
  <2>2. <<"client", "loop">> \in Ends \X Closers
    BY DEF Ends, Closers
  <2>3. ~Owns("client", "loop")
    BY <2>1
  <2> QED
    BY <1>0, <2>1, <2>2, <2>3
<1>15. CASE LoopReturns
  BY <1>0, <1>15 DEF LoopReturns, Ends, endVars, closeVars
<1> QED
  BY <1>2, <1>4, <1>5, <1>6, <1>7, <1>8, <1>9, <1>10, <1>11, <1>12, <1>13, <1>14, <1>15
  DEF Next, HandleStep

(* What is left when no fair step can be taken.                                *)
LEMMA NothingLeft ==
  ASSUME StreamInv, EndsGo, ~CanGoOn
  PROVE  Settled
<1>1. \A m \in Sends : send[m] \notin {"begun", "waiting"}
  BY DEF CanGoOn
<1>2. \A e \in Ends : Pending(e) = {}
  BY <1>1 DEF CanGoOn, Pending, StreamInv, HandlesOne
<1>3. ASSUME NEW e \in Ends, NEW k \in Closers
      PROVE  closer[<<e, k>>] \in {"idle", "finished", "lost"}
  BY <1>2 DEF CanGoOn, StreamInv, TypeOK
<1>4. ASSUME NEW e \in closed PROVE e \in recvClosed /\ e \in ctxDone /\ e \notin mapped
  <2>1. e \in Ends
    BY DEF StreamInv, TypeOK
  <2> QED
    BY <1>3, <2>1 DEF EndsGo, Owns, CanGoOn
<1>5. ASSUME fuse \/ "client" \in closed \cup ctxDone PROVE loop["client"] = "exited"
  <2>1. "client" \in Ends /\ "loop" \in Closers
    BY DEF Ends, Closers
  <2>2. loop["client"] \in {"select", "closing", "exited"}
    BY <2>1 DEF CanGoOn, StreamInv, TypeOK
  <2>3. loop["client"] # "select"
    BY <1>4, <1>5 DEF CanGoOn
  <2>4. loop["client"] # "closing"
    BY <1>3, <2>1 DEF CanGoOn, EndsGo
  <2> QED
    BY <2>2, <2>3, <2>4
<1> QED
  BY <1>1, <1>3, <1>4, <1>5 DEF Settled

(* A stream can go on by itself until every Send and every Close has returned, *)
(* every closed end is released and the goroutine of a client stream that is   *)
(* over has returned (Send, HandleStream, Close and runClientStream).          *)
(* That a step whose guard holds can be taken, the other half of NothingStuck, *)
(* is left to TLC.                                                             *)
THEOREM GoesOnOrSettled == Spec => [](CanGoOn \/ Settled)
<1>1. Init => EndsGo
  BY DEF Init, EndsGo, Ends, Closers
<1>2. StreamInv /\ EndsGo => CanGoOn \/ Settled
  BY NothingLeft
<1> QED
  BY <1>1, <1>2, StepGo, StreamInvariance, PTL DEF Spec

=============================================================================
