-------------------------------- MODULE RPCNet --------------------------------
(* What a client and the servers of one RPC share: the message bus and the     *)
(* clock. The bus is modelled from how pkg/client and pkg/server use           *)
(* bus.Publish and bus.Subscribe: a message that was published is in flight    *)
(* until its subscriber takes it, may be taken in any order or never (which    *)
(* covers loss), and is in flight once per member of Copies: {1} is a bus that *)
(* loses and reorders, {1, 2} one that also duplicates.                        *)
EXTENDS Selection

CONSTANTS Requests,     \* request ids, one per call
          Copies,       \* how often the bus may deliver a message
          Queue,        \* RequestInfo.Queue: the bus picks one server
          RequireClaim, \* RequestInfo.RequireClaim
          Inbox         \* the bus reports a request that nothing received

ASSUME NetAssumption ==
    /\ Queue \in BOOLEAN
    /\ RequireClaim \in BOOLEAN
    /\ Inbox \in BOOLEAN
    /\ Queue => RequireClaim   \* getRequireClaim of protoc-gen-psrpc

VARIABLES subscribed, \* servers subscribed to the request channel
          reqNet,     \* requests in flight, one task each
          bidNet,     \* ClaimRequests in flight to the client
          grantNet,   \* ClaimResponses in flight to servers
          resNet,     \* Responses in flight to the client
          expired     \* requests whose Expiry has passed

netVars == <<subscribed, reqNet, bidNet, grantNet, resNet, expired>>

(* A task <<s, r, c>> is the handling by server s of copy c of request r: one   *)
(* goroutine of its run loop.                                                  *)
Tasks == Servers \X Requests \X Copies

Bids == [task: Tasks, affinity: Affinities, copy: Copies]

Grants == [to: Servers, req: Requests, server: Servers, copy: Copies]

(* The response that stands in for a request nothing received has no server.   *)
Responses == [task: (Servers \cup {NoServer}) \X Requests \X Copies,
              isErr: BOOLEAN, copy: Copies]

NetTypeOK ==
    /\ subscribed \subseteq Servers
    /\ reqNet \subseteq Tasks
    /\ bidNet \subseteq Bids
    /\ grantNet \subseteq Grants
    /\ resNet \subseteq Responses
    /\ expired \subseteq Requests

NetInit ==
    /\ subscribed = Servers
    /\ reqNet = {}
    /\ bidNet = {}
    /\ grantNet = {}
    /\ resNet = {}
    /\ expired = {}

(* Subscribe delivers a request to every server, SubscribeQueue to one member  *)
(* of the group.                                                               *)
Receivers == IF Queue THEN {{s} : s \in subscribed} ELSE {subscribed}

Unanswered(r) ==
    [task : {NoServer} \X {r} \X Copies, isErr : {FALSE}, copy : Copies]

(* bus.Publish of a request, or PublishWithReply on a bus with an inbox.       *)
PublishRequestTo(r) ==
    IF subscribed = {}
    THEN /\ resNet' = resNet \cup (IF Inbox THEN Unanswered(r) ELSE {})
         /\ UNCHANGED reqNet
    ELSE /\ \E R \in Receivers : reqNet' = reqNet \cup (R \X {r} \X Copies)
         /\ UNCHANGED resNet

PublishGrant(r, server) ==
    grantNet' = grantNet \cup [to: Servers, req: {r}, server: {server}, copy: Copies]

PublishBid(t, affinity) ==
    bidNet' = bidNet \cup [task: {t}, affinity: {affinity}, copy: Copies]

PublishResponse(t, isErr) ==
    resNet' = resNet \cup [task: {t}, isErr: {isErr}, copy: Copies]

(* The clock reaches the Expiry of a request.                                  *)
Expire(r) ==
    /\ r \notin expired
    /\ expired' = expired \cup {r}
    /\ UNCHANGED <<subscribed, reqNet, bidNet, grantNet, resNet>>

=============================================================================
