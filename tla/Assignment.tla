----------------------------- MODULE Assignment -----------------------------
(* What an RPC that needs a claim promises, with no bus, bids or clocks: each  *)
(* request is assigned to a server at most once and for good, only that server *)
(* runs it, and a caller that is given a success is given the one of a server  *)
(* that has run it.                                                            *)
CONSTANTS Servers, Requests, NoServer

VARIABLES owner,   \* the server each request is assigned to
          started, \* the servers that have run the handler, with the request
          answer   \* the server whose success each caller was given

vars == <<owner, started, answer>>

Init ==
    /\ owner = [r \in Requests |-> NoServer]
    /\ started = {}
    /\ answer = [r \in Requests |-> NoServer]

Assign(r, s) ==
    /\ owner[r] = NoServer
    /\ owner' = [owner EXCEPT ![r] = s]
    /\ UNCHANGED <<started, answer>>

Start(r, s) ==
    /\ owner[r] = s
    /\ started' = started \cup {<<s, r>>}
    /\ UNCHANGED <<owner, answer>>

Answer(r, s) ==
    /\ answer[r] = NoServer
    /\ <<s, r>> \in started
    /\ answer' = [answer EXCEPT ![r] = s]
    /\ UNCHANGED <<owner, started>>

Next == \E r \in Requests, s \in Servers : Assign(r, s) \/ Start(r, s) \/ Answer(r, s)

Spec == Init /\ [][Next]_vars

=============================================================================
