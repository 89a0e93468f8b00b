------------------------------ MODULE Selection ------------------------------
(* The decision rule of selectServerUntil (pkg/client/rpc.go): what one        *)
(* iteration of its select loop does to the local variables of the function.   *)
(* The loop itself is a set of actions of the modules that use this one:       *)
(* SelectionLoop, where it runs alone against every sequence of bids, and      *)
(* RPCClient, where it is one phase of a call.                                 *)
(*                                                                             *)
(* Affinities are integers: the code only compares float32 scores with each    *)
(* other, with the thresholds of SelectionOpts and with zero.                  *)
EXTENDS Integers, Sequences

CONSTANTS Servers,    \* server ids
          Affinities, \* scores that affinity functions return
          NoServer    \* the empty server id

ASSUME SelectionAssumption == Affinities \subseteq Int /\ NoServer \notin Servers

(* psrpc.SelectionOpts. A timeout is present or absent (zero); when it fires   *)
(* is up to the clock.                                                         *)
SelectionOpts ==
    [min: Int, max: Int, acceptFirst: BOOLEAN, selectionFunc: BOOLEAN,
     affinityTimeout: BOOLEAN, shortCircuit: BOOLEAN]

Claim == [server: Servers, affinity: Affinities]

(* The local variables of selectServerUntil. resErr is TRUE once an error      *)
(* response has been held back.                                                *)
SelState ==
    [shorted: BOOLEAN, serverID: Servers \cup {NoServer}, affinity: Int,
     claims: Seq(Claim), claimCount: Nat, resErr: BOOLEAN]

SelInit ==
    [shorted |-> FALSE, serverID |-> NoServer, affinity |-> 0,
     claims |-> <<>>, claimCount |-> 0, resErr |-> FALSE]

(* MinimumAffinity filters only when it is positive.                           *)
MeetsMinimum(claim, opts) == opts.min > 0 => claim.affinity >= opts.min

(* A claim that ends the selection at once.                                    *)
AcceptsNow(claim, opts) ==
    /\ MeetsMinimum(claim, opts)
    /\ opts.acceptFirst \/ (opts.max > 0 /\ claim.affinity >= opts.max)

(* The claim branch for a claim that does not end the selection.               *)
MutOnClaim(st, claim, opts) ==
    LET counted == [st EXCEPT !.claimCount = @ + 1]
    IN  IF ~MeetsMinimum(claim, opts)
        THEN counted
        ELSE [counted EXCEPT
               !.serverID = IF claim.affinity >= st.affinity THEN claim.server ELSE @,
               !.affinity = IF claim.affinity >= st.affinity THEN claim.affinity ELSE @]

OnClaim(st, claim, opts) ==
    LET counted == [st EXCEPT !.claimCount = @ + 1]
        better  == ~opts.selectionFunc /\ claim.affinity > st.affinity
    IN  IF ~MeetsMinimum(claim, opts)
        THEN counted
        ELSE [counted EXCEPT
               !.claims   = IF opts.selectionFunc THEN Append(@, claim) ELSE @,
               !.serverID = IF better THEN claim.server ELSE @,
               !.affinity = IF better THEN claim.affinity ELSE @,
               !.shorted  = @ \/ opts.shortCircuit]

(* The response branch for an error response: "An early error may yet be       *)
(* outbid, so it is held back."                                                *)
MutOnErrorResponse(st) == st

OnErrorResponse(st) == [st EXCEPT !.resErr = TRUE]

(* The ctx.Done branch: the ways the selection may end once its context is     *)
(* done, each a kind and the server to grant. SelectionFunc is the caller's    *)
(* own: it may pick any claim it was given or refuse them all.                 *)
Granting(s) == [kind |-> "grant", server |-> s]

Failing(kind) == [kind |-> kind, server |-> NoServer]

OnDone(st, opts) ==
    IF opts.selectionFunc
    THEN {Failing("selectionError")} \cup
         {Granting(st.claims[i].server) : i \in DOMAIN st.claims}
    ELSE { IF st.serverID # NoServer THEN Granting(st.serverID)
           ELSE IF st.resErr THEN Failing("responseError")
           ELSE IF st.claimCount > 0 THEN Failing("noServers")
           ELSE Failing("noResponse") }

Outcomes ==
    {Granting(s) : s \in Servers} \cup
    {Failing(k) : k \in {"selectionError", "responseError", "noServers",
                         "noResponse", "closed", "response"}}

=============================================================================
