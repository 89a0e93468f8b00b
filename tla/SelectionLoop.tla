---------------------------- MODULE SelectionLoop ----------------------------
(* selectServerUntil (pkg/client/rpc.go) running alone: bids and responses     *)
(* arrive in any order, its context ends when a timer that was armed fires or  *)
(* when the caller's context does, and the client may close at any time. The   *)
(* log of what the loop consumed is a history variable: it lets the properties *)
(* state, over the whole run, what the incremental loop should have computed.  *)
EXTENDS Selection

CONSTANTS OptsSet,  \* the selection options under study
          MaxClaims \* bound on the bids consumed

ASSUME LoopAssumption == OptsSet \subseteq SelectionOpts /\ MaxClaims \in Nat

VARIABLES opts,    \* the options of this call
          st,      \* the loop's local variables
          done,    \* its context is done
          outcome, \* a singleton once the function has returned
          log,     \* history: the claims consumed, in order
          errSeen  \* history: an error response was consumed

loopVars == <<opts, st, done, outcome, log, errSeen>>

LoopTypeOK ==
    /\ opts \in OptsSet
    /\ st \in SelState
    /\ done \in BOOLEAN
    /\ outcome \subseteq Outcomes
    /\ log \in Seq(Claim)
    /\ errSeen \in BOOLEAN

LoopInit ==
    /\ opts \in OptsSet
    /\ st = SelInit
    /\ done = FALSE
    /\ outcome = {}
    /\ log = <<>>
    /\ errSeen = FALSE

Running == outcome = {}

(* A bid is taken from claimChan.                                              *)
TakeClaim(claim) ==
    /\ Running
    /\ Len(log) < MaxClaims
    /\ log' = Append(log, claim)
    /\ IF AcceptsNow(claim, opts)
       THEN outcome' = {Granting(claim.server)} /\ UNCHANGED st
       ELSE st' = OnClaim(st, claim, opts) /\ UNCHANGED outcome
    /\ UNCHANGED <<opts, done, errSeen>>

(* A response is taken from resChan: one without an error ends the selection.  *)
TakeResponse(isErr) ==
    /\ Running
    /\ IF isErr
       THEN st' = OnErrorResponse(st) /\ errSeen' = TRUE /\ UNCHANGED outcome
       ELSE outcome' = {Failing("response")} /\ UNCHANGED <<st, errSeen>>
    /\ UNCHANGED <<opts, done, log>>

(* AffinityTimeout, ShortCircuitTimeout once it has been armed by an eligible  *)
(* claim, or the end of the caller's own context.                              *)
ContextEnds ==
    /\ Running
    /\ ~done
    /\ done' = TRUE
    /\ UNCHANGED <<opts, st, outcome, log, errSeen>>

TakeDone ==
    /\ Running
    /\ done
    /\ \E o \in OnDone(st, opts) : outcome' = {o}
    /\ UNCHANGED <<opts, st, done, log, errSeen>>

TakeClosed ==
    /\ Running
    /\ outcome' = {Failing("closed")}
    /\ UNCHANGED <<opts, st, done, log, errSeen>>

LoopNext ==
    \/ \E claim \in Claim : TakeClaim(claim)
    \/ \E isErr \in BOOLEAN : TakeResponse(isErr)
    \/ ContextEnds
    \/ TakeDone
    \/ TakeClosed

LoopSpec == LoopInit /\ [][LoopNext]_loopVars

-----------------------------------------------------------------------------
(* Reference definitions, over the whole log.                                  *)
Eligible(i) == MeetsMinimum(log[i], opts)

(* The earliest of the eligible bids with the highest score.                   *)
IsBest(i) ==
    /\ i \in DOMAIN log
    /\ Eligible(i)
    /\ log[i].affinity > 0
    /\ \A j \in DOMAIN log : Eligible(j) =>
          /\ log[j].affinity <= log[i].affinity
          /\ log[j].affinity = log[i].affinity => i <= j

NoneAcceptable == \A i \in DOMAIN log : ~AcceptsNow(log[i], opts)

(* Whatever the options, a server is granted only on a bid it made that meets  *)
(* MinimumAffinity. Without a SelectionFunc the one granted when the context   *)
(* ends is the earliest of the highest eligible bids, and a call that ends     *)
(* without one had no eligible bid above zero: the running maximum the loop    *)
(* keeps loses no bid and breaks ties by arrival.                              *)
GrantsTheBest ==
    \A o \in outcome :
        /\ o.kind = "grant" =>
              \E i \in DOMAIN log : log[i].server = o.server /\ Eligible(i)
        /\ (o.kind = "grant" /\ ~opts.selectionFunc /\ NoneAcceptable) =>
              \E i \in DOMAIN log : IsBest(i) /\ log[i].server = o.server
        /\ (o.kind \in {"noServers", "noResponse", "responseError"}) =>
              \A i \in DOMAIN log : ~IsBest(i)

(* The held-back error is reported only when no bid outbid it, and never lost: *)
(* a call that ends with no server to grant after an error response reports    *)
(* that response and not the absence of servers.                               *)
HeldErrorIsReported ==
    \A o \in outcome :
        /\ o.kind = "responseError" => errSeen
        /\ o.kind \in {"noServers", "noResponse"} => ~errSeen
        /\ o.kind = "noResponse" => log = <<>>

=============================================================================
