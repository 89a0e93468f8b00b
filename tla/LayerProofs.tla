----------------------------- MODULE LayerProofs -----------------------------
(* Proofs about three layers around the request protocol, which share nothing: *)
(* the selection loop (what selectServerUntil keeps, one claim at a time, is   *)
(* the best of the claims it has consumed), the local transport (no send to a  *)
(* closed channel, and a publication gets to those it is for), and the layers  *)
(* of a call (the server's chain, the error's way back, the payload, and the   *)
(* two nested retries). Each holds for every value of its module's constants.  *)
EXTENDS SelectionLoop, LocalBus, CallStack, FiniteSetTheorems, TLAPS

-----------------------------------------------------------------------------
(* The selection loop (SelectionLoop).                                     *)

(* What is kept when no SelectionFunc is given: the earliest of the highest    *)
(* eligible bids, or nothing and a score of zero when none is above zero.      *)
KeptIsBest ==
    ~opts.selectionFunc =>
        \/ /\ st.serverID = NoServer
           /\ st.affinity = 0
           /\ \A i \in DOMAIN log : Eligible(i) => log[i].affinity <= 0
        \/ \E i \in DOMAIN log :
              /\ IsBest(i)
              /\ st.serverID = log[i].server
              /\ st.affinity = log[i].affinity

(* What a SelectionFunc will be given: eligible bids only.                     *)
KeptAreEligible ==
    \A k \in DOMAIN st.claims :
        \E i \in DOMAIN log : log[i] = st.claims[k] /\ Eligible(i)

(* The loop's local variables against the history, while it runs.              *)
Kept ==
    /\ KeptIsBest
    /\ KeptAreEligible
    /\ st.claimCount = Len(log)
    /\ st.resErr = errSeen

LoopInv ==
    /\ LoopTypeOK
    /\ Running => Kept
    /\ GrantsTheBest
    /\ HeldErrorIsReported

-----------------------------------------------------------------------------
(* Initially nothing is kept and nothing was seen.                           *)
LEMMA InitInv ==
  ASSUME LoopInit
  PROVE  LoopInv
<1>1. LoopTypeOK
  <2>1. SelInit \in SelState
    <3>1. <<>> \in Seq(Claim)
      OBVIOUS
    <3> QED
      BY <3>1 DEF SelInit, SelState
  <2>2. log \in Seq(Claim)
    BY DEF LoopInit
  <2> QED
    BY <2>1, <2>2 DEF LoopInit, LoopTypeOK
<1>2. Kept
  <2>1. DOMAIN log = {} /\ Len(log) = 0
    BY DEF LoopInit
  <2>2. st.serverID = NoServer /\ st.affinity = 0 /\ st.claims = <<>> /\ st.claimCount = 0
        /\ st.resErr = FALSE /\ errSeen = FALSE
    BY DEF LoopInit, SelInit
  <2>3. DOMAIN st.claims = {}
    BY <2>2
  <2> QED
    BY <2>1, <2>2, <2>3 DEF Kept, KeptIsBest, KeptAreEligible
<1>3. GrantsTheBest /\ HeldErrorIsReported
  BY DEF LoopInit, GrantsTheBest, HeldErrorIsReported
<1> QED
  BY <1>1, <1>2, <1>3 DEF LoopInv

(* A bid appended to the log leaves the earlier ones where they were.          *)
LEMMA Appended ==
  ASSUME LoopTypeOK, NEW claim \in Claim, log' = Append(log, claim), UNCHANGED opts,
         NEW n \in Nat, n = Len(log) + 1
  PROVE  /\ log' \in Seq(Claim)
         /\ Len(log') = n
         /\ DOMAIN log = 1..(n - 1)
         /\ DOMAIN log' = 1..n
         /\ \A i \in DOMAIN log : i \in DOMAIN log' /\ log'[i] = log[i]
         /\ \A i \in DOMAIN log : log[i] \in Claim /\ log[i].affinity \in Int
         /\ log'[n] = claim
         /\ claim.affinity \in Int
         /\ Eligible(n)' <=> MeetsMinimum(claim, opts)
         /\ \A i \in DOMAIN log : Eligible(i)' <=> Eligible(i)
<1>1. \A e \in Claim : e.affinity \in Int
  BY SelectionAssumption DEF Claim
<1>2. /\ log' \in Seq(Claim)
      /\ Len(log') = n
      /\ DOMAIN log = 1..(n - 1)
      /\ DOMAIN log' = 1..n
      /\ \A i \in DOMAIN log : i \in DOMAIN log' /\ log'[i] = log[i]
      /\ log'[n] = claim
  BY DEF LoopTypeOK
<1>3. \A i \in DOMAIN log : log[i] \in Claim
  BY DEF LoopTypeOK
<1> QED
  BY <1>1, <1>2, <1>3 DEF Eligible, MeetsMinimum

(* What the claim branch leaves in the local variables.                        *)
LEMMA OnClaimFields ==
  ASSUME LoopTypeOK, NEW claim \in Claim
  PROVE  LET new == OnClaim(st, claim, opts)
             meets == MeetsMinimum(claim, opts)
             better == meets /\ ~opts.selectionFunc /\ claim.affinity > st.affinity
         IN  /\ new \in SelState
             /\ new.claimCount = st.claimCount + 1
             /\ new.resErr = st.resErr
             /\ new.serverID = IF better THEN claim.server ELSE st.serverID
             /\ new.affinity = IF better THEN claim.affinity ELSE st.affinity
             /\ new.claims = IF meets /\ opts.selectionFunc
                             THEN Append(st.claims, claim) ELSE st.claims
<1>1. claim.affinity \in Int /\ claim.server \in Servers /\ opts \in SelectionOpts
  BY SelectionAssumption, LoopAssumption DEF Claim, LoopTypeOK
<1>2. st \in SelState
  BY DEF LoopTypeOK
<1>3. CASE ~MeetsMinimum(claim, opts)
  BY <1>1, <1>2, <1>3 DEF OnClaim, SelState
<1>4. CASE MeetsMinimum(claim, opts)
  <2> DEFINE better == ~opts.selectionFunc /\ claim.affinity > st.affinity
             eligible == IF opts.selectionFunc THEN Append(st.claims, claim) ELSE st.claims
             short == st.shorted \/ opts.shortCircuit
  <2>1. eligible \in Seq(Claim) /\ short \in BOOLEAN
    BY <1>1, <1>2 DEF SelState, SelectionOpts
  <2>2. OnClaim(st, claim, opts) =
          [shorted |-> short,
           serverID |-> IF better THEN claim.server ELSE st.serverID,
           affinity |-> IF better THEN claim.affinity ELSE st.affinity,
           claims |-> eligible, claimCount |-> st.claimCount + 1, resErr |-> st.resErr]
    <3> DEFINE counted == [st EXCEPT !.claimCount = @ + 1]
    <3>1. counted = [shorted |-> st.shorted, serverID |-> st.serverID,
                     affinity |-> st.affinity, claims |-> st.claims,
                     claimCount |-> st.claimCount + 1, resErr |-> st.resErr]
      BY <1>2 DEF SelState
    <3>2. OnClaim(st, claim, opts) =
            [counted EXCEPT
               !.claims   = IF opts.selectionFunc THEN Append(@, claim) ELSE @,
               !.serverID = IF better THEN claim.server ELSE @,
               !.affinity = IF better THEN claim.affinity ELSE @,
               !.shorted  = @ \/ opts.shortCircuit]
      BY <1>4 DEF OnClaim
    <3> HIDE DEF counted, better
    <3> QED
      BY <3>1, <3>2
  <2> HIDE DEF eligible, short
  <2>3. OnClaim(st, claim, opts) \in SelState
    BY <1>1, <1>2, <2>1, <2>2 DEF SelState
  <2> QED
    BY <1>4, <2>2, <2>3 DEF eligible
<1> QED
  BY <1>3, <1>4

(* The running maximum survives a bid: one that is higher takes its place, and *)
(* one that is not, or that misses the minimum, leaves it the best.            *)
LEMMA BestSurvives ==
  ASSUME LoopTypeOK, KeptIsBest, NEW claim \in Claim, ~opts.selectionFunc,
         log' = Append(log, claim), st' = OnClaim(st, claim, opts), UNCHANGED opts
  PROVE  KeptIsBest'
<1>0. PICK n \in Nat : n = Len(log) + 1 /\ n >= 1
  BY DEF LoopTypeOK
<1>1. /\ DOMAIN log = 1..(n - 1)
      /\ DOMAIN log' = 1..n
      /\ \A i \in DOMAIN log : i \in DOMAIN log' /\ log'[i] = log[i]
      /\ \A i \in DOMAIN log : log[i] \in Claim /\ log[i].affinity \in Int
      /\ log'[n] = claim
      /\ claim.affinity \in Int
      /\ Eligible(n)' <=> MeetsMinimum(claim, opts)
      /\ \A i \in DOMAIN log : Eligible(i)' <=> Eligible(i)
  BY <1>0, Appended
<1> DEFINE better == MeetsMinimum(claim, opts) /\ claim.affinity > st.affinity
<1>2. /\ st'.serverID = IF better THEN claim.server ELSE st.serverID
      /\ st'.affinity = IF better THEN claim.affinity ELSE st.affinity
      /\ st.affinity \in Int
  BY OnClaimFields DEF LoopTypeOK, SelState
<1>3. CASE better
  <2>1. \A i \in DOMAIN log : Eligible(i) => log[i].affinity <= st.affinity
    BY <1>1, <1>2 DEF KeptIsBest, IsBest
  <2>2. st.affinity >= 0
    BY <1>1, <1>2 DEF KeptIsBest, IsBest
  <2>3. \A j \in DOMAIN log' : Eligible(j)' =>
           log'[j].affinity <= claim.affinity
           /\ (log'[j].affinity = claim.affinity => n <= j)
    BY <1>1, <1>2, <1>3, <2>1
  <2>4. IsBest(n)'
    BY <1>1, <1>2, <1>3, <2>2, <2>3 DEF IsBest
  <2> QED
    BY <1>1, <1>2, <1>3, <2>4 DEF KeptIsBest
<1>4. CASE ~better
  <2>1. CASE /\ st.serverID = NoServer
             /\ st.affinity = 0
             /\ \A i \in DOMAIN log : Eligible(i) => log[i].affinity <= 0
    <3>1. \A i \in DOMAIN log' : Eligible(i)' => log'[i].affinity <= 0
      BY <1>1, <1>2, <1>4, <2>1
    <3> QED
      BY <1>2, <1>4, <2>1, <3>1 DEF KeptIsBest
  <2>2. ASSUME NEW i \in DOMAIN log, IsBest(i),
               st.serverID = log[i].server, st.affinity = log[i].affinity
        PROVE  KeptIsBest'
    <3>1. \A j \in DOMAIN log' : Eligible(j)' =>
             log'[j].affinity <= log'[i].affinity
             /\ (log'[j].affinity = log'[i].affinity => i <= j)
      BY <1>1, <1>2, <1>4, <2>2 DEF IsBest
    <3>2. IsBest(i)'
      BY <1>1, <2>2, <3>1 DEF IsBest
    <3> QED
      BY <1>1, <1>2, <1>4, <2>2, <3>2 DEF KeptIsBest
  <2> QED
    BY <2>1, <2>2 DEF KeptIsBest
<1> QED
  BY <1>3, <1>4

-----------------------------------------------------------------------------
(* A claim: accepted at once, or kept for the end.                             *)
LEMMA TakeClaimInv ==
  ASSUME LoopInv, NEW claim \in Claim, TakeClaim(claim)
  PROVE  LoopInv'
<1> USE DEF LoopInv
<1>0. PICK n \in Nat : n = Len(log) + 1 /\ n >= 1
  BY DEF LoopTypeOK
<1>1. /\ log' = Append(log, claim)
      /\ UNCHANGED <<opts, done, errSeen>>
      /\ Running
      /\ Kept
  BY DEF TakeClaim
<1>2. /\ log' \in Seq(Claim)
      /\ Len(log') = n
      /\ DOMAIN log = 1..(n - 1)
      /\ DOMAIN log' = 1..n
      /\ \A i \in DOMAIN log : i \in DOMAIN log' /\ log'[i] = log[i]
      /\ log'[n] = claim
      /\ Eligible(n)' <=> MeetsMinimum(claim, opts)
      /\ \A i \in DOMAIN log : Eligible(i)' <=> Eligible(i)
  BY <1>0, <1>1, Appended
<1>3. CASE AcceptsNow(claim, opts)
  <2>1. outcome' = {Granting(claim.server)} /\ UNCHANGED st
    BY <1>3 DEF TakeClaim
  <2>2. LoopTypeOK'
    BY <1>1, <1>2, <2>1 DEF LoopTypeOK, Outcomes, Claim
  <2>3. Eligible(n)' /\ ~NoneAcceptable'
    BY <1>1, <1>2, <1>3 DEF AcceptsNow, NoneAcceptable
  <2>4. GrantsTheBest'
    <3>1. n \in DOMAIN log' /\ log'[n] = claim
      BY <1>0, <1>2
    <3>2. \A o \in outcome' : o.kind = "grant" /\ o.server = claim.server
      BY <2>1 DEF Granting
    <3> QED
      BY <2>3, <3>1, <3>2 DEF GrantsTheBest
  <2>5. HeldErrorIsReported'
    BY <2>1 DEF HeldErrorIsReported, Granting
  <2> QED
    BY <2>1, <2>2, <2>4, <2>5 DEF Running
<1>4. CASE ~AcceptsNow(claim, opts)
  <2>1. st' = OnClaim(st, claim, opts) /\ UNCHANGED outcome
    BY <1>4 DEF TakeClaim
  <2>2. LoopTypeOK'
    BY <1>1, <1>2, <2>1, OnClaimFields DEF LoopTypeOK
  <2>3. KeptIsBest'
    <3>1. CASE opts.selectionFunc
      BY <1>1, <3>1 DEF KeptIsBest
    <3>2. CASE ~opts.selectionFunc
      BY <1>1, <2>1, <3>2, BestSurvives DEF Kept
    <3> QED
      BY <3>1, <3>2
  <2>4. KeptAreEligible'
    <3>1. st'.claims = IF MeetsMinimum(claim, opts) /\ opts.selectionFunc
                       THEN Append(st.claims, claim) ELSE st.claims
      BY <2>1, OnClaimFields
    <3>2. st.claims \in Seq(Claim)
      BY DEF LoopTypeOK, SelState
    <3>3. \A k \in DOMAIN st.claims :
             \E i \in DOMAIN log' : log'[i] = st.claims[k] /\ Eligible(i)'
      BY <1>1, <1>2 DEF Kept, KeptAreEligible
    <3>4. CASE ~(MeetsMinimum(claim, opts) /\ opts.selectionFunc)
      BY <3>1, <3>3, <3>4 DEF KeptAreEligible
    <3>5. CASE MeetsMinimum(claim, opts) /\ opts.selectionFunc
      <4> SUFFICES ASSUME NEW k \in DOMAIN st'.claims
                   PROVE  \E i \in DOMAIN log' : log'[i] = st'.claims[k] /\ Eligible(i)'
        BY DEF KeptAreEligible
      <4>1. CASE k \in DOMAIN st.claims
        BY <3>1, <3>2, <3>3, <3>5, <4>1
      <4>2. CASE k \notin DOMAIN st.claims
        <5>1. st'.claims[k] = claim
          BY <3>1, <3>2, <3>5, <4>2
        <5>2. n \in DOMAIN log' /\ log'[n] = claim /\ Eligible(n)'
          BY <1>0, <1>2, <3>5
        <5> QED
          BY <5>1, <5>2
      <4> QED
        BY <4>1, <4>2
    <3> QED
      BY <3>4, <3>5
  <2>5. st'.claimCount = Len(log') /\ st'.resErr = errSeen'
    BY <1>0, <1>1, <1>2, <2>1, OnClaimFields DEF Kept
  <2>6. GrantsTheBest' /\ HeldErrorIsReported'
    BY <1>1, <2>1 DEF GrantsTheBest, HeldErrorIsReported, Running
  <2> QED
    BY <2>2, <2>3, <2>4, <2>5, <2>6 DEF Kept
<1> QED
  BY <1>3, <1>4

(* A response: an error is held back, anything else ends the selection.        *)
LEMMA TakeResponseInv ==
  ASSUME LoopInv, NEW isErr \in BOOLEAN, TakeResponse(isErr)
  PROVE  LoopInv'
<1> USE DEF LoopInv
<1>1. Running /\ Kept /\ UNCHANGED <<opts, done, log>>
  BY DEF TakeResponse
<1>2. CASE isErr
  <2>1. st' = OnErrorResponse(st) /\ errSeen' = TRUE /\ UNCHANGED outcome
    BY <1>2 DEF TakeResponse
  <2>2. /\ st' \in SelState
        /\ st'.resErr = TRUE
        /\ st'.claimCount = st.claimCount
        /\ st'.claims = st.claims
        /\ st'.serverID = st.serverID
        /\ st'.affinity = st.affinity
    BY <2>1 DEF OnErrorResponse, LoopTypeOK, SelState
  <2>3. LoopTypeOK'
    BY <1>1, <2>1, <2>2 DEF LoopTypeOK
  <2>4. Kept'
    <3>1. KeptIsBest'
      BY <1>1, <2>2 DEF Kept, KeptIsBest, IsBest, Eligible
    <3>2. KeptAreEligible'
      BY <1>1, <2>2 DEF Kept, KeptAreEligible, Eligible
    <3> QED
      BY <1>1, <2>1, <2>2, <3>1, <3>2 DEF Kept
  <2>5. GrantsTheBest' /\ HeldErrorIsReported'
    BY <1>1, <2>1 DEF GrantsTheBest, HeldErrorIsReported, Running
  <2> QED
    BY <2>3, <2>4, <2>5
<1>3. CASE ~isErr
  <2>1. outcome' = {Failing("response")} /\ UNCHANGED <<st, errSeen>>
    BY <1>3 DEF TakeResponse
  <2>2. LoopTypeOK'
    BY <1>1, <2>1 DEF LoopTypeOK, Outcomes
  <2>3. GrantsTheBest' /\ HeldErrorIsReported'
    BY <2>1 DEF GrantsTheBest, HeldErrorIsReported, Failing
  <2> QED
    BY <2>1, <2>2, <2>3 DEF Running
<1> QED
  BY <1>2, <1>3

(* The context is done: what was kept decides.                                 *)
LEMMA TakeDoneInv ==
  ASSUME LoopInv, TakeDone
  PROVE  LoopInv'
<1> USE DEF LoopInv
<1>1. Running /\ Kept /\ UNCHANGED <<opts, st, done, log, errSeen>>
  BY DEF TakeDone
<1>2. PICK o \in OnDone(st, opts) : outcome' = {o}
  BY DEF TakeDone
<1>3. st \in SelState /\ log \in Seq(Claim)
  BY DEF LoopTypeOK
<1>4. SUFFICES /\ o \in Outcomes
               /\ o.kind = "grant" =>
                    \E i \in DOMAIN log : log[i].server = o.server /\ Eligible(i)
               /\ (o.kind = "grant" /\ ~opts.selectionFunc) =>
                    \E i \in DOMAIN log : IsBest(i) /\ log[i].server = o.server
               /\ (o.kind \in {"noServers", "noResponse", "responseError"}) =>
                    \A i \in DOMAIN log : ~IsBest(i)
               /\ o.kind = "responseError" => errSeen
               /\ o.kind \in {"noServers", "noResponse"} => ~errSeen
               /\ o.kind = "noResponse" => log = <<>>
  <2>1. LoopTypeOK'
    BY <1>1, <1>2, <1>4 DEF LoopTypeOK
  <2>2. GrantsTheBest'
    BY <1>1, <1>2, <1>4 DEF GrantsTheBest, NoneAcceptable, Eligible, IsBest
  <2>3. HeldErrorIsReported'
    BY <1>1, <1>2, <1>4 DEF HeldErrorIsReported
  <2> QED
    BY <1>2, <2>1, <2>2, <2>3 DEF Running
<1>5. CASE opts.selectionFunc
  <2>1. CASE o = Failing("selectionError")
    BY <1>5, <2>1 DEF Failing, Outcomes
  <2>2. ASSUME NEW k \in DOMAIN st.claims, o = Granting(st.claims[k].server)
        PROVE  /\ o \in Outcomes
               /\ o.kind = "grant"
               /\ \E i \in DOMAIN log : log[i].server = o.server /\ Eligible(i)
    <3>1. st.claims[k].server \in Servers
      <4>1. st.claims \in Seq(Claim)
        BY <1>3 DEF SelState
      <4>2. st.claims[k] \in Claim
        BY <4>1
      <4> QED
        BY <4>2 DEF Claim
    <3> QED
      BY <1>1, <2>2, <3>1 DEF Granting, Outcomes, Kept, KeptAreEligible
  <2> QED
    BY <1>2, <1>5, <2>1, <2>2 DEF OnDone
<1>6. CASE ~opts.selectionFunc
  <2>1. CASE st.serverID # NoServer
    <3>1. PICK i \in DOMAIN log : IsBest(i) /\ st.serverID = log[i].server
      BY <1>1, <1>6, <2>1 DEF Kept, KeptIsBest
    <3>2. o = Granting(st.serverID)
      BY <1>2, <1>6, <2>1 DEF OnDone
    <3>3. st.serverID \in Servers
      BY <1>3, <2>1 DEF SelState
    <3> QED
      BY <3>1, <3>2, <3>3 DEF Granting, Outcomes, IsBest
  <2>2. CASE st.serverID = NoServer
    <3>1. \A i \in DOMAIN log : ~IsBest(i)
      <4>1. \A i \in DOMAIN log : log[i].server # NoServer /\ log[i].affinity \in Int
        <5>1. \A i \in DOMAIN log : log[i] \in Claim
          BY <1>3
        <5>2. \A e \in Claim : e.server # NoServer /\ e.affinity \in Int
          BY SelectionAssumption DEF Claim
        <5> QED
          BY <5>1, <5>2
      <4> QED
        BY <1>1, <1>6, <2>2, <4>1 DEF Kept, KeptIsBest, IsBest
    <3>2. o = IF st.resErr THEN Failing("responseError")
              ELSE IF st.claimCount > 0 THEN Failing("noServers")
              ELSE Failing("noResponse")
      BY <1>2, <1>6, <2>2 DEF OnDone
    <3>3. CASE st.resErr
      BY <1>1, <3>1, <3>2, <3>3 DEF Failing, Outcomes, Kept
    <3>4. CASE ~st.resErr /\ st.claimCount > 0
      BY <1>1, <3>1, <3>2, <3>4 DEF Failing, Outcomes, Kept
    <3>5. CASE ~st.resErr /\ ~(st.claimCount > 0)
      <4>1. log = <<>>
        BY <1>1, <1>3, <3>5 DEF Kept
      <4> QED
        BY <1>1, <3>1, <3>2, <3>5, <4>1 DEF Failing, Outcomes, Kept
    <3> QED
      BY <3>3, <3>4, <3>5
  <2> QED
    BY <2>1, <2>2
<1> QED
  BY <1>5, <1>6

(* Every step of the loop keeps the invariant.                               *)
LEMMA NextInv ==
  ASSUME LoopInv, [LoopNext]_loopVars
  PROVE  LoopInv'
<1>1. CASE UNCHANGED loopVars
  BY <1>1 DEF LoopInv, loopVars, LoopTypeOK, Running, Kept, KeptIsBest, KeptAreEligible, Eligible,
              IsBest, NoneAcceptable, GrantsTheBest, HeldErrorIsReported
<1>2. CASE ContextEnds
  BY <1>2 DEF ContextEnds, LoopInv, LoopTypeOK, Running, Kept, KeptIsBest, KeptAreEligible,
              Eligible, IsBest, NoneAcceptable, GrantsTheBest, HeldErrorIsReported
<1>3. CASE TakeClosed
  <2>1. outcome' = {Failing("closed")} /\ UNCHANGED <<opts, st, done, log, errSeen>>
    BY <1>3 DEF TakeClosed
  <2>2. LoopTypeOK'
    BY <2>1 DEF LoopInv, LoopTypeOK, Outcomes
  <2>3. GrantsTheBest' /\ HeldErrorIsReported'
    BY <2>1 DEF GrantsTheBest, HeldErrorIsReported, Failing
  <2> QED
    BY <2>1, <2>2, <2>3 DEF LoopInv, Running
<1> QED
  BY <1>1, <1>2, <1>3, TakeClaimInv, TakeResponseInv, TakeDoneInv DEF LoopNext

(* The loop's local variables always agree with the claims it has consumed.    *)
THEOREM LoopInvariance == LoopSpec => []LoopInv
  BY InitInv, NextInv, PTL DEF LoopSpec

(* A server is granted only on an eligible bid, and the earliest of the        *)
(* highest one when nothing was accepted at once (pkg/client/rpc.go,           *)
(* selectServerUntil).                                                         *)
THEOREM BestIsGranted == LoopSpec => []GrantsTheBest
<1>1. LoopInv => GrantsTheBest
  BY DEF LoopInv
<1> QED
  BY <1>1, LoopInvariance, PTL

(* The held-back error response is reported when, and only when, no server can *)
(* be granted (pkg/client/rpc.go, selectServerUntil).                          *)
THEOREM ErrorIsReported == LoopSpec => []HeldErrorIsReported
<1>1. LoopInv => HeldErrorIsReported
  BY DEF LoopInv
<1> QED
  BY <1>1, LoopInvariance, PTL

-----------------------------------------------------------------------------
(* The local transport (LocalBus).                                         *)

(* A subscription has its slot from create until onUnsubscribe.                *)
Seated == {"open", "canceled", "unsub"}

Seats(g) == {s \in Subs : list[s] = g /\ subPc[s] \in Seated}

Begun == {s \in Subs : list[s] # None}

(* The transport's lock is held by the subscriber that says so.                *)
Locked ==
    /\ \A s \in Subs : list[s] = None <=> subPc[s] = "idle"
    /\ lOwner # None => subPc[lOwner] \in {"subscribing", "unsub"}
    /\ \A s \in Subs : subPc[s] \in {"subscribing", "unsub"} => lOwner = s

(* Lists are made for one kind, and the map has the list of each subscription  *)
(* that is in one: it is dropped with the last.                                *)
Mapped ==
    /\ created <= Cardinality(Begun)
    /\ \A s \in Subs : list[s] # None => list[s] <= created
    /\ \A k \in Kinds : mapped[k] # None => mapped[k] <= created
    /\ \A s, t \in Subs : list[s] # None /\ list[s] = list[t] => kind[s] = kind[t]
    /\ \A s \in Subs : \A k \in Kinds : list[s] # None /\ list[s] = mapped[k] => kind[s] = k
    /\ mapped["subs"] # None => mapped["subs"] # mapped["queues"]
    /\ \A k \in Kinds : mapped[k] # None => \E s \in Subs : list[s] = mapped[k]
    /\ \A s \in Subs : subPc[s] \in Seated \cup {"subscribing"} => mapped[kind[s]] = list[s]
    /\ \A g \in Lists : subCount[g] = Cardinality(Seats(g))

(* A slot has the subscription whose list and index it is, and that one only.  *)
Slotted ==
    /\ \A g \in Lists : \A i \in DOMAIN slots[g] : slots[g][i] # None =>
          /\ list[slots[g][i]] = g
          /\ index[slots[g][i]] = i
          /\ subPc[slots[g][i]] \in Seated
    /\ \A s \in Subs : subPc[s] \in Seated =>
          /\ index[s] \in DOMAIN slots[list[s]]
          /\ slots[list[s]][index[s]] = s

(* What a publisher has still to write to is in the list whose lock it holds.  *)
Writing ==
    \A p \in Publishers :
        /\ pubPc[p] # "write" => writes[p] = {}
        /\ pubPc[p] = "idle" => known[p] = {} /\ got[p] = {}
        /\ pubPc[p] # "idle" => todo[p] # <<>>
        /\ pubPc[p] # "idle" => \A i \in DOMAIN todo[p] : \E s \in Subs : list[s] = todo[p][i]
        /\ \A s \in writes[p] : list[s] = Head(todo[p]) /\ subPc[s] \in Seated

(* A reader's channel is closed by its Close, after onUnsubscribe.             *)
Closed ==
    /\ \A s \in msgClosed : subPc[s] \in {"wait", "closed"}
    /\ ~panicked

(* Lists that a publisher has still to dispatch to.                            *)
Ahead(p, g) ==
    \E i \in DOMAIN todo[p] : todo[p][i] = g /\ (pubPc[p] = "write" => i # 1)

(* What a publication has done, and has still to do, for those it is for.      *)
Delivers(p) ==
    /\ \A s \in known[p] : subPc[s] \notin {"idle", "subscribing"}
    /\ \A s \in known[p] : (kind[s] = "subs" /\ subPc[s] = "open") =>
          s \in got[p] \/ s \in writes[p] \/ Ahead(p, list[s])
    /\ \A i, j \in DOMAIN todo[p] : QueueList(todo[p][i]) /\ QueueList(todo[p][j]) => i = j
    /\ \A s, t \in (got[p] \cup writes[p]) \cap Members : s = t
    /\ \A g \in Lists : Ahead(p, g) /\ QueueList(g) => (got[p] \cup writes[p]) \cap Members = {}
    /\ (known[p] \cap Members # {} /\ \A s \in Members : ~Closing(s)) =>
          \/ (got[p] \cup writes[p]) \cap Members # {}
          \/ \E s \in known[p] \cap Members : Ahead(p, list[s])

Delivering == \A p \in Publishers : pubPc[p] # "idle" => Delivers(p)

BusInv ==
    /\ BusTypeOK
    /\ Locked
    /\ Mapped
    /\ Slotted
    /\ Writing
    /\ Closed
    /\ Delivering

-----------------------------------------------------------------------------
(* What the constants and the types say of a value.                            *)
LEMMA BusConstants ==
  /\ IsFiniteSet(Subs) /\ Cardinality(Subs) \in Nat
  /\ None \notin Subs /\ None \notin Nat /\ None \notin Lists
  /\ Lists \subseteq Nat
  /\ \A T \in SUBSET Subs : IsFiniteSet(T) /\ Cardinality(T) \in Nat /\ Cardinality(T) <= Cardinality(Subs)
<1>1. IsFiniteSet(Subs) /\ None \notin Subs /\ None \notin Nat
  BY BusAssumption
<1>2. Cardinality(Subs) \in Nat
  BY <1>1, FS_CardinalityType
<1>3. ASSUME NEW T \in SUBSET Subs
      PROVE  IsFiniteSet(T) /\ Cardinality(T) \in Nat /\ Cardinality(T) <= Cardinality(Subs)
  BY <1>1, <1>3, FS_Subset, FS_CardinalityType
<1> QED
  BY <1>1, <1>2, <1>3 DEF Lists

(* Replacing an element of a sequence.                                         *)
LEMMA SlotSet ==
  ASSUME NEW S, NEW q \in Seq(S), NEW i \in DOMAIN q, NEW e \in S
  PROVE  /\ [q EXCEPT ![i] = e] \in Seq(S)
         /\ DOMAIN [q EXCEPT ![i] = e] = DOMAIN q
         /\ Len([q EXCEPT ![i] = e]) = Len(q)
         /\ \A j \in DOMAIN q : [q EXCEPT ![i] = e][j] = IF j = i THEN e ELSE q[j]
  OBVIOUS

(* Initially there is no subscription, no list and no publication.             *)
LEMMA BusInitInv ==
  ASSUME BusInit
  PROVE  BusInv
<1>1. BusTypeOK
  <2>1. /\ slots \in [Lists -> Seq(Subs \cup {None})]
        /\ todo \in [Publishers -> Seq(Lists)]
        /\ writes \in [Publishers -> SUBSET Subs]
        /\ known \in [Publishers -> SUBSET Subs]
        /\ got \in [Publishers -> SUBSET Subs]
    BY DEF BusInit
  <2>2. /\ kind \in KindSet
        /\ lOwner \in Subs \cup {None}
        /\ mapped \in [Kinds -> Lists \cup {None}]
        /\ created \in 0..Cardinality(Subs)
        /\ next \in [Lists -> Nat] /\ subCount \in [Lists -> Nat]
        /\ msgClosed \subseteq Subs /\ fwd \subseteq Subs /\ fwdExit \subseteq Subs
    BY BusConstants DEF BusInit
  <2>3. /\ msgChan \in [Subs -> 0..Size]
        /\ published \in [Publishers -> Nat]
    BY BusAssumption DEF BusInit
  <2> QED
    BY <2>1, <2>2, <2>3 DEF BusInit, BusTypeOK
<1>2. Begun = {} /\ \A g \in Lists : Seats(g) = {}
  BY BusConstants DEF BusInit, Begun, Seats
<1>3. Cardinality(Begun) = 0 /\ \A g \in Lists : Cardinality(Seats(g)) = 0
  BY <1>2, FS_EmptySet
<1>4. Locked
  BY BusConstants DEF BusInit, Locked
<1>5. Mapped
  BY <1>3, BusConstants DEF BusInit, Mapped, Seated, Kinds
<1>6. Slotted
  BY DEF BusInit, Slotted, Seated
<1> QED
  BY <1>1, <1>4, <1>5, <1>6 DEF BusInit, BusInv, Writing, Closed, Delivering

-----------------------------------------------------------------------------
(* A publisher, a reader or a forwarder leaves the lists as they are.          *)
LEMMA ListsFrame ==
  ASSUME Locked, Mapped, Slotted,
         UNCHANGED <<lOwner, mapped, created, slots, subCount, lifeVars>>
  PROVE  Locked' /\ Mapped' /\ Slotted'
<1> USE DEF lifeVars
<1>1. Locked'
  BY DEF Locked
<1>2. Begun' = Begun
  BY DEF Begun
<1>3. \A g \in Lists : Seats(g)' = Seats(g)
  BY DEF Seats
<1>4. Mapped'
  BY <1>2, <1>3 DEF Mapped
<1>5. Slotted'
  BY DEF Slotted
<1> QED
  BY <1>1, <1>4, <1>5

(* A subscription that moves on leaves what publishers do as it is.            *)
LEMMA PublishersFrame ==
  ASSUME BusTypeOK, Writing, Delivering, UNCHANGED <<kind, list, pubVars>>, NEW s \in Subs,
         \A t \in Subs : t # s => subPc'[t] = subPc[t],
         subPc'[s] \notin {"idle", "subscribing"},
         subPc'[s] # "open" \/ subPc[s] = "subscribing",
         Closing(s) => Closing(s)',
         \A p \in Publishers : s \in writes[p] => subPc'[s] \in Seated
  PROVE  Writing' /\ Delivering'
<1> USE DEF pubVars
<1>1. \A p \in Publishers : known[p] \subseteq Subs /\ writes[p] \subseteq Subs
  BY DEF BusTypeOK
<1>2. Writing'
  BY <1>1 DEF Writing
<1>3. /\ \A p \in Publishers : \A g : Ahead(p, g)' = Ahead(p, g)
      /\ \A g : QueueList(g)' = QueueList(g)
      /\ Members' = Members
      /\ Members \subseteq Subs
  BY DEF Ahead, QueueList, Members
<1>4. (\A t \in Members : ~Closing(t))' => \A t \in Members : ~Closing(t)
  BY <1>3 DEF Closing
<1>5. Delivering'
  <2> SUFFICES ASSUME NEW p \in Publishers, pubPc[p] # "idle"
               PROVE  Delivers(p)'
    BY DEF Delivering
  <2> QED
    BY <1>1, <1>3, <1>4 DEF Delivering, Delivers
<1> QED
  BY <1>2, <1>5

-----------------------------------------------------------------------------
(* subscribe: the list of the kind, or a new one, which no other has.          *)
LEMMA BeginSubscribeKeeps ==
  ASSUME BusInv, NEW s \in Subs, BeginSubscribe(s)
  PROVE  BusInv'
<1> DEFINE k == kind[s]
           g == IF mapped[k] = None THEN created + 1 ELSE mapped[k]
<1> USE DEF BusInv
<1>1. /\ subPc[s] = "idle" /\ lOwner = None /\ lOwner' = s
      /\ mapped' = [mapped EXCEPT ![k] = g]
      /\ created' = IF g > created THEN g ELSE created
      /\ subPc' = [subPc EXCEPT ![s] = "subscribing"]
      /\ list' = [list EXCEPT ![s] = g]
      /\ UNCHANGED <<slots, next, subCount, kind, index, pubVars, chanVars, fwdVars>>
  BY DEF BeginSubscribe
<1>2. k \in Kinds /\ created \in Nat /\ list[s] = None
  BY <1>1, BusAssumption, BusConstants DEF BusTypeOK, Locked
<1>3. /\ \A t \in Subs : list'[t] = IF t = s THEN g ELSE list[t]
      /\ \A t \in Subs : subPc'[t] = IF t = s THEN "subscribing" ELSE subPc[t]
      /\ \A j \in Kinds : mapped'[j] = IF j = k THEN g ELSE mapped[j]
  BY <1>1, <1>2 DEF BusTypeOK
<1>4. g \in Nat /\ g # None /\ g \in Lists /\ created' \in 0..Cardinality(Subs)
      /\ created' \in Nat /\ created <= created' /\ g <= created'
      /\ created' <= Cardinality(Begun')
  <2>0. mapped[k] \in Lists \cup {None}
    BY <1>2 DEF BusTypeOK
  <2>1. g \in Nat
    <3>1. CASE mapped[k] = None
      BY <1>2, <3>1
    <3>2. CASE mapped[k] # None
      BY <2>0, <3>2, BusConstants
    <3> QED
      BY <3>1, <3>2
  <2>2. Begun' = Begun \cup {s} /\ s \notin Begun /\ Begun \subseteq Subs
    BY <1>2, <1>3, <2>1, BusConstants DEF Begun
  <2>3. Cardinality(Begun') = Cardinality(Begun) + 1 /\ Cardinality(Begun') <= Cardinality(Subs)
    BY <2>2, BusConstants, FS_AddElement
  <2>4. Cardinality(Begun) \in Nat /\ Cardinality(Subs) \in Nat
    BY <2>2, BusConstants
  <2>5. created <= Cardinality(Begun)
    BY DEF Mapped
  <2>6. mapped[k] # None => mapped[k] \in Lists /\ mapped[k] <= created
    BY <1>2 DEF Mapped, BusTypeOK
  <2> QED
    BY <1>1, <1>2, <2>1, <2>3, <2>4, <2>5, <2>6, BusConstants DEF Lists
<1> HIDE DEF g
<1>5. mapped[k] # None => g = mapped[k]
  BY DEF g
<1>6. ASSUME mapped[k] = None
      PROVE  /\ \A t \in Subs : list[t] # g
             /\ \A j \in Kinds : mapped[j] # g
  BY <1>2, <1>4, <1>6, BusConstants DEF g, Mapped, BusTypeOK
<1>7. BusTypeOK'
  <2>1. /\ lOwner' \in Subs \cup {None}
        /\ mapped' \in [Kinds -> Lists \cup {None}]
        /\ list' \in [Subs -> Lists \cup {None}]
        /\ subPc' \in [Subs -> {"idle", "subscribing", "open", "canceled", "unsub",
                                "removed", "wait", "closed"}]
    BY <1>1, <1>2, <1>4 DEF BusTypeOK
  <2> QED
    BY <1>1, <1>4, <2>1 DEF BusTypeOK, pubVars, chanVars, fwdVars
<1>8. Locked'
  BY <1>1, <1>3, <1>4, BusConstants DEF Locked
<1>9. Mapped'
  <2>1. \A h \in Lists : Seats(h)' = Seats(h)
    BY <1>1, <1>3 DEF Seats, Seated
  <2>0. /\ \A t \in Subs : list[t] # None => list[t] \in Nat /\ list[t] <= created
        /\ \A j \in Kinds : mapped[j] # None => mapped[j] \in Nat /\ mapped[j] <= created
    <3>1. /\ \A t \in Subs : list[t] \in Lists \cup {None}
          /\ \A j \in Kinds : mapped[j] \in Lists \cup {None}
      BY DEF BusTypeOK
    <3> QED
      BY <3>1, BusConstants DEF Mapped
  <2>2. \A t \in Subs : list'[t] # None => list'[t] <= created'
    BY <1>2, <1>3, <1>4, <2>0
  <2>3. \A j \in Kinds : mapped'[j] # None => mapped'[j] <= created'
    BY <1>2, <1>3, <1>4, <2>0
  <2>4. \A t \in Subs : \A j \in Kinds :
            list'[t] # None /\ list'[t] = mapped'[j] => kind'[t] = j
    <3>1. ASSUME NEW t \in Subs, NEW j \in Kinds, list'[t] # None, list'[t] = mapped'[j]
          PROVE  kind[t] = j
      <4>1. CASE t = s /\ j # k
        <5>1. mapped[j] = g
          BY <1>3, <3>1, <4>1
        <5>2. mapped[k] # None
          BY <1>6, <5>1
        <5> QED
          BY <1>2, <1>5, <4>1, <5>1, <5>2 DEF Mapped, Kinds
      <4>2. CASE t # s /\ j = k
        BY <1>2, <1>3, <1>5, <1>6, <3>1, <4>2 DEF Mapped
      <4>3. CASE t # s /\ j # k
        BY <1>3, <3>1, <4>3 DEF Mapped
      <4> QED
        BY <4>1, <4>2, <4>3
    <3> QED
      BY <1>1, <3>1
  <2>5. \A t, u \in Subs : list'[t] # None /\ list'[t] = list'[u] => kind'[t] = kind'[u]
    <3>1. \A t \in Subs : list[t] = g => kind[t] = k
      BY <1>2, <1>4, <1>5, <1>6 DEF Mapped
    <3> QED
      BY <1>1, <1>3, <3>1 DEF Mapped
  <2>6. mapped'["subs"] # None => mapped'["subs"] # mapped'["queues"]
    BY <1>2, <1>3, <1>4, <1>5, <1>6 DEF Mapped, Kinds
  <2>7. \A j \in Kinds : mapped'[j] # None => \E t \in Subs : list'[t] = mapped'[j]
    BY <1>2, <1>3 DEF Mapped
  <2>8. \A t \in Subs : subPc'[t] \in Seated \cup {"subscribing"} => mapped'[kind'[t]] = list'[t]
    <3>1. ASSUME NEW t \in Subs, t # s, subPc[t] \in Seated \cup {"subscribing"}
          PROVE  mapped'[kind[t]] = list[t]
      <4>1. kind[t] \in Kinds /\ mapped[kind[t]] = list[t] /\ list[t] # None
        BY <3>1, BusAssumption DEF Mapped, Locked, BusTypeOK, Seated
      <4> QED
        BY <1>3, <1>5, <4>1
    <3> QED
      BY <1>1, <1>2, <1>3, <3>1
  <2> QED
    BY <1>1, <1>4, <2>1, <2>2, <2>3, <2>4, <2>5, <2>6, <2>7, <2>8 DEF Mapped
<1>10. Slotted'
  <2>2. ASSUME NEW h \in Lists, NEW i \in DOMAIN slots[h], slots[h][i] # None
        PROVE  /\ list'[slots[h][i]] = h
               /\ index[slots[h][i]] = i
               /\ subPc'[slots[h][i]] \in Seated
    <3>1. slots[h][i] \in Subs
      BY <2>2 DEF BusTypeOK
    <3> QED
      BY <1>1, <1>3, <2>2, <3>1 DEF Slotted, Seated
  <2>3. ASSUME NEW t \in Subs, subPc'[t] \in Seated
        PROVE  index[t] \in DOMAIN slots[list'[t]] /\ slots[list'[t]][index[t]] = t
    BY <1>3, <2>3 DEF Slotted, Seated
  <2> QED
    BY <1>1, <2>2, <2>3 DEF Slotted
<1>11. \A p \in Publishers : /\ todo[p] \in Seq(Lists) /\ known[p] \subseteq Subs
                             /\ writes[p] \subseteq Subs /\ got[p] \subseteq Subs
  BY DEF BusTypeOK
<1>12. Writing'
  <2>1. \A p \in Publishers : \A i \in DOMAIN todo[p] :
            (\E t \in Subs : list[t] = todo[p][i]) => (\E t \in Subs : list'[t] = todo[p][i])
    BY <1>2, <1>3, <1>11, BusConstants
  <2>2. \A p \in Publishers : s \notin writes[p]
    BY <1>1 DEF Writing, Seated
  <2> QED
    BY <1>1, <1>3, <1>11, <2>1, <2>2 DEF Writing, pubVars
<1>13. Closed'
  BY <1>1, <1>3 DEF Closed, chanVars, BusTypeOK
<1>14. Delivering'
  <2>1. ASSUME NEW h \in Lists, NEW u \in Subs, list[u] = h
        PROVE  QueueList(h)' <=> QueueList(h)
    <3>1. \A t \in Subs : list'[t] = h => kind'[t] = kind[u]
      BY <1>2, <1>3, <1>9, <2>1, BusConstants, <1>1 DEF Mapped
    <3>2. \A t \in Subs : list[t] = h => kind[t] = kind[u]
      BY <2>1, BusConstants DEF Mapped
    <3>3. list'[u] = h /\ kind' = kind
      BY <1>1, <1>2, <1>3, <2>1, BusConstants
    <3> QED
      BY <2>1, <3>1, <3>2, <3>3 DEF QueueList
  <2> SUFFICES ASSUME NEW p \in Publishers, pubPc[p] # "idle"
               PROVE  Delivers(p)'
    BY <1>1 DEF Delivering, pubVars
  <2>2. \A i \in DOMAIN todo[p] : QueueList(todo[p][i])' <=> QueueList(todo[p][i])
    <3> SUFFICES ASSUME NEW i \in DOMAIN todo[p]
                 PROVE  QueueList(todo[p][i])' <=> QueueList(todo[p][i])
      OBVIOUS
    <3>1. PICK u \in Subs : list[u] = todo[p][i]
      BY DEF Writing
    <3>2. todo[p][i] \in Lists /\ todo' = todo
      BY <1>1, <1>11 DEF pubVars
    <3> QED
      BY <2>1, <3>1, <3>2
  <2>3. \A h : Ahead(p, h)' <=> Ahead(p, h)
    BY <1>1 DEF Ahead, pubVars
  <2>4. ASSUME NEW h, Ahead(p, h)
        PROVE  QueueList(h)' <=> QueueList(h)
    <3>1. PICK i \in DOMAIN todo[p] : todo[p][i] = h
      BY <2>4 DEF Ahead
    <3>2. todo' = todo
      BY <1>1 DEF pubVars
    <3> QED
      BY <2>2, <3>1, <3>2
  <2>5. Members' = Members /\ \A t \in Members : Closing(t)' <=> Closing(t)
    BY <1>1, <1>3 DEF Members, Closing
  <2>6. Delivers(p) /\ s \notin known[p]
    BY <1>1 DEF Delivering, Delivers
  <2>7. \A t \in known[p] : list'[t] = list[t] /\ subPc'[t] = subPc[t]
    BY <1>3, <1>11, <2>6
  <2>8. UNCHANGED <<known, got, writes, todo, kind>>
    BY <1>1 DEF pubVars
  <2>9. \A t \in known[p] : Ahead(p, list[t]) => Ahead(p, list[t])'
    BY <2>3, <2>7
  <2> QED
    BY <2>2, <2>3, <2>4, <2>5, <2>6, <2>7, <2>8, <2>9 DEF Delivers
<1> QED
  BY <1>7, <1>8, <1>9, <1>10, <1>12, <1>13, <1>14

(* create: the subscription takes the first free slot.                         *)
LEMMA FinishSubscribeKeeps ==
  ASSUME BusInv, NEW s \in Subs, FinishSubscribe(s)
  PROVE  BusInv'
<1>0. PICK g : g = list[s]
  OBVIOUS
<1> USE <1>0 DEF BusInv
<1>1. PICK i \in 1..(Len(slots[g]) + 1) :
        /\ FreeIndex(g, i)
        /\ slots' = [slots EXCEPT ![g] =
                        IF i > Len(@) THEN Append(@, s) ELSE [@ EXCEPT ![i] = s]]
        /\ index' = [index EXCEPT ![s] = i]
  BY DEF FinishSubscribe
<1>2. /\ subPc[s] = "subscribing" /\ lOwner' = None
      /\ subCount' = [subCount EXCEPT ![g] = @ + 1]
      /\ subPc' = [subPc EXCEPT ![s] = "open"]
      /\ UNCHANGED <<mapped, created, next, kind, list, pubVars, chanVars, fwdVars>>
  BY DEF FinishSubscribe
<1>3. /\ g \in Lists /\ g # None /\ lOwner = s
      /\ slots[g] \in Seq(Subs \cup {None}) /\ subCount[g] \in Nat
      /\ DOMAIN slots[g] = 1..Len(slots[g]) /\ Len(slots[g]) \in Nat
      /\ i \in Nat
  <2>1. g # None /\ lOwner = s
    BY <1>2 DEF Locked
  <2>2. g \in Lists
    BY <2>1 DEF BusTypeOK
  <2>3. slots[g] \in Seq(Subs \cup {None}) /\ subCount[g] \in Nat
    BY <2>2 DEF BusTypeOK
  <2> QED
    BY <2>1, <2>2, <2>3
<1>4. /\ \A t \in Subs : subPc'[t] = IF t = s THEN "open" ELSE subPc[t]
      /\ \A t \in Subs : index'[t] = IF t = s THEN i ELSE index[t]
      /\ \A h \in Lists : subCount'[h] = IF h = g THEN subCount[h] + 1 ELSE subCount[h]
      /\ \A h \in Lists : h # g => slots'[h] = slots[h]
  BY <1>1, <1>2, <1>3 DEF BusTypeOK
<1>5. /\ slots'[g] \in Seq(Subs \cup {None})
      /\ DOMAIN slots'[g] = DOMAIN slots[g] \cup {i}
      /\ slots'[g][i] = s
      /\ \A j \in DOMAIN slots[g] : j # i => slots'[g][j] = slots[g][j]
      /\ i \in DOMAIN slots[g] => slots[g][i] = None
  <2>1. slots'[g] = IF i > Len(slots[g]) THEN Append(slots[g], s)
                    ELSE [slots[g] EXCEPT ![i] = s]
    BY <1>1, <1>3 DEF BusTypeOK
  <2>2. CASE i > Len(slots[g])
    <3>1. i = Len(slots[g]) + 1
      BY <1>3, <2>2
    <3> QED
      BY <1>3, <2>1, <2>2, <3>1
  <2>3. CASE ~(i > Len(slots[g]))
    <3>1. i \in DOMAIN slots[g]
      BY <1>3, <2>3
    <3>2. slots[g][i] = None
      BY <1>1, <1>3, <2>3 DEF FreeIndex
    <3>3. slots'[g] = [slots[g] EXCEPT ![i] = s]
      BY <2>1, <2>3
    <3>4. s \in Subs \cup {None}
      OBVIOUS
    <3> QED
      BY <1>3, <3>1, <3>2, <3>3, <3>4, SlotSet
  <2> QED
    BY <2>2, <2>3
<1>6. BusTypeOK'
  <2>1. slots' \in [Lists -> Seq(Subs \cup {None})]
    <3>1. DOMAIN slots' = Lists /\ slots' = [h \in Lists |-> slots'[h]]
      BY <1>1 DEF BusTypeOK
    <3>2. \A h \in Lists : slots'[h] \in Seq(Subs \cup {None})
      BY <1>4, <1>5 DEF BusTypeOK
    <3> QED
      BY <3>1, <3>2
  <2>2. /\ lOwner' \in Subs \cup {None}
        /\ subCount' \in [Lists -> Nat]
        /\ index' \in [Subs -> Nat]
        /\ subPc' \in [Subs -> {"idle", "subscribing", "open", "canceled", "unsub",
                                "removed", "wait", "closed"}]
    BY <1>1, <1>2, <1>3 DEF BusTypeOK
  <2> QED
    BY <1>2, <2>1, <2>2 DEF BusTypeOK, pubVars, chanVars, fwdVars
<1>7. Locked'
  BY <1>2, <1>3, <1>4 DEF Locked
<1>8. Mapped'
  <2>1. Begun' = Begun
    BY <1>2 DEF Begun
  <2>2. \A h \in Lists : h # g => Seats(h)' = Seats(h)
    BY <1>2, <1>4 DEF Seats
  <2>3. Seats(g)' = Seats(g) \cup {s} /\ s \notin Seats(g) /\ Seats(g) \subseteq Subs
    BY <1>2, <1>4 DEF Seats, Seated
  <2>4. Cardinality(Seats(g)') = Cardinality(Seats(g)) + 1
    BY <2>3, BusConstants, FS_AddElement
  <2>5. \A h \in Lists : subCount'[h] = Cardinality(Seats(h)')
    <3>1. subCount'[g] = Cardinality(Seats(g)')
      BY <1>3, <1>4, <2>4 DEF Mapped
    <3>2. \A h \in Lists : h # g => subCount'[h] = Cardinality(Seats(h)')
      BY <1>4, <2>2 DEF Mapped
    <3> QED
      BY <3>1, <3>2
  <2>6. \A t \in Subs : subPc'[t] \in Seated \cup {"subscribing"} => mapped'[kind'[t]] = list'[t]
    BY <1>2, <1>4 DEF Mapped, Seated
  <2> QED
    BY <1>2, <2>1, <2>5, <2>6 DEF Mapped
<1>9. Slotted'
  <2>1. ASSUME NEW h \in Lists, NEW j \in DOMAIN slots'[h], slots'[h][j] # None
        PROVE  /\ list[slots'[h][j]] = h
               /\ index'[slots'[h][j]] = j
               /\ subPc'[slots'[h][j]] \in Seated
    <3>1. CASE h = g /\ j = i
      BY <1>4, <1>5, <3>1 DEF Seated
    <3>2. CASE ~(h = g /\ j = i)
      <4>1. j \in DOMAIN slots[h] /\ slots'[h][j] = slots[h][j]
        BY <1>4, <1>5, <2>1, <3>2
      <4>2. slots[h][j] \in Subs
        BY <2>1, <4>1 DEF BusTypeOK
      <4>3. /\ list[slots[h][j]] = h
            /\ index[slots[h][j]] = j
            /\ subPc[slots[h][j]] \in Seated
        BY <2>1, <4>1 DEF Slotted
      <4> QED
        BY <1>2, <1>4, <4>1, <4>2, <4>3 DEF Seated
    <3> QED
      BY <3>1, <3>2
  <2>2. ASSUME NEW t \in Subs, subPc'[t] \in Seated
        PROVE  index'[t] \in DOMAIN slots'[list[t]] /\ slots'[list[t]][index'[t]] = t
    <3>1. CASE t = s
      BY <1>3, <1>4, <1>5, <3>1
    <3>2. CASE t # s
      <4>1. subPc[t] \in Seated /\ index'[t] = index[t] /\ list[t] \in Lists
        BY <1>4, <2>2, <3>2 DEF Locked, BusTypeOK, Seated
      <4>2. index[t] \in DOMAIN slots[list[t]] /\ slots[list[t]][index[t]] = t
        BY <4>1 DEF Slotted
      <4>3. CASE list[t] # g
        BY <1>4, <4>1, <4>2, <4>3
      <4>4. CASE list[t] = g
        <5>1. index[t] # i
          BY <1>5, <4>2, <4>4, BusConstants
        <5> QED
          BY <1>5, <4>1, <4>2, <4>4, <5>1
      <4> QED
        BY <4>3, <4>4
    <3> QED
      BY <3>1, <3>2
  <2> QED
    BY <1>2, <2>1, <2>2 DEF Slotted
<1>10. Writing' /\ Delivering'
  BY <1>2, <1>4, PublishersFrame DEF Closing, Seated
<1>11. Closed'
  BY <1>2, <1>4 DEF Closed, chanVars, BusTypeOK
<1> QED
  BY <1>6, <1>7, <1>8, <1>9, <1>10, <1>11

(* Close up to onUnsubscribe leaves the subscription in its slot.              *)
LEMMA StaysSeated ==
  ASSUME BusInv, NEW s \in Subs, CallClose(s) \/ LockTransport(s)
  PROVE  BusInv'
<1> USE DEF BusInv
<1> DEFINE to == IF subPc[s] = "open" THEN "canceled" ELSE "unsub"
<1>1. /\ subPc[s] \in {"open", "canceled"} /\ subPc' = [subPc EXCEPT ![s] = to]
      /\ UNCHANGED <<mapped, created, slots, next, subCount, kind, list, index, pubVars, chanVars,
                     fwdVars>>
  BY DEF CallClose, LockTransport, Life, listVars
<1>2. IF to = "unsub" THEN lOwner = None /\ lOwner' = s ELSE lOwner' = lOwner
  BY DEF CallClose, LockTransport, Life, listVars
<1>3. \A t \in Subs : subPc'[t] = IF t = s THEN to ELSE subPc[t]
  BY <1>1 DEF BusTypeOK
<1>4. to \in {"canceled", "unsub"}
  OBVIOUS
<1>5. subPc[s] \in Seated /\ to \in Seated
  BY <1>1, <1>4 DEF Seated
<1> HIDE DEF to
<1>6. BusTypeOK'
  <2>1. lOwner' \in Subs \cup {None}
    BY <1>2 DEF BusTypeOK
  <2>2. subPc' \in [Subs -> {"idle", "subscribing", "open", "canceled", "unsub",
                             "removed", "wait", "closed"}]
    BY <1>1, <1>4 DEF BusTypeOK
  <2> QED
    BY <1>1, <2>1, <2>2 DEF BusTypeOK, pubVars, chanVars, fwdVars
<1>7. Locked'
  <2>1. \A t \in Subs : list'[t] = None <=> subPc'[t] = "idle"
    BY <1>1, <1>3, <1>4 DEF Locked
  <2>2. CASE to = "unsub"
    BY <1>1, <1>2, <1>3, <2>1, <2>2, BusConstants DEF Locked
  <2>3. CASE to = "canceled"
    <3>1. lOwner' = lOwner
      BY <1>2, <2>3
    <3>2. lOwner # s
      BY <1>1, BusConstants DEF Locked
    <3>3. lOwner # None => lOwner \in Subs
      BY DEF BusTypeOK
    <3> QED
      BY <1>1, <1>3, <2>1, <2>3, <3>1, <3>2, <3>3 DEF Locked
  <2> QED
    BY <1>4, <2>2, <2>3
<1>8. Mapped'
  <2>1. Begun' = Begun /\ \A h \in Lists : Seats(h)' = Seats(h)
    BY <1>1, <1>3, <1>5 DEF Begun, Seats
  <2>2. \A t \in Subs : subPc'[t] \in Seated \cup {"subscribing"} => mapped'[kind'[t]] = list'[t]
    BY <1>1, <1>3, <1>5 DEF Mapped
  <2> QED
    BY <1>1, <2>1, <2>2 DEF Mapped
<1>9. Slotted'
  <2>1. \A h \in Lists : \A i \in DOMAIN slots[h] : slots[h][i] # None => slots[h][i] \in Subs
    BY DEF BusTypeOK
  <2> QED
    BY <1>1, <1>3, <1>5, <2>1 DEF Slotted
<1>10. Writing' /\ Delivering'
  BY <1>1, <1>3, <1>4, <1>5, PublishersFrame DEF Closing
<1>11. Closed'
  BY <1>1, <1>3 DEF Closed, chanVars, BusTypeOK
<1> QED
  BY <1>6, <1>7, <1>8, <1>9, <1>10, <1>11

(* onUnsubscribe: no publisher holds the list, so none has it to write to.     *)
LEMMA UnsubscribeKeeps ==
  ASSUME BusInv, NEW s \in Subs, Unsubscribe(s)
  PROVE  BusInv'
<1>0. PICK g, i : g = list[s] /\ i = index[s]
  OBVIOUS
<1> DEFINE last == subCount[g] = 1
<1> USE <1>0 DEF BusInv
<1>1. /\ subPc[s] = "unsub" /\ subPc' = [subPc EXCEPT ![s] = "removed"]
      /\ Holders(g) = {}
      /\ lOwner' = None
      /\ slots' = [slots EXCEPT ![g][index[s]] = None]
      /\ subCount' = [subCount EXCEPT ![g] = @ - 1]
      /\ mapped' = [mapped EXCEPT ![kind[s]] = IF last THEN None ELSE @]
      /\ UNCHANGED <<created, next, kind, list, index, pubVars, chanVars, fwdVars>>
  BY DEF Unsubscribe, Life
<1>2. /\ g \in Lists /\ lOwner = s /\ kind[s] \in Kinds
      /\ slots[g] \in Seq(Subs \cup {None})
      /\ i \in DOMAIN slots[g] /\ slots[g][i] = s
      /\ subPc[s] \in Seated /\ mapped[kind[s]] = g
  <2>1. subPc[s] \in Seated
    BY <1>1 DEF Seated
  <2>2. g \in Lists /\ lOwner = s
    BY <1>1 DEF Locked, BusTypeOK
  <2>3. kind[s] \in Kinds
    BY BusAssumption DEF BusTypeOK
  <2>4. slots[g] \in Seq(Subs \cup {None})
    BY <2>2 DEF BusTypeOK
  <2>5. i \in DOMAIN slots[g] /\ slots[g][i] = s /\ mapped[kind[s]] = g
    BY <2>1 DEF Slotted, Mapped
  <2> QED
    BY <2>1, <2>2, <2>3, <2>4, <2>5
<1>3. /\ \A t \in Subs : subPc'[t] = IF t = s THEN "removed" ELSE subPc[t]
      /\ \A h \in Lists : subCount'[h] = IF h = g THEN subCount[h] - 1 ELSE subCount[h]
      /\ \A h \in Lists : h # g => slots'[h] = slots[h]
      /\ slots'[g] = [slots[g] EXCEPT ![i] = None]
      /\ \A k \in Kinds : mapped'[k] = IF k = kind[s] /\ last THEN None ELSE mapped[k]
  BY <1>1, <1>2 DEF BusTypeOK
<1>4. /\ slots'[g] \in Seq(Subs \cup {None})
      /\ DOMAIN slots'[g] = DOMAIN slots[g]
      /\ \A j \in DOMAIN slots[g] : slots'[g][j] = IF j = i THEN None ELSE slots[g][j]
  <2>1. None \in Subs \cup {None}
    OBVIOUS
  <2>2. slots'[g] = [slots[g] EXCEPT ![i] = None]
    BY <1>3
  <2> QED
    BY <1>2, <2>1, <2>2, SlotSet
<1>5. /\ Seats(g)' = Seats(g) \ {s}
      /\ \A h \in Lists : h # g => Seats(h)' = Seats(h)
      /\ s \in Seats(g) /\ Seats(g) \subseteq Subs
  BY <1>1, <1>2, <1>3 DEF Seats, Seated
<1>6. /\ IsFiniteSet(Seats(g)) /\ Cardinality(Seats(g)) \in Nat /\ subCount[g] = Cardinality(Seats(g))
      /\ Cardinality(Seats(g)') = Cardinality(Seats(g)) - 1
      /\ Cardinality(Seats(g)') \in Nat
  <2>1. IsFiniteSet(Seats(g)) /\ Cardinality(Seats(g)) \in Nat
    BY <1>5, BusConstants
  <2>2. Cardinality(Seats(g)') = Cardinality(Seats(g)) - 1
    BY <1>5, <2>1, FS_RemoveElement
  <2>3. Seats(g)' \subseteq Subs
    BY <1>5
  <2>4. Cardinality(Seats(g)') \in Nat
    BY <2>3, BusConstants
  <2> QED
    BY <1>2, <2>1, <2>2, <2>4 DEF Mapped
<1>7. last => Seats(g) = {s}
  <2> SUFFICES ASSUME last PROVE Seats(g) = {s}
    OBVIOUS
  <2>1. \E x : Seats(g) = {x}
    BY <1>6, FS_Singleton
  <2> QED
    BY <1>5, <2>1
<1> HIDE DEF last
<1>8. BusTypeOK'
  <2>1. slots' \in [Lists -> Seq(Subs \cup {None})]
    <3>1. DOMAIN slots' = Lists /\ slots' = [h \in Lists |-> slots'[h]]
      BY <1>1 DEF BusTypeOK
    <3>2. \A h \in Lists : slots'[h] \in Seq(Subs \cup {None})
      BY <1>3, <1>4 DEF BusTypeOK
    <3> QED
      BY <3>1, <3>2
  <2>2. /\ lOwner' \in Subs \cup {None}
        /\ mapped' \in [Kinds -> Lists \cup {None}]
        /\ subPc' \in [Subs -> {"idle", "subscribing", "open", "canceled", "unsub",
                                "removed", "wait", "closed"}]
    BY <1>1, <1>2 DEF BusTypeOK
  <2>3. subCount' \in [Lists -> Nat]
    <3>1. subCount[g] - 1 \in Nat
      BY <1>6
    <3> QED
      BY <1>1, <3>1 DEF BusTypeOK
  <2> QED
    BY <1>1, <2>1, <2>2, <2>3 DEF BusTypeOK, pubVars, chanVars, fwdVars
<1>9. Locked'
  BY <1>1, <1>2, <1>3 DEF Locked
<1>10. Mapped'
  <2>1. Begun' = Begun
    BY <1>1 DEF Begun
  <2>2. \A h \in Lists : subCount'[h] = Cardinality(Seats(h)')
    <3>1. subCount'[g] = Cardinality(Seats(g)')
      BY <1>2, <1>3, <1>6
    <3>2. \A h \in Lists : h # g => subCount'[h] = Cardinality(Seats(h)')
      BY <1>3, <1>5 DEF Mapped
    <3> QED
      BY <3>1, <3>2
  <2>3. ASSUME NEW t \in Subs, subPc'[t] \in Seated \cup {"subscribing"}
        PROVE  mapped'[kind[t]] = list[t]
    <3>1. t # s /\ subPc[t] \in Seated
      BY <1>1, <1>2, <1>3, <2>3 DEF Locked, Seated
    <3>2. mapped[kind[t]] = list[t] /\ kind[t] \in Kinds
      BY <3>1, BusAssumption DEF Mapped, BusTypeOK
    <3>3. ~(kind[t] = kind[s] /\ last)
      <4>1. SUFFICES ASSUME kind[t] = kind[s], last PROVE FALSE
        OBVIOUS
      <4>2. t \in Seats(g)
        BY <1>2, <3>1, <3>2, <4>1 DEF Seats
      <4> QED
        BY <1>7, <3>1, <4>1, <4>2
    <3> QED
      BY <1>3, <3>2, <3>3
  <2>4. /\ \A k \in Kinds : mapped'[k] # None => mapped'[k] = mapped[k]
        /\ "subs" \in Kinds /\ "queues" \in Kinds
    BY <1>3 DEF Kinds
  <2>5. mapped'["subs"] # None => mapped'["subs"] # mapped'["queues"]
    BY <2>4 DEF Mapped
  <2>6. \A k \in Kinds : mapped'[k] # None => \E t \in Subs : list'[t] = mapped'[k]
    BY <1>1, <2>4 DEF Mapped
  <2>7. \A t \in Subs : \A k \in Kinds : list'[t] # None /\ list'[t] = mapped'[k] => kind'[t] = k
    BY <1>1, <2>4 DEF Mapped
  <2> QED
    BY <1>1, <2>1, <2>2, <2>3, <2>4, <2>5, <2>6, <2>7 DEF Mapped
<1>11. Slotted'
  <2>1. ASSUME NEW h \in Lists, NEW j \in DOMAIN slots'[h], slots'[h][j] # None
        PROVE  /\ list[slots'[h][j]] = h
               /\ index[slots'[h][j]] = j
               /\ subPc'[slots'[h][j]] \in Seated
    <3>1. j \in DOMAIN slots[h] /\ slots'[h][j] = slots[h][j] /\ ~(h = g /\ j = i)
      BY <1>3, <1>4, <2>1
    <3>2. slots[h][j] \in Subs
      BY <2>1, <3>1 DEF BusTypeOK
    <3>3. /\ list[slots[h][j]] = h
          /\ index[slots[h][j]] = j
          /\ subPc[slots[h][j]] \in Seated
      BY <2>1, <3>1 DEF Slotted
    <3> QED
      BY <1>3, <3>1, <3>2, <3>3
  <2>2. ASSUME NEW t \in Subs, subPc'[t] \in Seated
        PROVE  index[t] \in DOMAIN slots'[list[t]] /\ slots'[list[t]][index[t]] = t
    <3>1. t # s /\ subPc[t] \in Seated
      BY <1>3, <2>2 DEF Seated
    <3>2. list[t] \in Lists
      BY <3>1 DEF Locked, BusTypeOK, Seated
    <3>3. index[t] \in DOMAIN slots[list[t]] /\ slots[list[t]][index[t]] = t
      BY <3>1 DEF Slotted
    <3>4. ~(list[t] = g /\ index[t] = i)
      BY <1>2, <3>1, <3>3
    <3> QED
      BY <1>3, <1>4, <3>2, <3>3, <3>4
  <2> QED
    BY <1>1, <2>1, <2>2 DEF Slotted
<1>12. \A p \in Publishers : s \notin writes[p]
  BY <1>1 DEF Writing, Holders
<1>13. Writing' /\ Delivering'
  <2>1. UNCHANGED <<kind, list, pubVars>>
    BY <1>1
  <2> QED
    BY <1>3, <1>12, <2>1, PublishersFrame DEF Closing
<1>14. Closed'
  BY <1>1, <1>3 DEF Closed, chanVars, BusTypeOK
<1> QED
  BY <1>8, <1>9, <1>10, <1>11, <1>13, <1>14

(* The end of Close: the channel is closed once, when it has left the list.    *)
LEMMA CloseEnds ==
  ASSUME BusInv, NEW s \in Subs, CloseReader(s) \/ CloseReturns(s)
  PROVE  BusInv'
<1> USE DEF BusInv
<1> DEFINE to == IF subPc[s] = "removed" THEN "wait" ELSE "closed"
<1>1. /\ subPc[s] \in {"removed", "wait"} /\ subPc' = [subPc EXCEPT ![s] = to]
      /\ UNCHANGED <<listVars, kind, list, index, pubVars, msgChan, fwdVars>>
  BY DEF CloseReader, CloseReturns, Life, chanVars
<1>2. /\ msgClosed' \subseteq msgClosed \cup {s}
      /\ ~panicked'
  <2>1. CASE CloseReader(s)
    <3>1. s \notin msgClosed /\ ~panicked
      BY <2>1 DEF CloseReader, Life, Closed
    <3> QED
      BY <2>1, <3>1 DEF CloseReader
  <2>2. CASE CloseReturns(s)
    BY <2>2 DEF CloseReturns, chanVars, Closed
  <2> QED
    BY <2>1, <2>2
<1>3. \A t \in Subs : subPc'[t] = IF t = s THEN to ELSE subPc[t]
  BY <1>1 DEF BusTypeOK
<1>4. to \in {"wait", "closed"}
  OBVIOUS
<1>5. subPc[s] \notin Seated /\ to \notin Seated
  BY <1>1, <1>4 DEF Seated
<1> HIDE DEF to
<1>6. BusTypeOK'
  <2>1. subPc' \in [Subs -> {"idle", "subscribing", "open", "canceled", "unsub",
                             "removed", "wait", "closed"}]
    BY <1>1, <1>4 DEF BusTypeOK
  <2>2. msgClosed' \subseteq Subs /\ panicked' \in BOOLEAN
    <3>1. msgClosed \subseteq Subs /\ panicked' = FALSE
      BY <1>2 DEF BusTypeOK
    <3> QED
      BY <1>2, <3>1
  <2> QED
    BY <1>1, <2>1, <2>2 DEF BusTypeOK, listVars, pubVars, fwdVars
<1>7. Locked'
  <2>1. lOwner # s
    BY <1>1, BusConstants DEF Locked
  <2>2. lOwner # None => lOwner \in Subs
    BY DEF BusTypeOK
  <2> QED
    BY <1>1, <1>3, <1>4, <2>1, <2>2 DEF Locked, listVars
<1>8. Mapped'
  <2>1. Begun' = Begun /\ \A h \in Lists : Seats(h)' = Seats(h)
    BY <1>1, <1>3, <1>5 DEF Begun, Seats
  <2>2. \A t \in Subs : subPc'[t] \in Seated \cup {"subscribing"} => mapped'[kind'[t]] = list'[t]
    BY <1>1, <1>3, <1>4, <1>5 DEF Mapped, listVars
  <2> QED
    BY <1>1, <2>1, <2>2 DEF Mapped, listVars
<1>9. Slotted'
  <2>1. \A h \in Lists : \A i \in DOMAIN slots[h] : slots[h][i] # None => slots[h][i] \in Subs
    BY DEF BusTypeOK
  <2> QED
    BY <1>1, <1>3, <1>5, <2>1 DEF Slotted, listVars
<1>10. Writing' /\ Delivering'
  <2>1. \A p \in Publishers : s \notin writes[p]
    BY <1>5 DEF Writing
  <2> QED
    BY <1>1, <1>3, <1>4, <2>1, PublishersFrame DEF Closing
<1>11. Closed'
  BY <1>2, <1>3, <1>4 DEF Closed, BusTypeOK
<1> QED
  BY <1>6, <1>7, <1>8, <1>9, <1>10, <1>11

-----------------------------------------------------------------------------
(* What a step of one publisher needs to keep for the others.                  *)
LEMMA OtherPublishers ==
  ASSUME BusTypeOK, Writing, Delivering, NEW p \in Publishers, UNCHANGED lifeVars,
         \A q \in Publishers : q # p =>
             /\ pubPc'[q] = pubPc[q] /\ todo'[q] = todo[q] /\ writes'[q] = writes[q]
             /\ known'[q] = known[q] /\ got'[q] = got[q],
         pubPc'[p] # "write" => writes'[p] = {},
         pubPc'[p] = "idle" => known'[p] = {} /\ got'[p] = {},
         pubPc'[p] # "idle" => todo'[p] # <<>>,
         pubPc'[p] # "idle" => \A i \in DOMAIN todo'[p] : \E s \in Subs : list[s] = todo'[p][i],
         \A s \in writes'[p] : list[s] = Head(todo'[p]) /\ subPc[s] \in Seated,
         pubPc'[p] # "idle" => Delivers(p)'
  PROVE  Writing' /\ Delivering'
<1> USE DEF lifeVars
<1>1. Writing'
  BY DEF Writing
<1>2. ASSUME NEW q \in Publishers, q # p, pubPc[q] # "idle"
      PROVE  Delivers(q)'
  <2>1. Delivers(q)
    BY <1>2 DEF Delivering
  <2>2. /\ \A g : Ahead(q, g)' <=> Ahead(q, g)
        /\ \A g : QueueList(g)' <=> QueueList(g)
        /\ Members' = Members
        /\ \A s \in Subs : Closing(s)' <=> Closing(s)
        /\ Members \subseteq Subs
    BY <1>2 DEF Ahead, QueueList, Members, Closing
  <2>3. /\ todo'[q] = todo[q] /\ writes'[q] = writes[q] /\ known'[q] = known[q]
        /\ got'[q] = got[q] /\ subPc' = subPc /\ kind' = kind /\ list' = list
    BY <1>2
  <2> QED
    BY <2>1, <2>2, <2>3 DEF Delivers
<1>3. Delivering'
  BY <1>2 DEF Delivering
<1> QED
  BY <1>1, <1>3

(* What a publication finds in the map.                                        *)
LEMMA WhatIsFound ==
  ASSUME BusTypeOK, Mapped
  PROVE  /\ LookedUp \in Seq(Lists)
         /\ \A i \in DOMAIN LookedUp : \E k \in Kinds : LookedUp[i] = mapped[k] /\ mapped[k] # None
         /\ \A k \in Kinds : mapped[k] # None => \E i \in DOMAIN LookedUp : LookedUp[i] = mapped[k]
         /\ \A i, j \in DOMAIN LookedUp :
               LookedUp[i] = mapped["queues"] /\ LookedUp[j] = mapped["queues"] => i = j
         /\ LookedUp = <<>> => \A k \in Kinds : mapped[k] = None
<1> DEFINE x == mapped["subs"]
           y == mapped["queues"]
<1>1. x \in Lists \cup {None} /\ y \in Lists \cup {None} /\ (x # None => x # y)
      /\ (\A k \in Kinds : mapped[k] = x \/ mapped[k] = y)
      /\ "subs" \in Kinds /\ "queues" \in Kinds
  BY DEF BusTypeOK, Mapped, Kinds
<1>2. CASE x = None /\ y = None
  <2>1. LookedUp = <<>>
    BY <1>2 DEF LookedUp, Found
  <2> QED
    BY <1>1, <1>2, <2>1
<1>3. CASE x # None /\ y = None
  <2>1. LookedUp = <<x>>
    BY <1>3 DEF LookedUp, Found
  <2>2. /\ x \in Lists /\ LookedUp \in Seq(Lists) /\ DOMAIN LookedUp = {1} /\ LookedUp[1] = x
        /\ LookedUp # <<>>
    BY <1>1, <1>3, <2>1
  <2> QED
    BY <1>3, <2>2 DEF Kinds
<1>4. CASE x = None /\ y # None
  <2>1. LookedUp = <<y>>
    BY <1>4 DEF LookedUp, Found
  <2>2. /\ y \in Lists /\ LookedUp \in Seq(Lists) /\ DOMAIN LookedUp = {1} /\ LookedUp[1] = y
        /\ LookedUp # <<>>
    BY <1>1, <1>4, <2>1
  <2>3. \A k \in Kinds : mapped[k] # None => mapped[k] = y
    BY <1>4 DEF Kinds
  <2>4. \A k \in Kinds : mapped[k] # None => \E i \in DOMAIN LookedUp : LookedUp[i] = mapped[k]
    BY <2>2, <2>3
  <2>5. \A i \in DOMAIN LookedUp : LookedUp[i] = mapped["queues"] /\ mapped["queues"] # None
    BY <1>4, <2>2
  <2>6. \A i \in DOMAIN LookedUp : \E k \in Kinds : LookedUp[i] = mapped[k] /\ mapped[k] # None
    BY <2>5 DEF Kinds
  <2>7. \A i, j \in DOMAIN LookedUp : i = j
    BY <2>2
  <2> QED
    BY <2>2, <2>4, <2>6, <2>7
<1>5. CASE x # None /\ y # None
  <2>1. x \in Lists /\ y \in Lists /\ x # y
    BY <1>1, <1>5
  <2>2. LookedUp = <<x>> \o <<y>>
    BY <1>5 DEF LookedUp, Found
  <2>3. <<x>> \in Seq(Lists) /\ <<y>> \in Seq(Lists) /\ Len(<<x>>) = 1 /\ Len(<<y>>) = 1
    BY <2>1
  <2>4. /\ LookedUp \in Seq(Lists) /\ Len(LookedUp) = 2
        /\ LookedUp[1] = x /\ LookedUp[2] = y
    BY <2>2, <2>3
  <2>5. DOMAIN LookedUp = {1, 2} /\ LookedUp # <<>>
    BY <2>4
  <2>6. \A k \in Kinds : \E i \in DOMAIN LookedUp : LookedUp[i] = mapped[k]
    BY <1>1, <2>4, <2>5
  <2>7. \A i \in DOMAIN LookedUp : \E k \in Kinds : LookedUp[i] = mapped[k] /\ mapped[k] # None
    <3>1. LookedUp[1] = mapped["subs"] /\ mapped["subs"] # None
      BY <1>5, <2>4
    <3>2. LookedUp[2] = mapped["queues"] /\ mapped["queues"] # None
      BY <1>5, <2>4
    <3> QED
      BY <2>5, <3>1, <3>2 DEF Kinds
  <2>8. \A i, j \in DOMAIN LookedUp :
            LookedUp[i] = mapped["queues"] /\ LookedUp[j] = mapped["queues"] => i = j
    BY <2>1, <2>4, <2>5
  <2> QED
    BY <2>4, <2>5, <2>6, <2>7, <2>8
<1> QED
  BY <1>2, <1>3, <1>4, <1>5

(* Publish: each open subscription is in a list that it has found.             *)
LEMMA PublishKeeps ==
  ASSUME BusInv, NEW p \in Publishers, Publish(p)
  PROVE  BusInv'
<1> USE DEF BusInv
<1>1. /\ pubPc[p] = "idle" /\ lOwner = None
      /\ todo' = [todo EXCEPT ![p] = LookedUp]
      /\ UNCHANGED <<writes, listVars, lifeVars, chanVars, fwdVars>>
  BY DEF Publish
<1>2. Locked' /\ Mapped' /\ Slotted'
  BY <1>1, ListsFrame DEF listVars
<1>3. Closed'
  BY <1>1 DEF Closed, chanVars, lifeVars
<1>4. writes' = [writes EXCEPT ![p] = {}] /\ writes[p] = {} /\ known[p] = {} /\ got[p] = {}
  BY <1>1 DEF Writing, BusTypeOK
<1>5. CASE LookedUp = <<>>
  <2>1. /\ pubPc' = [pubPc EXCEPT ![p] = "idle"]
        /\ published' = [published EXCEPT ![p] = @ + 1]
        /\ known' = [known EXCEPT ![p] = {}]
        /\ got' = [got EXCEPT ![p] = {}]
    BY <1>5 DEF Publish, PublishDone
  <2>2. BusTypeOK'
    <3>1. /\ pubPc' \in [Publishers -> {"idle", "dispatch", "write"}]
          /\ published' \in [Publishers -> Nat]
          /\ known' \in [Publishers -> SUBSET Subs]
          /\ got' \in [Publishers -> SUBSET Subs]
      BY <2>1 DEF BusTypeOK
    <3>2. todo' \in [Publishers -> Seq(Lists)]
      BY <1>1, WhatIsFound DEF BusTypeOK
    <3> QED
      BY <1>1, <3>1, <3>2 DEF BusTypeOK, listVars, lifeVars, chanVars, fwdVars
  <2>3. Writing' /\ Delivering'
    <3>1. /\ pubPc'[p] = "idle" /\ known'[p] = {} /\ got'[p] = {} /\ writes'[p] = {}
          /\ \A q \in Publishers : q # p =>
              /\ pubPc'[q] = pubPc[q] /\ todo'[q] = todo[q] /\ writes'[q] = writes[q]
              /\ known'[q] = known[q] /\ got'[q] = got[q]
      BY <1>1, <1>4, <2>1 DEF BusTypeOK
    <3> QED
      BY <1>1, <3>1, OtherPublishers
  <2> QED
    BY <1>2, <1>3, <2>2, <2>3
<1>6. CASE LookedUp # <<>>
  <2> DEFINE open == {s \in Subs : subPc[s] = "open"}
  <2>1. /\ pubPc' = [pubPc EXCEPT ![p] = "dispatch"]
        /\ known' = [known EXCEPT ![p] = open]
        /\ UNCHANGED <<published, got>>
    BY <1>6 DEF Publish
  <2>2. BusTypeOK'
    <3>1. /\ pubPc' \in [Publishers -> {"idle", "dispatch", "write"}]
          /\ known' \in [Publishers -> SUBSET Subs]
      BY <2>1 DEF BusTypeOK
    <3>2. todo' \in [Publishers -> Seq(Lists)]
      BY <1>1, WhatIsFound DEF BusTypeOK
    <3> QED
      BY <1>1, <2>1, <3>1, <3>2 DEF BusTypeOK, listVars, lifeVars, chanVars, fwdVars
  <2>3. \A i \in DOMAIN LookedUp : \E s \in Subs : list[s] = LookedUp[i]
    BY WhatIsFound DEF Mapped
  <2>4. got' = [got EXCEPT ![p] = {}]
    BY <1>4, <2>1 DEF BusTypeOK
  <2>5. /\ pubPc'[p] = "dispatch" /\ todo'[p] = LookedUp /\ known'[p] = open
        /\ got'[p] = {} /\ writes'[p] = {} /\ subPc' = subPc /\ kind' = kind /\ list' = list
    BY <1>1, <1>4, <2>1, <2>4 DEF BusTypeOK, lifeVars
  <2>6. ASSUME NEW s \in open
        PROVE  Ahead(p, list[s])'
    <3>1. mapped[kind[s]] = list[s] /\ kind[s] \in Kinds /\ list[s] # None
      BY BusAssumption DEF Mapped, Locked, BusTypeOK, Seated
    <3>2. \E i \in DOMAIN LookedUp : LookedUp[i] = list[s]
      BY <3>1, WhatIsFound
    <3> QED
      BY <2>5, <3>2 DEF Ahead
  <2>7. ASSUME NEW i \in DOMAIN LookedUp, QueueList(LookedUp[i])
        PROVE  LookedUp[i] = mapped["queues"]
    <3>1. PICK k \in Kinds : LookedUp[i] = mapped[k] /\ mapped[k] # None
      BY WhatIsFound
    <3>2. PICK s \in Subs : list[s] = mapped[k] /\ kind[s] = "queues"
      BY <2>7, <3>1 DEF QueueList
    <3> QED
      BY <3>1, <3>2 DEF Mapped
  <2>8. Delivers(p)'
    <3>1. \A i, j \in DOMAIN LookedUp : QueueList(LookedUp[i]) /\ QueueList(LookedUp[j]) => i = j
      BY <2>7, WhatIsFound
    <3>2. \A g : QueueList(g)' <=> QueueList(g)
      BY <2>5 DEF QueueList
    <3>3. \A i, j \in DOMAIN todo'[p] : QueueList(todo[p][i])' /\ QueueList(todo[p][j])' => i = j
      BY <2>5, <3>1, <3>2
    <3> QED
      BY <2>5, <2>6, <3>3 DEF Delivers
  <2>9. Writing' /\ Delivering'
    <3>1. \A q \in Publishers : q # p =>
              /\ pubPc'[q] = pubPc[q] /\ todo'[q] = todo[q] /\ writes'[q] = writes[q]
              /\ known'[q] = known[q] /\ got'[q] = got[q]
      BY <1>1, <2>1 DEF BusTypeOK
    <3> QED
      BY <1>1, <1>6, <2>3, <2>5, <2>8, <3>1, OtherPublishers
  <2> QED
    BY <1>2, <1>3, <2>2, <2>9
<1> QED
  BY <1>5, <1>6

(* dispatch: everyone in the list of subscribers, one in that of a queue.      *)
LEMMA DispatchKeeps ==
  ASSUME BusInv, NEW p \in Publishers, Dispatch(p)
  PROVE  BusInv'
<1>0. PICK g : g = Head(todo[p])
  OBVIOUS
<1> USE <1>0 DEF BusInv
<1>1. /\ pubPc[p] = "dispatch" /\ pubPc' = [pubPc EXCEPT ![p] = "write"]
      /\ UNCHANGED <<todo, published, known, got, lOwner, mapped, created, slots, subCount>>
      /\ UNCHANGED <<lifeVars, chanVars, fwdVars>>
  BY DEF Dispatch
<1>2. /\ todo[p] \in Seq(Lists) /\ todo[p] # <<>> /\ g \in Lists
      /\ 1 \in DOMAIN todo[p] /\ g = todo[p][1]
      /\ writes[p] = {} /\ slots[g] \in Seq(Subs \cup {None}) /\ next[g] \in Nat
  <2>1. todo[p] \in Seq(Lists) /\ todo[p] # <<>> /\ writes[p] = {}
    BY <1>1 DEF Writing, BusTypeOK
  <2>2. g \in Lists /\ 1 \in DOMAIN todo[p] /\ g = todo[p][1]
    BY <2>1
  <2> QED
    BY <2>1, <2>2 DEF BusTypeOK
<1>3. PICK c : /\ writes' = [writes EXCEPT ![p] = c]
               /\ ~QueueList(g) => c = {slots[g][i] : i \in Live(g)}
               /\ QueueList(g) => \/ Live(g) = {} /\ c = {}
                                  \/ \E i \in Live(g) : c = {slots[g][i]}
               /\ \E n \in Nat : next' = [next EXCEPT ![g] = n]
  <2>1. CASE ~QueueList(g)
    <3>1. /\ writes' = [writes EXCEPT ![p] = {slots[g][i] : i \in Live(g)}] /\ next' = next
      BY <2>1 DEF Dispatch
    <3>2. next' = [next EXCEPT ![g] = next[g]]
      BY <3>1 DEF BusTypeOK
    <3> QED
      BY <1>2, <2>1, <3>1, <3>2
  <2>2. CASE QueueList(g) /\ writes' = [writes EXCEPT ![p] = {}] /\ Live(g) = {}
             /\ next' = [next EXCEPT ![g] = Start(g) + 1]
    <3>1. Start(g) + 1 \in Nat
      BY <1>2 DEF Start
    <3> QED
      BY <2>2, <3>1
  <2>3. ASSUME QueueList(g), NEW i \in Live(g), writes' = [writes EXCEPT ![p] = {slots[g][i]}],
               next' = [next EXCEPT ![g] = i]
        PROVE  /\ writes' = [writes EXCEPT ![p] = {slots[g][i]}]
               /\ next' = [next EXCEPT ![g] = i] /\ i \in Nat
    BY <1>2, <2>3 DEF Live
  <2> QED
    BY <2>1, <2>2, <2>3 DEF Dispatch
<1>4. \A i \in Live(g) : /\ slots[g][i] \in Subs /\ list[slots[g][i]] = g
                         /\ subPc[slots[g][i]] \in Seated
  BY <1>2 DEF Live, Slotted
<1>5. \A s \in c : s \in Subs /\ list[s] = g /\ subPc[s] \in Seated
  BY <1>3, <1>4
<1>6. \A s \in Subs : list[s] = g /\ subPc[s] \in Seated =>
          index[s] \in Live(g) /\ slots[g][index[s]] = s
  BY <1>2, BusConstants DEF Live, Slotted
<1>7. /\ QueueList(g) => \A s \in Subs : list[s] = g => s \in Members
      /\ ~QueueList(g) => \A s \in Subs : list[s] = g => s \notin Members
  BY <1>2, BusConstants DEF QueueList, Members, Mapped
<1>8. BusTypeOK'
  <2>1. /\ pubPc' \in [Publishers -> {"idle", "dispatch", "write"}]
        /\ writes' \in [Publishers -> SUBSET Subs]
    BY <1>1, <1>3, <1>5 DEF BusTypeOK
  <2>2. next' \in [Lists -> Nat]
    BY <1>3 DEF BusTypeOK
  <2> QED
    BY <1>1, <2>1, <2>2 DEF BusTypeOK, lifeVars, chanVars, fwdVars
<1>9. Locked' /\ Mapped' /\ Slotted'
  BY <1>1, ListsFrame
<1>10. Closed'
  BY <1>1 DEF Closed, chanVars, lifeVars
<1>11. /\ pubPc'[p] = "write" /\ writes'[p] = c
       /\ todo' = todo /\ known' = known /\ got' = got
       /\ subPc' = subPc /\ kind' = kind /\ list' = list
       /\ \A q \in Publishers : q # p => pubPc'[q] = pubPc[q] /\ writes'[q] = writes[q]
  BY <1>1, <1>3 DEF BusTypeOK, lifeVars
<1>12. /\ \A h : Ahead(p, h)' <=> \E i \in DOMAIN todo[p] : todo[p][i] = h /\ i # 1
       /\ \A h : Ahead(p, h) <=> \E i \in DOMAIN todo[p] : todo[p][i] = h
       /\ \A h : QueueList(h)' <=> QueueList(h)
       /\ Members' = Members /\ Members \subseteq Subs
       /\ \A s \in Subs : Closing(s)' <=> Closing(s)
  BY <1>1, <1>11 DEF Ahead, QueueList, Members, Closing
<1>13. /\ \A h : Ahead(p, h) => Ahead(p, h)' \/ h = g
       /\ \A h : Ahead(p, h)' => Ahead(p, h)
       /\ Ahead(p, g)
  BY <1>2, <1>12
<1>14. Delivers(p) /\ known[p] \subseteq Subs /\ got[p] \subseteq Subs
  BY <1>1 DEF Delivering, BusTypeOK
<1>15. Delivers(p)'
  <2>1. ASSUME NEW s \in known[p], kind[s] = "subs", subPc[s] = "open"
        PROVE  s \in got[p] \/ s \in c \/ Ahead(p, list[s])'
    <3>1. CASE list[s] # g
      BY <1>2, <1>11, <1>13, <1>14, <2>1, <3>1 DEF Delivers
    <3>2. CASE list[s] = g
      <4>1. s \in Subs /\ s \notin Members /\ subPc[s] \in Seated
        BY <1>14, <2>1 DEF Members, Seated
      <4>2. ~QueueList(g)
        BY <1>7, <3>2, <4>1
      <4> QED
        BY <1>3, <1>6, <3>2, <4>1, <4>2
    <3> QED
      BY <3>1, <3>2
  <2>2. \A i, j \in DOMAIN todo'[p] : QueueList(todo[p][i])' /\ QueueList(todo[p][j])' => i = j
    BY <1>11, <1>12, <1>14 DEF Delivers
  <2>3. CASE QueueList(g)
    <3>1. got[p] \cap Members = {}
      BY <1>2, <1>13, <1>14, <2>3 DEF Delivers
    <3>2. \A s, t \in c : s = t
      BY <1>3, <2>3
    <3>3. \A h \in Lists : ~(Ahead(p, h)' /\ QueueList(h))
      BY <1>2, <1>12, <1>14, <2>3 DEF Delivers
    <3>4. ASSUME known[p] \cap Members # {}, \A s \in Members : ~Closing(s)
          PROVE  (got[p] \cup c) \cap Members # {} \/ \E s \in known[p] \cap Members : Ahead(p, list[s])'
      <4>1. PICK s \in known[p] \cap Members : Ahead(p, list[s])
        BY <1>2, <1>14, <3>1, <3>4 DEF Delivers
      <4>2. CASE list[s] # g
        BY <1>11, <1>13, <4>1, <4>2
      <4>3. CASE list[s] = g
        <5>1. s \in Subs /\ subPc[s] \in Seated
          BY <1>14, <3>4, <4>1 DEF Delivers, Closing, Seated, BusTypeOK
        <5>2. Live(g) # {}
          BY <1>6, <4>3, <5>1
        <5>3. PICK t : t \in c
          BY <1>3, <2>3, <5>2
        <5>4. t \in Members
          BY <1>5, <1>7, <2>3, <5>3
        <5> QED
          BY <5>3, <5>4
      <4> QED
        BY <4>2, <4>3
    <3> QED
      BY <1>11, <1>12, <1>14, <2>1, <2>2, <3>1, <3>2, <3>3, <3>4 DEF Delivers
  <2>4. CASE ~QueueList(g)
    <3>1. c \cap Members = {}
      BY <1>5, <1>7, <2>4
    <3>2. \A s, t \in (got[p] \cup c) \cap Members : s = t
      BY <1>14, <3>1 DEF Delivers
    <3>3. \A h \in Lists : Ahead(p, h)' /\ QueueList(h) => (got[p] \cup c) \cap Members = {}
      BY <1>13, <1>14, <3>1 DEF Delivers
    <3>4. ASSUME known[p] \cap Members # {}, \A s \in Members : ~Closing(s)
          PROVE  (got[p] \cup c) \cap Members # {} \/ \E s \in known[p] \cap Members : Ahead(p, list[s])'
      <4>1. CASE got[p] \cap Members # {}
        BY <4>1
      <4>2. CASE got[p] \cap Members = {}
        <5>1. PICK s \in known[p] \cap Members : Ahead(p, list[s])
          BY <1>2, <1>14, <3>4, <4>2 DEF Delivers
        <5>2. list[s] # g
          BY <1>7, <1>12, <2>4, <5>1
        <5> QED
          BY <1>11, <1>13, <5>1, <5>2
      <4> QED
        BY <4>1, <4>2
    <3> QED
      BY <1>11, <1>12, <1>14, <2>1, <2>2, <3>2, <3>3, <3>4 DEF Delivers
  <2> QED
    BY <2>3, <2>4
<1>16. Writing' /\ Delivering'
  <2>1. \A i \in DOMAIN todo[p] : \E s \in Subs : list[s] = todo[p][i]
    BY <1>1 DEF Writing
  <2> QED
    BY <1>1, <1>2, <1>5, <1>11, <1>15, <2>1, OtherPublishers
<1> QED
  BY <1>8, <1>9, <1>10, <1>16

(* write: what it sends to is in a slot, so its channel is not closed.         *)
LEMMA WriteKeeps ==
  ASSUME BusInv, NEW p \in Publishers, Write(p) \/ Skip(p)
  PROVE  BusInv'
<1> USE DEF BusInv
<1>1. PICK s \in Subs :
        /\ s \in writes[p]
        /\ writes' = [writes EXCEPT ![p] = @ \ {s}]
        /\ \/ /\ s \in msgClosed \/ msgChan[s] < Size
              /\ msgChan' = [msgChan EXCEPT ![s] = IF s \in msgClosed THEN @ ELSE @ + 1]
              /\ got' = [got EXCEPT ![p] = @ \cup {s}]
              /\ panicked' = (panicked \/ s \in msgClosed)
           \/ Closing(s) /\ UNCHANGED <<msgChan, got, panicked>>
  BY DEF Write, Skip, Earliest, chanVars
<1>2. /\ pubPc[p] = "write"
      /\ UNCHANGED <<msgClosed, pubPc, todo, published, known, listVars, lifeVars, fwdVars>>
  BY DEF Write, Skip, chanVars
<1>3. s \notin msgClosed
  BY <1>1 DEF Writing, Closed, Seated
<1>4. ~panicked /\ (panicked' = FALSE \/ panicked' = panicked)
  BY <1>1, <1>3 DEF Closed
<1>5. PICK e : /\ got' = [got EXCEPT ![p] = e]
               /\ e = got[p] \cup {s} \/ (e = got[p] /\ Closing(s))
  <2>1. CASE got' = [got EXCEPT ![p] = @ \cup {s}]
    BY <2>1
  <2>2. CASE Closing(s) /\ got' = got
    <3>1. got' = [got EXCEPT ![p] = got[p]]
      BY <2>2 DEF BusTypeOK
    <3> QED
      BY <2>2, <3>1
  <2> QED
    BY <1>1, <2>1, <2>2
<1>6. BusTypeOK'
  <2>1. /\ writes' \in [Publishers -> SUBSET Subs]
        /\ got' \in [Publishers -> SUBSET Subs]
    BY <1>1, <1>5 DEF BusTypeOK
  <2>2. msgChan' \in [Subs -> 0..Size]
    <3>1. CASE UNCHANGED msgChan
      BY <3>1 DEF BusTypeOK
    <3>2. CASE msgChan[s] < Size /\ msgChan' = [msgChan EXCEPT ![s] = @ + 1]
      <4>1. msgChan[s] + 1 \in 0..Size
        BY <3>2, BusAssumption DEF BusTypeOK
      <4> QED
        BY <3>2, <4>1 DEF BusTypeOK
    <3> QED
      BY <1>1, <1>3, <3>1, <3>2
  <2>3. panicked' \in BOOLEAN
    BY <1>4 DEF BusTypeOK
  <2> QED
    BY <1>2, <2>1, <2>2, <2>3 DEF BusTypeOK, listVars, lifeVars, fwdVars
<1>7. Locked' /\ Mapped' /\ Slotted'
  BY <1>2, ListsFrame DEF listVars
<1>8. Closed'
  BY <1>2, <1>4 DEF Closed, lifeVars
<1>9. /\ pubPc'[p] = "write" /\ writes'[p] = writes[p] \ {s} /\ got'[p] = e
      /\ pubPc' = pubPc /\ todo' = todo /\ known' = known
      /\ subPc' = subPc /\ kind' = kind /\ list' = list
      /\ \A q \in Publishers : q # p => got'[q] = got[q] /\ writes'[q] = writes[q]
  BY <1>1, <1>2, <1>5 DEF BusTypeOK, lifeVars
<1>10. /\ \A h : Ahead(p, h)' <=> Ahead(p, h)
       /\ \A h : QueueList(h)' <=> QueueList(h)
       /\ Members' = Members /\ Members \subseteq Subs
       /\ \A t \in Subs : Closing(t)' <=> Closing(t)
  BY <1>9 DEF Ahead, QueueList, Members, Closing
<1>11. /\ e \cup (writes[p] \ {s}) \subseteq got[p] \cup writes[p]
       /\ \A t \in got[p] \cup writes[p] : t \in e \cup (writes[p] \ {s}) \/ (t = s /\ Closing(s))
  BY <1>1, <1>5
<1>12. Delivers(p) /\ known[p] \subseteq Subs
  BY <1>2 DEF Delivering, BusTypeOK
<1>13. Delivers(p)'
  <2>1. ASSUME NEW t \in known[p], kind[t] = "subs", subPc[t] = "open"
        PROVE  t \in e \/ t \in writes[p] \ {s} \/ Ahead(p, list[t])'
    <3>1. t \in got[p] \cup writes[p] \/ Ahead(p, list[t])
      BY <1>12, <2>1 DEF Delivers
    <3>2. t = s => ~Closing(s)
      BY <2>1 DEF Closing
    <3> QED
      BY <1>9, <1>10, <1>11, <3>1, <3>2
  <2>2. \A i, j \in DOMAIN todo'[p] : QueueList(todo[p][i])' /\ QueueList(todo[p][j])' => i = j
    BY <1>9, <1>10, <1>12 DEF Delivers
  <2>3. \A t, u \in (e \cup (writes[p] \ {s})) \cap Members : t = u
    BY <1>11, <1>12 DEF Delivers
  <2>4. \A g \in Lists : Ahead(p, g) /\ QueueList(g) =>
            (e \cup (writes[p] \ {s})) \cap Members = {}
    BY <1>11, <1>12 DEF Delivers
  <2>5. ASSUME known[p] \cap Members # {}, \A t \in Members : ~Closing(t)
        PROVE  \/ (e \cup (writes[p] \ {s})) \cap Members # {}
               \/ \E t \in known[p] \cap Members : Ahead(p, list[t])'
    <3>1. CASE (got[p] \cup writes[p]) \cap Members # {}
      BY <1>11, <2>5, <3>1
    <3>2. CASE \E t \in known[p] \cap Members : Ahead(p, list[t])
      BY <1>9, <1>10, <3>2
    <3> QED
      BY <1>12, <2>5, <3>1, <3>2 DEF Delivers
  <2> QED
    BY <1>9, <1>10, <1>12, <2>1, <2>2, <2>3, <2>4, <2>5 DEF Delivers
<1>14. Writing' /\ Delivering'
  <2>1. \A i \in DOMAIN todo[p] : \E t \in Subs : list[t] = todo[p][i]
    BY <1>2 DEF Writing
  <2>2. todo[p] # <<>> /\ \A t \in writes[p] : list[t] = Head(todo[p]) /\ subPc[t] \in Seated
    BY <1>2 DEF Writing
  <2> QED
    BY <1>2, <1>9, <1>13, <2>1, <2>2, OtherPublishers
<1> QED
  BY <1>6, <1>7, <1>8, <1>14

(* The lock is released: on to the next list, or Publish returns.              *)
LEMMA UnlockKeeps ==
  ASSUME BusInv, NEW p \in Publishers, Unlock(p)
  PROVE  BusInv'
<1> USE DEF BusInv
<1>1. /\ pubPc[p] = "write" /\ writes[p] = {} /\ todo' = [todo EXCEPT ![p] = Tail(@)]
      /\ UNCHANGED <<writes, listVars, lifeVars, chanVars, fwdVars>>
  BY DEF Unlock
<1>2. /\ todo[p] \in Seq(Lists) /\ todo[p] # <<>> /\ Len(todo[p]) \in Nat /\ Len(todo[p]) > 0
      /\ Tail(todo[p]) \in Seq(Lists) /\ Len(Tail(todo[p])) = Len(todo[p]) - 1
      /\ DOMAIN todo[p] = 1..Len(todo[p]) /\ DOMAIN Tail(todo[p]) = 1..(Len(todo[p]) - 1)
      /\ \A i \in DOMAIN Tail(todo[p]) : i + 1 \in DOMAIN todo[p] /\ Tail(todo[p])[i] = todo[p][i + 1]
  <2>1. todo[p] \in Seq(Lists) /\ todo[p] # <<>>
    BY <1>1 DEF Writing, BusTypeOK
  <2> QED
    BY <2>1
<1>3. Locked' /\ Mapped' /\ Slotted'
  BY <1>1, ListsFrame DEF listVars
<1>4. Closed'
  BY <1>1 DEF Closed, chanVars, lifeVars
<1>5. todo' \in [Publishers -> Seq(Lists)]
  BY <1>1, <1>2 DEF BusTypeOK
<1>6. CASE Len(todo[p]) = 1
  <2>1. /\ pubPc' = [pubPc EXCEPT ![p] = "idle"]
        /\ published' = [published EXCEPT ![p] = @ + 1]
        /\ known' = [known EXCEPT ![p] = {}]
        /\ got' = [got EXCEPT ![p] = {}]
    BY <1>6 DEF Unlock, PublishDone
  <2>2. BusTypeOK'
    <3>1. /\ pubPc' \in [Publishers -> {"idle", "dispatch", "write"}]
          /\ published' \in [Publishers -> Nat]
          /\ known' \in [Publishers -> SUBSET Subs]
          /\ got' \in [Publishers -> SUBSET Subs]
      BY <2>1 DEF BusTypeOK
    <3> QED
      BY <1>1, <1>5, <3>1 DEF BusTypeOK, listVars, lifeVars, chanVars, fwdVars
  <2>3. /\ pubPc'[p] = "idle" /\ known'[p] = {} /\ got'[p] = {} /\ writes'[p] = {}
        /\ \A q \in Publishers : q # p =>
            /\ pubPc'[q] = pubPc[q] /\ todo'[q] = todo[q] /\ writes'[q] = writes[q]
            /\ known'[q] = known[q] /\ got'[q] = got[q]
    BY <1>1, <2>1 DEF BusTypeOK
  <2>4. Writing' /\ Delivering'
    BY <1>1, <2>3, OtherPublishers
  <2> QED
    BY <1>3, <1>4, <2>2, <2>4
<1>7. CASE Len(todo[p]) # 1
  <2>1. pubPc' = [pubPc EXCEPT ![p] = "dispatch"] /\ UNCHANGED <<published, known, got>>
    BY <1>7 DEF Unlock
  <2>2. BusTypeOK'
    <3>1. pubPc' \in [Publishers -> {"idle", "dispatch", "write"}]
      BY <2>1 DEF BusTypeOK
    <3> QED
      BY <1>1, <1>5, <2>1, <3>1 DEF BusTypeOK, listVars, lifeVars, chanVars, fwdVars
  <2>3. /\ pubPc'[p] = "dispatch" /\ todo'[p] = Tail(todo[p]) /\ known' = known /\ got' = got
        /\ writes' = writes /\ subPc' = subPc /\ kind' = kind /\ list' = list
        /\ \A q \in Publishers : q # p => pubPc'[q] = pubPc[q] /\ todo'[q] = todo[q]
    BY <1>1, <2>1 DEF BusTypeOK, lifeVars
  <2>4. Tail(todo[p]) # <<>>
    <3>1. Len(Tail(todo[p])) # 0
      BY <1>2, <1>7
    <3>2. Len(<<>>) = 0
      OBVIOUS
    <3> QED
      BY <3>1, <3>2
  <2>5. /\ \A h : QueueList(h)' <=> QueueList(h)
        /\ Members' = Members /\ Members \subseteq Subs
        /\ \A t \in Subs : Closing(t)' <=> Closing(t)
    BY <2>3 DEF QueueList, Members, Closing
  <2>6. ASSUME NEW h
        PROVE  Ahead(p, h)' <=> Ahead(p, h)
    <3>1. ASSUME Ahead(p, h)
          PROVE  Ahead(p, h)'
      <4>1. PICK i \in DOMAIN todo[p] : todo[p][i] = h /\ i # 1
        BY <1>1, <3>1 DEF Ahead
      <4>2. i - 1 \in DOMAIN Tail(todo[p]) /\ Tail(todo[p])[i - 1] = h
        BY <1>2, <4>1
      <4> QED
        BY <2>3, <4>2 DEF Ahead
    <3>2. ASSUME Ahead(p, h)'
          PROVE  Ahead(p, h)
      <4>1. PICK i \in DOMAIN Tail(todo[p]) : Tail(todo[p])[i] = h
        BY <2>3, <3>2 DEF Ahead
      <4>2. i + 1 \in DOMAIN todo[p] /\ todo[p][i + 1] = h /\ i + 1 # 1
        BY <1>2, <4>1
      <4> QED
        BY <4>2 DEF Ahead
    <3> QED
      BY <3>1, <3>2
  <2>7. Delivers(p) /\ known[p] \subseteq Subs
    BY <1>1 DEF Delivering, BusTypeOK
  <2>8. Delivers(p)'
    <3>1. ASSUME NEW i \in DOMAIN todo'[p], NEW j \in DOMAIN todo'[p],
                 QueueList(todo[p][i])', QueueList(todo[p][j])'
          PROVE  i = j
      <4>1. /\ i + 1 \in DOMAIN todo[p] /\ QueueList(todo[p][i + 1])
            /\ j + 1 \in DOMAIN todo[p] /\ QueueList(todo[p][j + 1])
        BY <1>2, <2>3, <2>5, <3>1
      <4>2. i + 1 = j + 1
        BY <2>7, <4>1 DEF Delivers
      <4> QED
        BY <1>2, <2>3, <4>2
    <3>2. \A t \in known[p] : Ahead(p, list[t])' <=> Ahead(p, list[t])
      BY <2>3, <2>6
    <3> QED
      BY <2>3, <2>5, <2>6, <2>7, <3>1, <3>2 DEF Delivers
  <2>9. Writing' /\ Delivering'
    <3>1. \A i \in DOMAIN todo[p] : \E t \in Subs : list[t] = todo[p][i]
      BY <1>1 DEF Writing
    <3>2. \A i \in DOMAIN todo'[p] : \E t \in Subs : list[t] = todo'[p][i]
      BY <1>2, <2>3, <3>1
    <3> QED
      BY <1>1, <2>3, <2>4, <2>8, <3>2, OtherPublishers
  <2> QED
    BY <1>3, <1>4, <2>2, <2>9
<1> QED
  BY <1>6, <1>7

(* The forwarding goroutine takes from its channel and touches nothing else.   *)
LEMMA ForwardKeeps ==
  ASSUME BusInv, NEW s \in Subs, Forward(s) \/ HandOver(s) \/ Stop(s)
  PROVE  BusInv'
<1> USE DEF BusInv
<1>1. UNCHANGED <<listVars, lifeVars, pubVars, msgClosed, panicked>>
  BY DEF Forward, HandOver, Stop, chanVars
<1>2. BusTypeOK'
  <2>1. fwd' \subseteq Subs /\ fwdExit' \subseteq Subs
    BY DEF Forward, HandOver, Stop, BusTypeOK
  <2>2. msgChan' \in [Subs -> 0..Size]
    <3>1. CASE UNCHANGED msgChan
      BY <3>1 DEF BusTypeOK
    <3>2. CASE msgChan[s] > 0 /\ msgChan' = [msgChan EXCEPT ![s] = @ - 1]
      <4>1. msgChan[s] - 1 \in 0..Size
        BY <3>2, BusAssumption DEF BusTypeOK
      <4> QED
        BY <3>2, <4>1 DEF BusTypeOK
    <3> QED
      BY <3>1, <3>2 DEF Forward, HandOver, Stop, chanVars
  <2> QED
    BY <1>1, <2>1, <2>2 DEF BusTypeOK, listVars, lifeVars, pubVars
<1>3. Locked' /\ Mapped' /\ Slotted'
  BY <1>1, ListsFrame DEF listVars
<1>4. Closed'
  BY <1>1 DEF Closed, lifeVars
<1>5. Writing'
  BY <1>1 DEF Writing, lifeVars, pubVars
<1>6. Delivering'
  <2> SUFFICES ASSUME NEW p \in Publishers, pubPc[p] # "idle"
               PROVE  Delivers(p)'
    BY <1>1 DEF Delivering, pubVars
  <2>1. Delivers(p)
    BY DEF Delivering
  <2> QED
    BY <1>1, <2>1 DEF Delivers, Ahead, QueueList, Members, Closing, lifeVars, pubVars
<1> QED
  BY <1>2, <1>3, <1>4, <1>5, <1>6

(* Every step of the bus keeps the invariant.                                  *)
LEMMA BusNextInv ==
  ASSUME BusInv, [BusNext]_busVars
  PROVE  BusInv'
<1>1. CASE UNCHANGED busVars
  <2> USE <1>1 DEF busVars, listVars, lifeVars, pubVars, chanVars, fwdVars, BusInv
  <2>1. BusTypeOK'
    BY DEF BusTypeOK
  <2>2. Locked' /\ Mapped' /\ Slotted'
    BY ListsFrame
  <2>3. Writing' /\ Closed'
    BY DEF Writing, Closed
  <2>4. Delivering'
    BY DEF Delivering, Delivers, Ahead, QueueList, Members, Closing
  <2> QED
    BY <2>1, <2>2, <2>3, <2>4
<1>2. ASSUME NEW s \in Subs,
             BeginSubscribe(s) \/ CallClose(s) \/ LifeStep(s) \/ ForwardStep(s) \/ HandOver(s)
      PROVE  BusInv'
  BY <1>2, BeginSubscribeKeeps, FinishSubscribeKeeps, StaysSeated, UnsubscribeKeeps, CloseEnds,
     ForwardKeeps DEF LifeStep, ForwardStep
<1>3. ASSUME NEW p \in Publishers, PublishStep(p)
      PROVE  BusInv'
  BY <1>3, PublishKeeps, DispatchKeeps, WriteKeeps, UnlockKeeps DEF PublishStep
<1> QED
  BY <1>1, <1>2, <1>3 DEF BusNext

(* The lists, the slots and the publications of the local bus always agree.    *)
THEOREM BusInvariance == BusSpec => []BusInv
  BY BusInitInv, BusNextInv, PTL DEF BusSpec

(* No publisher sends to a closed channel and no channel is closed twice       *)
(* (pkg/bus/localbus/localbus.go, write and Close).                            *)
THEOREM LocalBusNeverPanics == BusSpec => []NoPanic
<1>1. BusInv => NoPanic
  BY DEF BusInv, Closed, NoPanic
<1> QED
  BY <1>1, BusInvariance, PTL

(* What a publication has done when it returns.                                *)
LEMMA PublicationIsDone ==
  ASSUME BusInv, BusNext, NEW p \in Publishers, published'[p] > published[p]
  PROVE  /\ \A s \in known[p] : kind[s] = "subs" /\ subPc[s] = "open" => s \in got[p]
         /\ Cardinality(got[p] \cap Members) <= 1
         /\ (known[p] \cap Members # {} /\ \A s \in Members : ~Closing(s)) =>
               got[p] \cap Members # {}
<1>1. published[p] \in Nat
  BY DEF BusInv, BusTypeOK
<1>2. PICK q \in Publishers : PublishStep(q)
  <2>1. UNCHANGED published \/ \E q \in Publishers : PublishStep(q)
    BY DEF BusNext, BeginSubscribe, CallClose, LifeStep, FinishSubscribe, LockTransport,
           Unsubscribe, CloseReader, CloseReturns, ForwardStep, Forward, Stop, HandOver, pubVars
  <2> QED
    BY <1>1, <2>1
<1>3. /\ (Publish(q) /\ LookedUp = <<>>) \/ (Unlock(q) /\ Len(todo[q]) = 1)
      /\ published' = [published EXCEPT ![q] = @ + 1]
  BY <1>1, <1>2 DEF PublishStep, Publish, Dispatch, Write, Skip, Unlock, PublishDone
<1>4. q = p
  BY <1>1, <1>3 DEF BusInv, BusTypeOK
<1>5. CASE Publish(p)
  <2>1. known[p] = {} /\ got[p] = {}
    BY <1>5 DEF Publish, BusInv, Writing
  <2>2. got[p] \cap Members = {} /\ Cardinality(got[p] \cap Members) = 0
    BY <2>1, FS_EmptySet
  <2> QED
    BY <2>1, <2>2
<1>6. CASE Unlock(p) /\ Len(todo[p]) = 1
  <2>1. pubPc[p] = "write" /\ writes[p] = {} /\ Delivers(p) /\ todo[p] \in Seq(Lists)
    BY <1>6 DEF Unlock, BusInv, Delivering, BusTypeOK
  <2>2. \A h : ~Ahead(p, h)
    <3>1. DOMAIN todo[p] = {1}
      BY <1>6, <2>1
    <3> QED
      BY <2>1, <3>1 DEF Ahead
  <2>3. Cardinality(got[p] \cap Members) <= 1
    <3>1. CASE got[p] \cap Members = {}
      BY <3>1, FS_EmptySet
    <3>2. CASE got[p] \cap Members # {}
      <4>1. PICK s : got[p] \cap Members = {s}
        BY <2>1, <3>2 DEF Delivers
      <4>2. Cardinality({s}) = 1
        BY FS_Singleton
      <4> QED
        BY <4>1, <4>2
    <3> QED
      BY <3>1, <3>2
  <2>4. \A s \in known[p] : kind[s] = "subs" /\ subPc[s] = "open" => s \in got[p]
    BY <2>1, <2>2 DEF Delivers
  <2>5. (known[p] \cap Members # {} /\ \A s \in Members : ~Closing(s)) => got[p] \cap Members # {}
    BY <2>1, <2>2 DEF Delivers
  <2> QED
    BY <2>3, <2>4, <2>5
<1> QED
  BY <1>3, <1>4, <1>5, <1>6

(* When Publish returns, each subscription that was open when it began and     *)
(* still is has the message, and of a group one member, if none closed, and    *)
(* never two (pkg/bus/localbus/localbus.go, Publish and dispatch).             *)
THEOREM LocalBusDelivers == BusSpec => DeliversAsSubscribed
<1>1. BusInv /\ [BusNext]_busVars =>
        [\A p \in Publishers : published'[p] > published[p] =>
          /\ \A s \in known[p] : kind[s] = "subs" /\ subPc[s] = "open" => s \in got[p]
          /\ Cardinality(got[p] \cap Members) <= 1
          /\ (known[p] \cap Members # {} /\ \A s \in Members : ~Closing(s)) =>
                got[p] \cap Members # {}]_busVars
  BY PublicationIsDone
<1> QED
  BY <1>1, BusInvariance, PTL DEF BusSpec, DeliversAsSubscribed

-----------------------------------------------------------------------------
(* The layers of a call (CallStack).                                       *)

Frame == [k : Nat, calls : Nat]

(* The interceptors that run and the shared counter. As long as none has       *)
(* called next again, they are the first ones in order, each but the last of   *)
(* them has called next, and the counter is at the one that follows.           *)
ChainInv ==
    (At("chain") \/ At("handler")) =>
        /\ work \in [at : {"chain", "handler"}, n : Nat, i : Nat, stack : Seq(Frame),
                     repeated : BOOLEAN]
        /\ work.n > 0 => work.i < work.n
        /\ \A m \in 1..Depth : work.stack[m].k < work.n
        /\ (At("handler") /\ work.n > 0) => Depth > 0 /\ work.stack[Depth].k = work.n - 1
        /\ ~work.repeated =>
              /\ \A m \in 1..Depth : work.stack[m].k = m - 1
              /\ \A m \in 1..Depth : m < Depth => work.stack[m].calls > 0
              /\ (work.n > 0 /\ (Depth = 0 \/ work.stack[Depth].calls = 0)) =>
                    work.i = IF Depth < work.n THEN Depth ELSE work.n - 1

(* What was returned at the server, and what arrives.                          *)
ReplyInv ==
    At("replied") =>
        /\ work.err \in HandlerErrors \cup {NoErr, Recovered, Malformed}
        /\ work.got = Decode(SendResponse(work.err))

Staged == "at" \in DOMAIN work

-----------------------------------------------------------------------------
(* A level.                                                                    *)
Try == [at : Nat, timeout : Nat, expiry : Nat, wait : Nat, late : BOOLEAN]

Level == [attempt : Nat \ {0}, timeout : Nat, start : Nat]

Calling == ~At("context") /\ ~At("named")

Latest == sent[Len(sent)]

CallTypes ==
    /\ now \in Nat
    /\ canceled \in BOOLEAN
    /\ sent \in Seq(Try)
    /\ ~Calling => sent = <<>> /\ now = 0
    /\ Calling =>
          /\ \A L \in Levels : opt[L].max \in Nat /\ opt[L].timeout \in Nat /\ opt[L].backoff \in Nat
          /\ caller.timeout \in Nat /\ caller.deadline \in Nat
          /\ loop \in [Levels -> Level]
          /\ \A L \in Levels : loop[L].start <= now
          /\ HasDeadline => now <= caller.deadline

(* An error that either level would retry.                                     *)
Retriable(err) == err # NoErr /\ IsTimeout(err)

(* An attempt is under way, or has just ended.                                 *)
InFlight ==
    \/ work.at \in {"sent", "wire", "chain", "handler", "replied"}
    \/ At("outcome") /\ work.level = Inner

StageInv ==
    /\ (At("sent") \/ At("wire")) =>
          /\ work.expiry \in Nat /\ now <= work.expiry
          /\ HasDeadline => work.expiry <= caller.deadline
    /\ (InFlight \/ At("outcome") \/ At("waiting")) => Len(sent) > 0 /\ Latest.at <= now
    /\ At("outcome") =>
          /\ work.level \in Levels
          /\ Retriable(work.err) =>
                /\ work.err.wait \in Nat
                /\ Latest.wait = work.err.wait
                /\ work.err.wait > 0 => work.err.kind = "noSubscriber"
    /\ At("waiting") => work.level \in Levels /\ work.wait \in Nat

(* The place of the attempt that the two loops are at.                         *)
Place ==
    IF opt[Inner].max = 0 THEN loop[Inner].attempt
    ELSE (loop[Outer].attempt - 1) * opt[Inner].max + loop[Inner].attempt

(* The loops against the attempts made.                                        *)
CountInv ==
    Calling =>
        /\ \A L \in Levels : loop[L].timeout =
              opt[L].timeout + (loop[L].attempt - 1) * opt[L].backoff
        /\ opt[Outer].max > 0 => loop[Outer].attempt <= opt[Outer].max
        /\ opt[Inner].max = 0 => loop[Outer].attempt = 1
        /\ opt[Inner].max > 0 =>
              /\ loop[Inner].attempt <= opt[Inner].max
              /\ Len(sent) <= loop[Outer].attempt * opt[Inner].max
        /\ (At("attempt") \/ (At("waiting") /\ work.level = Inner)) => Len(sent) + 1 = Place
        /\ (At("waiting") /\ work.level = Inner) => loop[Inner].attempt > 1
        /\ InFlight => Len(sent) = Place
        /\ (At("outcome") /\ work.level = Outer /\ Retriable(work.err)) =>
              /\ opt[Inner].max > 0
              /\ loop[Inner].attempt = opt[Inner].max
              /\ Len(sent) = loop[Outer].attempt * opt[Inner].max
        /\ (At("waiting") /\ work.level = Outer) =>
              /\ opt[Inner].max > 0
              /\ Len(sent) = (loop[Outer].attempt - 1) * opt[Inner].max
        /\ (At("returned") /\ Retriable(work.err)) =>
              /\ opt[Outer].max > 0 /\ opt[Inner].max > 0
              /\ Len(sent) = opt[Outer].max * opt[Inner].max

(* The clocks of the loops against the attempts made, and the waits.           *)
WaitInv ==
    /\ At("attempt") =>
          /\ loop[Inner].start = now
          /\ loop[Inner].attempt = 1 => loop[Outer].start = now
          /\ Len(sent) > 0 =>
                /\ \/ now >= Latest.at + Latest.wait
                   \/ opt[Inner].max > 1 /\ loop[Inner].attempt = 1
                /\ Done => Latest.wait > 0
    /\ InFlight =>
          /\ loop[Inner].start = Latest.at
          /\ loop[Inner].attempt = 1 => loop[Outer].start = Latest.at
    /\ (At("outcome") /\ work.level = Outer /\ Retriable(work.err) /\ opt[Inner].max = 1) =>
          loop[Outer].start = Latest.at
    /\ At("waiting") =>
          /\ now + work.wait >= Latest.at + Latest.wait \/ (work.level = Outer /\ opt[Inner].max > 1)
          /\ work.wait > 0 => Latest.wait > 0

(* What the history says of each attempt.                                      *)
TryIsAsConfigured(k) ==
    /\ caller.timeout > 0 => sent[k].timeout = caller.timeout
    /\ (caller.timeout = 0 /\ LevelTimeout(Inner, k) > 0) => sent[k].timeout = LevelTimeout(Inner, k)
    /\ (caller.timeout = 0 /\ LevelTimeout(Inner, k) = 0 /\ LevelTimeout(Outer, k) > 0) =>
            sent[k].timeout = LevelTimeout(Outer, k)
    /\ HasDeadline => sent[k].expiry <= caller.deadline
    /\ k > 1 => LET p == sent[k - 1]
                IN  /\ sent[k].at >= p.at + p.wait \/ (opt[Inner].max > 1 /\ AttemptOf(Inner, k) = 1)
                    /\ sent[k].late => p.wait > 0

HistoryInv == Calling => \A k \in DOMAIN sent : TryIsAsConfigured(k)

-----------------------------------------------------------------------------
(* Each step but those of the server's chain leaves it, or is away from it.    *)
LEMMA AwayFromChain ==
  ASSUME Staged, StackNext,
         ~(\E n \in 0..MaxChain : Serve(n)), ~CallNext, ~RunHandler, ~Return
  PROVE  /\ Staged'
         /\ UNCHANGED work \/ work'.at \notin {"chain", "handler"}
<1>1. ASSUME NEW name, NEW key, SetMetadata(Op(name, key))
      PROVE  Staged' /\ work'.at \notin {"chain", "handler"}
  BY <1>1 DEF SetMetadata, Staged, At
<1>2. ASSUME NEW i, NEW c, NameChannels(i, c)
      PROVE  Staged' /\ work'.at \notin {"chain", "handler"}
  BY <1>2 DEF NameChannels, Staged
<1>3. ASSUME NEW o, NEW c, Call(o, c)
      PROVE  Staged' /\ work'.at \notin {"chain", "handler"}
  BY <1>3 DEF Call, Staged
<1>4. ASSUME Attempt \/ Unserved \/ Dropped \/ Replied
      PROVE  Staged' /\ work'.at \notin {"chain", "handler"}
  BY <1>4 DEF Attempt, Unserved, Dropped, Replied, EndsWith, Staged
<1>5. ASSUME CancelCaller
      PROVE  Staged' /\ UNCHANGED work
  BY <1>5 DEF CancelCaller, Staged
<1>6. ASSUME NEW L \in Levels, Decide(L) \/ WaitIsCut(L) \/ WaitEnds(L)
      PROVE  Staged' /\ work'.at \notin {"chain", "handler"}
  BY <1>6 DEF Decide, WaitIsCut, WaitEnds, Pass, Staged
<1>7. ASSUME NEW b, NEW o, NEW max, Encode(b, o, max)
      PROVE  Staged' /\ work'.at \notin {"chain", "handler"}
  BY <1>7 DEF Encode, Staged
<1>8. ASSUME NEW err, Reply(err)
      PROVE  Staged' /\ work'.at \notin {"chain", "handler"}
  BY <1>8 DEF Reply, Staged
<1> QED
  BY <1>1, <1>2, <1>3, <1>4, <1>5, <1>6, <1>7, <1>8 DEF StackNext

(* The chain begins, with no interceptor running.                              *)
LEMMA ServeKeepsChain ==
  ASSUME NEW n \in 0..MaxChain, Serve(n)
  PROVE  ChainInv' /\ Staged'
<1>1. work' = [at |-> "chain", n |-> n, i |-> 0, stack |-> <<>>, repeated |-> FALSE]
  BY DEF Serve
<1>2. n \in Nat
  BY CallStackAssumption
<1>3. <<>> \in Seq(Frame) /\ Len(<<>>) = 0
  OBVIOUS
<1>4. /\ work'.at = "chain" /\ work'.n = n /\ work'.i = 0 /\ work'.stack = <<>> /\ Depth' = 0
      /\ work' \in [at : {"chain", "handler"}, n : Nat, i : Nat, stack : Seq(Frame),
                    repeated : BOOLEAN]
  BY <1>1, <1>2, <1>3 DEF Depth
<1> QED
  BY <1>1, <1>2, <1>4 DEF ChainInv, Staged, At

(* The last of the interceptors that run has called next once more.            *)
LEMMA NextIsCounted ==
  ASSUME NEW q \in Seq(Frame), NEW d \in Nat, d = Len(q), d # 0
  PROVE  LET c == [q EXCEPT ![d].calls = @ + 1]
         IN  /\ c \in Seq(Frame) /\ Len(c) = d
             /\ \A m \in 1..d : /\ c[m].k = q[m].k
                                /\ c[m].calls = IF m = d THEN q[m].calls + 1 ELSE q[m].calls
<1> DEFINE f == [q[d] EXCEPT !.calls = @ + 1]
           e == [q EXCEPT ![d] = f]
<1>1. d \in 1..d /\ q[d] \in Frame
  OBVIOUS
<1>2. f \in Frame /\ f.k = q[d].k /\ f.calls = q[d].calls + 1
  BY <1>1 DEF Frame
<1> HIDE DEF f
<1>3. /\ e \in Seq(Frame) /\ Len(e) = d
      /\ \A m \in 1..d : e[m] = IF m = d THEN f ELSE q[m]
  BY <1>1, <1>2
<1>4. e = [q EXCEPT ![d].calls = @ + 1]
  BY DEF f
<1> HIDE DEF e
<1> QED
  BY <1>2, <1>3, <1>4

(* An interceptor is called: the one at the counter, which goes on to the next *)
(* unless it is at the last.                                                   *)
LEMMA CallNextKeepsChain ==
  ASSUME ChainInv, CallNext
  PROVE  ChainInv' /\ Staged'
<1> DEFINE W == [at : {"chain", "handler"}, n : Nat, i : Nat, stack : Seq(Frame), repeated : BOOLEAN]
<1>1. PICK n, i, q, rep, d :
         /\ n = work.n /\ i = work.i /\ q = work.stack /\ rep = work.repeated /\ d = Depth
  OBVIOUS
<1>2. /\ work \in W /\ work.at = "chain" /\ n \in Nat /\ n > 0 /\ i \in Nat /\ i < n
      /\ q \in Seq(Frame) /\ rep \in BOOLEAN /\ d = Len(q) /\ d \in Nat /\ DOMAIN q = 1..d
      /\ \A m \in 1..d : q[m] \in Frame /\ q[m].k \in Nat /\ q[m].calls \in Nat /\ q[m].k < n
  <2>1. At("chain") /\ work.n > 0 /\ work.at = "chain"
    BY DEF CallNext, At
  <2>2. work \in W /\ work.i < work.n /\ \A m \in 1..Depth : work.stack[m].k < work.n
    BY <2>1 DEF ChainInv
  <2>3. n \in Nat /\ i \in Nat /\ q \in Seq(Frame) /\ rep \in BOOLEAN
    BY <1>1, <2>2
  <2>4. d = Len(q) /\ d \in Nat /\ DOMAIN q = 1..d
    BY <1>1, <2>3 DEF Depth
  <2>5. \A m \in 1..d : q[m] \in Frame
    BY <2>3, <2>4
  <2>6. \A e \in Frame : e.k \in Nat /\ e.calls \in Nat
    BY DEF Frame
  <2> QED
    BY <1>1, <2>1, <2>2, <2>3, <2>4, <2>5, <2>6
<1>3. d = 0 => i = 0
  BY <1>1 DEF CallNext
<1>4. d # 0 => q[d].k # n - 1
  BY <1>1, <1>2 DEF CallNext
<1>5. ~rep => /\ \A m \in 1..d : q[m].k = m - 1
              /\ \A m \in 1..d : m < d => q[m].calls > 0
              /\ (d = 0 \/ q[d].calls = 0) => i = IF d < n THEN d ELSE n - 1
  BY <1>1, <1>2 DEF ChainInv, CallNext, At, Depth
<1> DEFINE c == IF d = 0 THEN <<>> ELSE [q EXCEPT ![d].calls = @ + 1]
<1>6. /\ c \in Seq(Frame) /\ Len(c) = d
      /\ \A m \in 1..d : c[m].k = q[m].k /\ c[m].calls = IF m = d THEN q[m].calls + 1 ELSE q[m].calls
  <2>1. CASE d = 0
    BY <1>2, <2>1
  <2>2. CASE d # 0
    BY <1>2, <2>2, NextIsCounted
  <2> QED
    BY <2>1, <2>2
<1> HIDE DEF c
<1> DEFINE s == Append(c, [k |-> i, calls |-> 0])
<1>7. /\ s \in Seq(Frame) /\ Len(s) = d + 1 /\ s[d + 1] = [k |-> i, calls |-> 0]
      /\ \A m \in 1..d : s[m] = c[m]
  <2>1. [k |-> i, calls |-> 0] \in Frame
    BY <1>2 DEF Frame
  <2> QED
    BY <1>2, <1>6, <2>1
<1> HIDE DEF s
<1>8. PICK r \in BOOLEAN : /\ r = Repeats
                           /\ r <=> (rep \/ (d > 0 /\ q[d].calls > 0))
  BY <1>1, <1>2 DEF Repeats
<1>9. PICK j : /\ j = IF i = n - 1 THEN i ELSE i + 1
               /\ j \in Nat /\ j < n
  BY <1>2
<1>10. /\ work'.at = "chain" /\ work'.n = n /\ work'.i = j /\ work'.stack = s
       /\ work'.repeated = r
       /\ work' \in W
  <2>1. (IF Depth = 0 THEN <<>> ELSE Called) = c
    BY <1>1 DEF Called, c
  <2>2. work' = IF i = n - 1
                THEN [work EXCEPT !.stack = s, !.repeated = r]
                ELSE [work EXCEPT !.i = i + 1, !.repeated = r, !.stack = s]
    BY <1>1, <1>8, <2>1 DEF CallNext, Enter, Advance, s
  <2>3. work \in W /\ s \in Seq(Frame) /\ r \in BOOLEAN /\ i + 1 \in Nat
    BY <1>2, <1>7
  <2>4. CASE i = n - 1
    <3>1. work' = [work EXCEPT !.stack = s, !.repeated = r]
      BY <2>2, <2>4
    <3> QED
      BY <1>1, <1>2, <1>9, <2>3, <2>4, <3>1
  <2>5. CASE i # n - 1
    <3>1. work' = [work EXCEPT !.i = i + 1, !.repeated = r, !.stack = s]
      BY <2>2, <2>5
    <3> QED
      BY <1>1, <1>2, <1>9, <2>3, <2>5, <3>1
  <2> QED
    BY <2>4, <2>5
<1>11. Depth' = d + 1
  BY <1>7, <1>10 DEF Depth
<1>12. /\ s[d + 1].k = i /\ s[d + 1].calls = 0
       /\ \A m \in 1..d : /\ s[m].k = q[m].k
                          /\ s[m].calls = IF m = d THEN q[m].calls + 1 ELSE q[m].calls
       /\ \A m \in 1..(d + 1) : m \in 1..d \/ m = d + 1
       /\ \A m \in 1..(d + 1) : s[m].k < n
  <2>1. /\ s[d + 1].k = i /\ s[d + 1].calls = 0
    BY <1>7
  <2>2. \A m \in 1..d : /\ s[m].k = q[m].k
                       /\ s[m].calls = IF m = d THEN q[m].calls + 1 ELSE q[m].calls
    BY <1>6, <1>7
  <2>3. \A m \in 1..(d + 1) : m \in 1..d \/ m = d + 1
    BY <1>2
  <2>4. \A m \in 1..(d + 1) : s[m].k < n
    <3> TAKE m \in 1..(d + 1)
    <3>1. CASE m \in 1..d
      BY <1>2, <2>2, <3>1
    <3>2. CASE m = d + 1
      BY <1>2, <2>1, <3>2
    <3> QED
      BY <2>3, <3>1, <3>2
  <2> QED
    BY <2>1, <2>2, <2>3, <2>4
<1>13. ASSUME ~r
       PROVE  /\ \A m \in 1..(d + 1) : s[m].k = m - 1
              /\ \A m \in 1..(d + 1) : m < d + 1 => s[m].calls > 0
              /\ j = IF d + 1 < n THEN d + 1 ELSE n - 1
  <2>1. ~rep /\ (d = 0 \/ q[d].calls = 0)
    BY <1>2, <1>8, <1>13
  <2>2. i = d
    <3>1. CASE d = 0
      BY <1>3, <3>1
    <3>2. CASE d # 0
      <4>1. d \in 1..d /\ q[d].k = d - 1
        BY <1>2, <1>5, <2>1, <3>2
      <4> QED
        BY <1>2, <1>4, <1>5, <2>1, <3>2, <4>1
    <3> QED
      BY <3>1, <3>2
  <2>3. ASSUME NEW m \in 1..(d + 1)
        PROVE  s[m].k = m - 1 /\ (m < d + 1 => s[m].calls > 0)
    <3>1. CASE m \in 1..d
      <4>1. q[m].k = m - 1 /\ (m < d => q[m].calls > 0) /\ q[m].calls \in Nat
        BY <1>2, <1>5, <2>1, <3>1
      <4>2. s[m].k = q[m].k /\ s[m].calls = IF m = d THEN q[m].calls + 1 ELSE q[m].calls
        BY <1>12, <3>1
      <4> QED
        BY <1>2, <3>1, <4>1, <4>2
    <3>2. CASE m = d + 1
      BY <1>2, <1>12, <2>2, <3>2
    <3> QED
      BY <1>12, <3>1, <3>2
  <2> QED
    BY <1>2, <1>9, <2>2, <2>3
<1> QED
  BY <1>2, <1>9, <1>10, <1>11, <1>12, <1>13 DEF ChainInv, Staged, At

(* The handler is called by the last interceptor, or alone.                    *)
LEMMA RunHandlerKeepsChain ==
  ASSUME ChainInv, RunHandler
  PROVE  ChainInv' /\ Staged'
<1> DEFINE W == [at : {"chain", "handler"}, n : Nat, i : Nat, stack : Seq(Frame), repeated : BOOLEAN]
<1>1. PICK n, i, q, rep, d :
         /\ n = work.n /\ i = work.i /\ q = work.stack /\ rep = work.repeated /\ d = Depth
  OBVIOUS
<1>2. /\ work \in W /\ n \in Nat /\ i \in Nat /\ (n > 0 => i < n)
      /\ q \in Seq(Frame) /\ rep \in BOOLEAN /\ d = Len(q) /\ d \in Nat /\ DOMAIN q = 1..d
      /\ \A m \in 1..d : q[m].k \in Nat /\ q[m].calls \in Nat /\ q[m].k < n
  <2>1. work \in W /\ (work.n > 0 => work.i < work.n) /\ \A m \in 1..Depth : work.stack[m].k < work.n
    BY DEF ChainInv, RunHandler
  <2>2. n \in Nat /\ i \in Nat /\ q \in Seq(Frame) /\ rep \in BOOLEAN
    BY <1>1, <2>1
  <2>3. d = Len(q) /\ d \in Nat /\ DOMAIN q = 1..d
    BY <1>1, <2>2 DEF Depth
  <2>4. \A m \in 1..d : q[m] \in Frame
    BY <2>2, <2>3
  <2>5. \A e \in Frame : e.k \in Nat /\ e.calls \in Nat
    BY DEF Frame
  <2> QED
    BY <1>1, <2>1, <2>2, <2>3, <2>4, <2>5
<1>3. PICK r \in BOOLEAN : /\ r = Repeats
                           /\ r <=> (rep \/ (d > 0 /\ q[d].calls > 0))
  BY <1>1, <1>2 DEF Repeats
<1>4. CASE n = 0
  <2>1. d = 0
    BY <1>2, <1>4
  <2>2. work' = [work EXCEPT !.at = "handler", !.stack = q, !.repeated = r]
    BY <1>1, <1>3, <1>4 DEF RunHandler
  <2>3. /\ work'.at = "handler" /\ work'.n = 0 /\ work'.i = i /\ work'.stack = q
        /\ work' \in W
    BY <1>1, <1>2, <1>4, <2>2
  <2>4. Depth' = 0
    BY <1>2, <2>1, <2>3 DEF Depth
  <2> QED
    BY <2>3, <2>4 DEF ChainInv, Staged, At
<1>5. CASE n # 0
  <2>1. n > 0 /\ i < n /\ d > 0 /\ d \in 1..d /\ q[d].k = n - 1
    BY <1>1, <1>2, <1>5 DEF RunHandler
  <2> DEFINE c == [q EXCEPT ![d].calls = @ + 1]
  <2>2. /\ c \in Seq(Frame) /\ Len(c) = d
        /\ \A m \in 1..d : c[m].k = q[m].k /\ c[m].calls = IF m = d THEN q[m].calls + 1 ELSE q[m].calls
    BY <1>2, <2>1, NextIsCounted
  <2>3. work' = [work EXCEPT !.at = "handler", !.stack = c, !.repeated = r]
    BY <1>1, <1>3, <1>5 DEF RunHandler, Called
  <2> HIDE DEF c
  <2>4. /\ work'.at = "handler" /\ work'.n = n /\ work'.i = i /\ work'.stack = c
        /\ work'.repeated = r
        /\ work' \in W
    BY <1>1, <1>2, <2>2, <2>3
  <2>5. Depth' = d
    BY <2>2, <2>4 DEF Depth
  <2>6. /\ \A m \in 1..d : c[m].k < n
        /\ c[d].k = n - 1 /\ c[d].calls # 0
    <3>1. \A m \in 1..d : q[m].k < n
      BY <1>2
    <3>2. q[d].calls \in Nat
      BY <1>2, <2>1 DEF Frame
    <3>3. c[d].k = q[d].k /\ c[d].calls = q[d].calls + 1
      BY <2>1, <2>2
    <3>4. \A m \in 1..d : c[m].k = q[m].k
      BY <2>2
    <3> QED
      BY <2>1, <3>1, <3>2, <3>3, <3>4
  <2>7. ~r => /\ \A m \in 1..d : c[m].k = m - 1
              /\ \A m \in 1..d : m < d => c[m].calls > 0
    <3>1. ~rep => /\ \A m \in 1..d : q[m].k = m - 1
                  /\ \A m \in 1..d : m < d => q[m].calls > 0
      BY <1>1 DEF ChainInv, RunHandler
    <3>2. ~r => ~rep
      BY <1>3
    <3>3. \A m \in 1..d : c[m].k = q[m].k /\ (m < d => c[m].calls = q[m].calls)
      BY <1>2, <2>2
    <3> QED
      BY <3>1, <3>2, <3>3
  <2> QED
    BY <2>1, <2>4, <2>5, <2>6, <2>7 DEF ChainInv, Staged, At
<1> QED
  BY <1>4, <1>5

(* The handler returns to the last interceptor, or an interceptor to the one   *)
(* before, which has called next.                                              *)
LEMMA ReturnKeepsChain ==
  ASSUME ChainInv, Return
  PROVE  ChainInv' /\ Staged'
<1> DEFINE W == [at : {"chain", "handler"}, n : Nat, i : Nat, stack : Seq(Frame), repeated : BOOLEAN]
<1>1. PICK n, i, q, rep, d :
         /\ n = work.n /\ i = work.i /\ q = work.stack /\ rep = work.repeated /\ d = Depth
  OBVIOUS
<1>2. /\ work \in W /\ n \in Nat /\ i \in Nat /\ (n > 0 => i < n)
      /\ q \in Seq(Frame) /\ rep \in BOOLEAN /\ d = Len(q) /\ d \in Nat
      /\ \A m \in 1..d : q[m].k < n
  <2>1. work \in W /\ (work.n > 0 => work.i < work.n) /\ \A m \in 1..Depth : work.stack[m].k < work.n
    BY DEF ChainInv, Return
  <2>2. n \in Nat /\ i \in Nat /\ q \in Seq(Frame) /\ rep \in BOOLEAN
    BY <1>1, <2>1
  <2> QED
    BY <1>1, <2>1, <2>2 DEF Depth
<1>3. ~rep => /\ \A m \in 1..d : q[m].k = m - 1
              /\ \A m \in 1..d : m < d => q[m].calls > 0
              /\ (n > 0 /\ (d = 0 \/ q[d].calls = 0)) => i = IF d < n THEN d ELSE n - 1
  BY <1>1 DEF ChainInv, Return
<1>4. CASE At("handler")
  <2>1. work' = [work EXCEPT !.at = "chain"]
    BY <1>4 DEF Return
  <2>2. /\ work'.at = "chain" /\ work'.n = n /\ work'.i = i /\ work'.stack = q
        /\ work'.repeated = rep
        /\ work' \in W
    BY <1>1, <1>2, <2>1
  <2>3. Depth' = d
    BY <1>2, <2>2 DEF Depth
  <2> QED
    BY <1>2, <1>3, <2>2, <2>3 DEF ChainInv, Staged, At
<1>5. CASE ~At("handler")
  <2>1. At("chain") /\ d > 1
    BY <1>1, <1>5 DEF Return
  <2> DEFINE c == Front(q)
  <2>2. /\ c \in Seq(Frame) /\ Len(c) = d - 1
        /\ \A m \in 1..(d - 1) : c[m] = q[m]
    BY <1>2, <2>1 DEF Front
  <2>3. work' = [work EXCEPT !.stack = c]
    BY <1>1, <1>5 DEF Return
  <2> HIDE DEF c
  <2>4. /\ work'.at = "chain" /\ work'.n = n /\ work'.i = i /\ work'.stack = c
        /\ work'.repeated = rep
        /\ work' \in W
    BY <1>1, <1>2, <2>1, <2>2, <2>3 DEF At
  <2>5. Depth' = d - 1
    BY <2>2, <2>4 DEF Depth
  <2>6. /\ \A m \in 1..(d - 1) : m \in 1..d /\ m < d /\ c[m] = q[m]
        /\ d - 1 \in 1..(d - 1)
    BY <1>2, <2>1, <2>2
  <2>7. /\ \A m \in 1..(d - 1) : c[m].k < n
        /\ ~rep => /\ \A m \in 1..(d - 1) : c[m].k = m - 1
                   /\ \A m \in 1..(d - 1) : c[m].calls > 0
                   /\ c[d - 1].calls > 0
    BY <1>2, <1>3, <2>6
  <2>8. d - 1 # 0 /\ (c[d - 1].calls > 0 => c[d - 1].calls # 0)
    BY <1>2, <2>1
  <2> QED
    BY <1>2, <2>4, <2>5, <2>7, <2>8 DEF ChainInv, Staged, At
<1> QED
  BY <1>4, <1>5

(* What the interceptors and their counter are is kept by every step.          *)
LEMMA StepKeepsChain ==
  ASSUME Staged, ChainInv, [StackNext]_stackVars
  PROVE  Staged' /\ ChainInv'
<1>1. CASE UNCHANGED work
  BY <1>1 DEF Staged, ChainInv, At, Depth
<1>2. CASE StackNext /\ \E n \in 0..MaxChain : Serve(n)
  BY <1>2, ServeKeepsChain
<1>3. CASE CallNext
  BY <1>3, CallNextKeepsChain
<1>4. CASE RunHandler
  BY <1>4, RunHandlerKeepsChain
<1>5. CASE Return
  BY <1>5, ReturnKeepsChain
<1>6. CASE /\ StackNext /\ ~(\E n \in 0..MaxChain : Serve(n))
           /\ ~CallNext /\ ~RunHandler /\ ~Return /\ ~UNCHANGED work
  <2>1. Staged' /\ work'.at \notin {"chain", "handler"}
    BY <1>6, AwayFromChain
  <2> QED
    BY <2>1 DEF ChainInv, At
<1>7. UNCHANGED stackVars => UNCHANGED work
  BY DEF stackVars
<1> QED
  BY <1>1, <1>2, <1>3, <1>4, <1>5, <1>6, <1>7

(* The handler of a request runs inside the last of the server's interceptors, *)
(* and inside all of them in their order as long as none calls next again.     *)
THEOREM ChainGuardsHandler == StackSpec => []HandlerIsGuarded
<1>1. StackInit => Staged /\ ChainInv
  BY DEF StackInit, Staged, ChainInv, At
<1>2. Staged /\ ChainInv /\ [StackNext]_stackVars => Staged' /\ ChainInv'
  BY StepKeepsChain
<1>3. ChainInv => HandlerIsGuarded
  <2> SUFFICES ASSUME ChainInv, At("handler"), work.n > 0
               PROVE  /\ work.stack[Depth].k = work.n - 1
                      /\ ~work.repeated =>
                            [m \in 1..Depth |-> work.stack[m].k] = [m \in 1..work.n |-> m - 1]
    BY DEF HandlerIsGuarded
  <2>1. work.stack[Depth].k = work.n - 1 /\ Depth > 0 /\ work.n \in Nat /\ Depth \in Nat
    <3>1. work.n \in Nat /\ work.stack \in Seq(Frame)
      BY DEF ChainInv
    <3> QED
      BY <3>1 DEF ChainInv, Depth
  <2>2. ASSUME ~work.repeated
        PROVE  [m \in 1..Depth |-> work.stack[m].k] = [m \in 1..work.n |-> m - 1]
    <3>1. \A m \in 1..Depth : work.stack[m].k = m - 1
      BY <2>2 DEF ChainInv
    <3>2. Depth = work.n
      BY <2>1, <3>1
    <3> QED
      BY <3>1, <3>2
  <2> QED
    BY <2>1, <2>2
<1> QED
  BY <1>1, <1>2, <1>3, PTL DEF StackSpec

-----------------------------------------------------------------------------
(* The HTTP status of each code but OK.                                        *)
LEMMA HTTPStatuses ==
  /\ ToHTTP("malformed_request") = 400 /\ ToHTTP("malformed_result") = 500
  /\ ToHTTP("not_acceptable") = 406 /\ ToHTTP("unprocessable_entity") = 422
  /\ ToHTTP("upstream_server_error") = 502 /\ ToHTTP("upstream_client_error") = 424
  /\ ToHTTP("invalid_argument") = 400 /\ ToHTTP("unauthenticated") = 401
  /\ ToHTTP("permission_denied") = 403 /\ ToHTTP("not_found") = 404
  /\ ToHTTP("already_exists") = 409 /\ ToHTTP("aborted") = 409
  /\ ToHTTP("failed_precondition") = 412 /\ ToHTTP("out_of_range") = 416
  /\ ToHTTP("resource_exhausted") = 429 /\ ToHTTP("unknown") = 500
  /\ ToHTTP("internal") = 500 /\ ToHTTP("data_loss") = 500
  /\ ToHTTP("canceled") = 503 /\ ToHTTP("deadline_exceeded") = 503
  /\ ToHTTP("unavailable") = 503 /\ ToHTTP("unimplemented") = 501
<1>1. ToHTTP("malformed_request") = 400 /\ ToHTTP("malformed_result") = 500
  BY DEF ToHTTP, OK
<1>2. ToHTTP("not_acceptable") = 406 /\ ToHTTP("unprocessable_entity") = 422
  BY DEF ToHTTP, OK
<1>3. ToHTTP("upstream_server_error") = 502 /\ ToHTTP("upstream_client_error") = 424
  BY DEF ToHTTP, OK
<1>4. ToHTTP("invalid_argument") = 400 /\ ToHTTP("unauthenticated") = 401
  BY DEF ToHTTP, OK
<1>5. ToHTTP("permission_denied") = 403 /\ ToHTTP("not_found") = 404
  BY DEF ToHTTP, OK
<1>6. ToHTTP("already_exists") = 409 /\ ToHTTP("aborted") = 409
  BY DEF ToHTTP, OK
<1>7. ToHTTP("failed_precondition") = 412 /\ ToHTTP("out_of_range") = 416
  BY DEF ToHTTP, OK
<1>8. ToHTTP("resource_exhausted") = 429 /\ ToHTTP("unknown") = 500
  BY DEF ToHTTP, OK
<1>9. ToHTTP("internal") = 500 /\ ToHTTP("data_loss") = 500
  BY DEF ToHTTP, OK
<1>10. ToHTTP("canceled") = 503 /\ ToHTTP("deadline_exceeded") = 503
  BY DEF ToHTTP, OK
<1>11. ToHTTP("unavailable") = 503 /\ ToHTTP("unimplemented") = 501
  BY DEF ToHTTP, OK
<1> QED
  BY <1>1, <1>2, <1>3, <1>4, <1>5, <1>6, <1>7, <1>8, <1>9, <1>10, <1>11

(* Every code but OK is a 4xx or a 5xx of HTTP; on the way through gRPC those  *)
(* that have a kind there stay in their class, and Twirp agrees.               *)
LEMMA CodesKeepTheirClass ==
  ASSUME NEW c \in ErrorCodes \ {OK}
  PROVE  /\ ToHTTP(c) \div 100 \in {4, 5}
         /\ c \notin Coarsened => ToHTTP(ErrorCodeFromGRPC(ToGRPC(c))) \div 100 = ToHTTP(c) \div 100
         /\ ToTwirp(c) = ToGRPC(c) \/ ToTwirp(c) = "malformed"
<1> DEFINE Class(h) == h \div 100
<1>1. /\ \A h \in {400, 401, 403, 404, 406, 409, 412, 416, 422, 424, 429} : Class(h) = 4
      /\ \A h \in {500, 501, 502, 503} : Class(h) = 5
  OBVIOUS
<1> HIDE DEF Class
<1>2. CASE c \in GRPCCodes
  <2>1. ToGRPC(c) = c /\ ToTwirp(c) = c /\ ErrorCodeFromGRPC(ToGRPC(c)) = c
    <3>1. c \notin {"malformed_request", "malformed_result", "upstream_server_error", "upstream_client_error"}
      BY <1>2 DEF GRPCCodes, OK
    <3>2. ToGRPC(c) = c /\ ToTwirp(c) = c
      BY <1>2, <3>1 DEF ToGRPC, ToTwirp
    <3> QED
      BY <1>2, <3>2 DEF ErrorCodeFromGRPC
  <2>2. c \in {"canceled", "unknown", "invalid_argument", "deadline_exceeded", "not_found",
               "already_exists", "permission_denied", "resource_exhausted", "failed_precondition",
               "aborted", "out_of_range", "unimplemented", "internal", "unavailable", "data_loss",
               "unauthenticated"}
    BY <1>2 DEF GRPCCodes
  <2>3. Class(ToHTTP(c)) \in {4, 5}
    BY <1>1, <2>2, HTTPStatuses
  <2> QED
    BY <2>1, <2>3 DEF Class
<1>3. CASE c \notin GRPCCodes
  <2>1. c \in {"malformed_request", "malformed_result", "not_acceptable", "unprocessable_entity",
               "upstream_server_error", "upstream_client_error"}
    BY <1>3 DEF ErrorCodes
  <2>2. /\ c \in {"malformed_request", "upstream_client_error"} => ToGRPC(c) = "invalid_argument"
        /\ c \in {"malformed_result", "upstream_server_error"} => ToGRPC(c) = "internal"
        /\ c \in Coarsened => ToGRPC(c) = "unknown"
    BY <1>3 DEF ToGRPC, Coarsened
  <2>3. /\ c \in {"malformed_request", "malformed_result"} => ToTwirp(c) = "malformed"
        /\ c = "upstream_server_error" => ToTwirp(c) = "internal"
        /\ c = "upstream_client_error" => ToTwirp(c) = "invalid_argument"
        /\ c \in Coarsened => ToTwirp(c) = "unknown"
    BY <1>3 DEF ToTwirp, Coarsened
  <2>4. ErrorCodeFromGRPC("invalid_argument") = "invalid_argument" /\ ErrorCodeFromGRPC("internal") = "internal"
    BY DEF ErrorCodeFromGRPC, GRPCCodes
  <2>5. /\ Class(ToHTTP(c)) \in {4, 5}
        /\ c \notin Coarsened => Class(ToHTTP(ErrorCodeFromGRPC(ToGRPC(c)))) = Class(ToHTTP(c))
    BY <1>1, <2>1, <2>2, <2>4, HTTPStatuses DEF Coarsened
  <2>6. ToTwirp(c) = ToGRPC(c) \/ ToTwirp(c) = "malformed"
    BY <2>1, <2>2, <2>3 DEF Coarsened
  <2> QED
    BY <2>5, <2>6 DEF Class
<1> QED
  BY <1>2, <1>3

(* What the client has of an error that has a text: one of ours, with the code *)
(* that the server would find in it.                                           *)
LEMMA ErrorArrives ==
  ASSUME NEW e \in HandlerErrors \cup {NoErr, Recovered, Malformed}
  PROVE  LET d == Decode(SendResponse(e))
             code == IF GetErrorCode(e) = OK THEN "unknown" ELSE GetErrorCode(e)
         IN  \/ d = NoErr /\ (e = NoErr \/ ~e.text)
             \/ /\ d = NewError(code) /\ e # NoErr /\ e.text
                /\ code \in ErrorCodes \ {OK}
                /\ e.kind \in {"psrpc", "status", "plain"}
                /\ e.kind = "plain" => code = "unknown"
<1>1. CASE e = NoErr
  BY <1>1 DEF SendResponse, Decode
<1>2. CASE \E c \in ErrorCodes : e = NewError(c)
  <2>1. PICK c \in ErrorCodes : e = NewError(c)
    BY <1>2
  <2>2. e.kind = "psrpc" /\ e.code = c /\ e.text = TRUE /\ e # NoErr
    BY <2>1 DEF NewError, Err, NoErr
  <2>3. GetErrorCode(e) = c
    BY <2>2 DEF GetErrorCode
  <2>4. SendResponse(e) = [error |-> TRUE, code |-> c]
    BY <2>2 DEF SendResponse
  <2>5. Decode(SendResponse(e)) = NewError(IF c = OK THEN "unknown" ELSE c)
    BY <2>4 DEF Decode, NewErrorFromResponse
  <2> QED
    BY <2>2, <2>3, <2>5 DEF ErrorCodes, GRPCCodes, OK
<1>3. CASE \E c \in GRPCCodes : e = Err("status", c, TRUE, 0)
  <2>1. PICK c \in GRPCCodes : e = Err("status", c, TRUE, 0)
    BY <1>3
  <2>2. e.kind = "status" /\ e.code = c /\ e.text = TRUE /\ e # NoErr
    BY <2>1 DEF Err, NoErr
  <2>3. GetErrorCode(e) = c /\ ErrorCodeFromGRPC(c) = c
    BY <2>2 DEF GetErrorCode, ErrorCodeFromGRPC
  <2>4. SendResponse(e) = [error |-> TRUE, code |-> IF c = OK THEN "unknown" ELSE c]
    BY <2>2, <2>3 DEF SendResponse
  <2>5. Decode(SendResponse(e)) = NewError(IF c = OK THEN "unknown" ELSE c)
    <3>1. OK # "unknown"
      BY DEF OK
    <3> QED
      BY <2>4, <3>1 DEF Decode, NewErrorFromResponse
  <2> QED
    BY <2>2, <2>3, <2>5 DEF ErrorCodes, GRPCCodes, OK
<1>4. CASE e = Err("plain", "unknown", TRUE, 0)
  <2>1. e.kind = "plain" /\ e.text = TRUE /\ e # NoErr
    BY <1>4 DEF Err, NoErr
  <2>2. GetErrorCode(e) = "unknown"
    BY <2>1 DEF GetErrorCode
  <2>3. SendResponse(e) = [error |-> TRUE, code |-> "unknown"]
    BY <2>1 DEF SendResponse
  <2>4. Decode(SendResponse(e)) = NewError("unknown")
    <3>1. OK # "unknown"
      BY DEF OK
    <3>2. NewErrorFromResponse("unknown") = NewError("unknown")
      BY <3>1 DEF NewErrorFromResponse
    <3> QED
      BY <2>3, <3>2 DEF Decode
  <2> QED
    BY <2>1, <2>2, <2>4 DEF ErrorCodes, GRPCCodes, OK
<1>5. CASE \E form \in {"psrpc", "status", "plain"} : e = Err(form, "unavailable", FALSE, 0)
  <2>1. PICK form \in {"psrpc", "status", "plain"} : e = Err(form, "unavailable", FALSE, 0)
    BY <1>5
  <2>2. e.text = FALSE
    BY <2>1 DEF Err
  <2>3. SendResponse(e).error = FALSE
    BY <2>2 DEF SendResponse
  <2> QED
    BY <2>2, <2>3 DEF Decode
<1>6. Recovered = NewError("internal") /\ Malformed = NewError("malformed_result")
      /\ "internal" \in ErrorCodes /\ "malformed_result" \in ErrorCodes
  BY DEF Recovered, Malformed, ErrorCodes, GRPCCodes
<1> QED
  BY <1>1, <1>2, <1>3, <1>4, <1>5, <1>6 DEF HandlerErrors

(* The response to a call is only what Reply makes of the error.               *)
LEMMA StepKeepsReply ==
  ASSUME Staged, ReplyInv, [StackNext]_stackVars
  PROVE  ReplyInv'
<1>1. CASE UNCHANGED work
  BY <1>1 DEF ReplyInv, At
<1>2. ASSUME NEW err \in HandlerErrors \cup {NoErr, Recovered, Malformed}, Reply(err)
      PROVE  ReplyInv'
  BY <1>2 DEF Reply, ReplyInv, At
<1>3. CASE ~(work'.at = "replied")
  BY <1>3 DEF ReplyInv, At
<1>4. ASSUME StackNext, ~(\E err \in HandlerErrors \cup {NoErr, Recovered, Malformed} : Reply(err))
      PROVE  UNCHANGED work \/ ~(work'.at = "replied")
  <2>1. ASSUME NEW name, NEW key, SetMetadata(Op(name, key)) PROVE ~(work'.at = "replied")
    BY <2>1 DEF SetMetadata, At
  <2>2. ASSUME NEW i, NEW c, NameChannels(i, c) PROVE ~(work'.at = "replied")
    BY <2>2 DEF NameChannels
  <2>3. ASSUME NEW o, NEW c, Call(o, c) PROVE ~(work'.at = "replied")
    BY <2>3 DEF Call
  <2>4. ASSUME Attempt \/ Unserved \/ Dropped \/ Replied PROVE ~(work'.at = "replied")
    BY <2>4 DEF Attempt, Unserved, Dropped, Replied, EndsWith
  <2>5. ASSUME CancelCaller PROVE UNCHANGED work
    BY <2>5 DEF CancelCaller
  <2>6. ASSUME NEW L \in Levels, Decide(L) \/ WaitIsCut(L) \/ WaitEnds(L) PROVE ~(work'.at = "replied")
    BY <2>6 DEF Decide, WaitIsCut, WaitEnds, Pass
  <2>7. ASSUME NEW b, NEW o, NEW max, Encode(b, o, max) PROVE ~(work'.at = "replied")
    BY <2>7 DEF Encode
  <2>8. ASSUME (\E n \in 0..MaxChain : Serve(n)) \/ CallNext \/ RunHandler \/ Return
        PROVE  ~(work'.at = "replied")
    <3>1. ASSUME NEW n, Serve(n) PROVE ~(work'.at = "replied")
      BY <3>1 DEF Serve
    <3>2. ASSUME CallNext PROVE ~(work'.at = "replied")
      BY <3>2 DEF CallNext, At, Staged
    <3>3. ASSUME RunHandler PROVE ~(work'.at = "replied")
      BY <3>3 DEF RunHandler, At, Staged
    <3>4. ASSUME Return PROVE ~(work'.at = "replied")
      BY <3>4 DEF Return, At, Staged
    <3> QED
      BY <2>8, <3>1, <3>2, <3>3, <3>4
  <2> QED
    BY <1>4, <2>1, <2>2, <2>3, <2>4, <2>5, <2>6, <2>7, <2>8 DEF StackNext
<1>5. UNCHANGED stackVars => UNCHANGED work
  BY DEF stackVars
<1> QED
  BY <1>1, <1>2, <1>3, <1>4, <1>5

(* An error with a text and a code other than OK arrives at the client with    *)
(* its code and its class, and is retried there as it would have been at the   *)
(* server.                                                                     *)
THEOREM ErrorsArrive == StackSpec => []ErrorsSurvive
<1>1. StackInit => Staged /\ ChainInv /\ ReplyInv
  BY DEF StackInit, Staged, ChainInv, ReplyInv, At
<1>2. Staged /\ ChainInv /\ ReplyInv /\ [StackNext]_stackVars => Staged' /\ ChainInv' /\ ReplyInv'
  BY StepKeepsChain, StepKeepsReply
<1>3. ReplyInv => ErrorsSurvive
  <2> SUFFICES ASSUME ReplyInv, At("replied")
               PROVE  ErrorsSurvive
    BY DEF ErrorsSurvive
  <2>1. PICK e \in HandlerErrors \cup {NoErr, Recovered, Malformed} :
           e = work.err /\ work.got = Decode(SendResponse(e))
    BY DEF ReplyInv
  <2>2. CASE work.got = NoErr /\ (e = NoErr \/ ~e.text)
    BY <2>1, <2>2 DEF ErrorsSurvive
  <2>3. ASSUME NEW code \in ErrorCodes \ {OK}, work.got = NewError(code),
               code = IF GetErrorCode(e) = OK THEN "unknown" ELSE GetErrorCode(e),
               e # NoErr, e.text, e.kind \in {"psrpc", "status", "plain"},
               e.kind = "plain" => code = "unknown"
        PROVE  ErrorsSurvive
    <3>1. work.got # NoErr /\ work.got.code = code /\ work.got.kind = "psrpc"
      BY <2>3 DEF NewError, Err, NoErr
    <3>2. IsTimeout(work.got) = (code \in {"deadline_exceeded", "unavailable"})
      BY <3>1 DEF IsTimeout, HasCode, GetErrorCode
    <3>3. (IsTimeout(e) /\ e.kind # "plain") = (code \in {"deadline_exceeded", "unavailable"})
      <4>1. CASE e.kind = "plain"
        BY <2>3, <4>1
      <4>2. CASE e.kind # "plain"
        <5>1. OK \notin {"deadline_exceeded", "unavailable"}
          BY DEF OK
        <5> QED
          BY <2>3, <4>2, <5>1 DEF IsTimeout, HasCode
      <4> QED
        BY <4>1, <4>2
    <3>4. /\ ToHTTP(code) \div 100 \in {4, 5}
          /\ code \notin Coarsened => ToHTTP(ErrorCodeFromGRPC(ToGRPC(code))) \div 100 = ToHTTP(code) \div 100
          /\ ToTwirp(code) = ToGRPC(code) \/ ToTwirp(code) = "malformed"
      BY <2>3, CodesKeepTheirClass
    <3>5. work.err # NoErr
      BY <2>1, <2>3
    <3>6. GetErrorCode(work.err) # OK => work.got.code = GetErrorCode(work.err)
      BY <2>1, <2>3, <3>1
    <3>7. IsTimeout(work.got) = (IsTimeout(work.err) /\ work.err.kind # "plain")
      BY <2>1, <3>2, <3>3
    <3> QED
      BY <3>1, <3>4, <3>5, <3>6, <3>7 DEF ErrorsSurvive
  <2> QED
    BY <2>1, <2>2, <2>3, ErrorArrives
<1> QED
  BY <1>1, <1>2, <1>3, PTL DEF StackSpec

-----------------------------------------------------------------------------
RetryInv == CallTypes /\ StageInv /\ CountInv /\ WaitInv /\ HistoryInv

(* The two levels, of which Inner is inside.                                   *)
LEMMA TwoLevels ==
  /\ Levels = {Outer, Inner} /\ Outer # Inner /\ Inner > Outer /\ ~(Outer > Inner)
  /\ Outer \in Levels /\ Inner \in Levels
BY DEF Levels, Outer, Inner

(* Products: one more of a factor.                                             *)
LEMMA OneMore ==
  ASSUME NEW a \in Nat \ {0}, NEW m \in Nat
  PROVE  /\ (a - 1) * m + m = a * m /\ ((a + 1) - 1) * m = a * m
         /\ a * m \in Nat /\ (a - 1) * m \in Nat /\ (1 - 1) * m = 0 /\ 1 * m = m
OBVIOUS

(* A factor that is no larger makes a product that is no larger.               *)
LEMMA NoMore ==
  ASSUME NEW a \in Nat, NEW n \in Nat, NEW m \in Nat, a <= n
  PROVE  a * m <= n * m
OBVIOUS

(* A product is positive only if both factors are.                             *)
LEMMA BothPositive ==
  ASSUME NEW n \in Nat, NEW m \in Nat, n * m > 0
  PROVE  n > 0 /\ m > 0
OBVIOUS

(* The place of an attempt tells the attempts of the two loops.                *)
LEMMA PlaceTells ==
  ASSUME NEW a \in Nat \ {0}, NEW m \in Nat \ {0}, NEW b \in 1..m
  PROVE  LET k == (a - 1) * m + b
         IN  (k - 1) % m = b - 1 /\ (k - 1) \div m = a - 1
OBVIOUS

(* The types of what a call counts with.                                       *)
LEMMA CallTyped ==
  ASSUME CallTypes, Calling
  PROVE  /\ \A L \in Levels :
              /\ opt[L].max \in Nat /\ opt[L].timeout \in Nat /\ opt[L].backoff \in Nat
              /\ loop[L].attempt \in Nat /\ loop[L].attempt > 0
              /\ loop[L].timeout \in Nat /\ loop[L].start \in Nat /\ loop[L].start <= now
         /\ now \in Nat /\ canceled \in BOOLEAN /\ sent \in Seq(Try) /\ Len(sent) \in Nat
         /\ DOMAIN sent = 1..Len(sent)
         /\ \A k \in 1..Len(sent) :
              /\ sent[k] \in Try /\ sent[k].at \in Nat /\ sent[k].wait \in Nat
<1>1. \A l \in Level : /\ l.attempt \in Nat /\ l.attempt > 0 /\ l.timeout \in Nat /\ l.start \in Nat
  BY DEF Level
<1>2. \A t \in Try : t.at \in Nat /\ t.wait \in Nat
  BY DEF Try
<1>3. \A L \in Levels : loop[L] \in Level
  BY DEF CallTypes
<1>4. \A k \in 1..Len(sent) : sent[k] \in Try
  BY DEF CallTypes
<1>5. sent \in Seq(Try) /\ Len(sent) \in Nat /\ DOMAIN sent = 1..Len(sent)
  BY DEF CallTypes
<1> QED
  BY <1>1, <1>2, <1>3, <1>4, <1>5 DEF CallTypes

-----------------------------------------------------------------------------
(* A step of the layers below, while an attempt is under way.                  *)
LEMMA BelowKeepsRetries ==
  ASSUME RetryInv,
         work.at \in {"sent", "wire", "chain", "handler", "replied"},
         work'.at \in {"wire", "chain", "handler", "replied"},
         work'.at = "wire" => work.at = "sent" /\ work'.expiry = work.expiry,
         UNCHANGED <<callVars, loop, now, canceled, sent>>
  PROVE  RetryInv'
<1>1. UNCHANGED <<opt, caller, loop, now, canceled, sent>>
  BY DEF callVars
<1>2. Calling /\ Calling' /\ InFlight /\ InFlight'
  BY DEF Calling, InFlight, At
<1>3. CallTypes'
  BY <1>1, <1>2 DEF RetryInv, CallTypes, HasDeadline
<1>4. StageInv'
  BY <1>1, <1>2 DEF RetryInv, StageInv, HasDeadline, At, Latest
<1>5. CountInv'
  BY <1>1, <1>2 DEF RetryInv, CountInv, Place, At
<1>6. WaitInv'
  BY <1>1, <1>2 DEF RetryInv, WaitInv, Latest, At
<1>7. HistoryInv'
  BY <1>1, <1>2 DEF RetryInv, HistoryInv, TryIsAsConfigured, LevelTimeout, AttemptOf, HasDeadline
<1> QED
  BY <1>3, <1>4, <1>5, <1>6, <1>7 DEF RetryInv

(* The caller cancels, while an attempt is under way or a level waits.         *)
LEMMA CancelKeepsRetries ==
  ASSUME RetryInv, CancelCaller
  PROVE  RetryInv'
<1>1. UNCHANGED <<work, opt, caller, loop, now, sent>> /\ canceled' = TRUE /\ ~At("attempt") /\ ~At("attempt")'
  BY DEF CancelCaller, callVars, At
<1>2. UNCHANGED <<Calling, InFlight>>
  BY <1>1 DEF Calling, InFlight, At
<1>3. CallTypes'
  BY <1>1, <1>2 DEF RetryInv, CallTypes, HasDeadline
<1>4. StageInv'
  BY <1>1, <1>2 DEF RetryInv, StageInv, HasDeadline, At, Latest, Retriable, IsTimeout
<1>5. CountInv'
  BY <1>1, <1>2 DEF RetryInv, CountInv, Place, At, Retriable, IsTimeout
<1>6. WaitInv'
  BY <1>1, <1>2 DEF RetryInv, WaitInv, Latest, At, Retriable, IsTimeout
<1>7. HistoryInv'
  BY <1>1, <1>2 DEF RetryInv, HistoryInv, TryIsAsConfigured, LevelTimeout, AttemptOf, HasDeadline
<1> QED
  BY <1>3, <1>4, <1>5, <1>6, <1>7 DEF RetryInv

(* The steps before the call.                                                  *)
LEMMA BeforeKeepsRetries ==
  ASSUME RetryInv, ~Calling, ~Calling',
         UNCHANGED <<callVars, loop, now, canceled, sent>>
  PROVE  RetryInv'
<1>1. work'.at \in {"context", "named"} /\ UNCHANGED <<now, canceled, sent>> /\ sent = <<>> /\ now = 0
  BY DEF RetryInv, CallTypes, Calling, At
<1>2. CallTypes'
  BY <1>1 DEF RetryInv, CallTypes
<1>3. StageInv' /\ WaitInv'
  BY <1>1 DEF StageInv, WaitInv, At, InFlight
<1> QED
  BY <1>2, <1>3 DEF RetryInv, CountInv, HistoryInv

(* The call begins: both loops are at their first attempt.                     *)
LEMMA CallKeepsRetries ==
  ASSUME RetryInv, NEW o \in [Levels -> RetryOptsSet], NEW c \in Callers, Call(o, c)
  PROVE  RetryInv'
<1>1. /\ sent = <<>> /\ now = 0 /\ canceled \in BOOLEAN
      /\ UNCHANGED <<now, canceled, sent>>
      /\ opt' = o /\ caller' = c /\ work' = [at |-> "attempt"]
      /\ loop' = [L \in Levels |-> [attempt |-> 1, timeout |-> o[L].timeout, start |-> 0]]
  BY DEF RetryInv, CallTypes, Calling, At, Call, NewLoop
<1>2. /\ \A L \in Levels : o[L].max \in Nat /\ o[L].timeout \in Nat /\ o[L].backoff \in Nat
      /\ c.timeout \in Nat /\ c.deadline \in Nat
  BY CallStackAssumption
<1>3. \A L \in Levels : /\ loop'[L] \in Level /\ loop'[L].attempt = 1
                         /\ loop'[L].timeout = o[L].timeout /\ loop'[L].start = 0
  BY <1>1, <1>2 DEF Level
<1>4. loop' \in [Levels -> Level]
  BY <1>1, <1>3
<1>5. work'.at = "attempt" /\ sent' = <<>> /\ Len(sent') = 0 /\ now' = 0 /\ canceled' \in BOOLEAN /\ sent' \in Seq(Try)
  BY <1>1
<1>6. CallTypes'
  BY <1>1, <1>2, <1>3, <1>4, <1>5 DEF CallTypes, Calling, At, HasDeadline
<1>7. StageInv' /\ WaitInv'
  BY <1>3, <1>5, TwoLevels DEF StageInv, WaitInv, At, InFlight
<1>8. CountInv'
  <2>1. \A L \in Levels : o[L].timeout = o[L].timeout + (1 - 1) * o[L].backoff
    BY <1>2
  <2>2. o[Inner].max \in Nat /\ o[Outer].max \in Nat /\ (1 - 1) * o[Inner].max = 0 /\ 1 * o[Inner].max = o[Inner].max
    BY <1>2, TwoLevels
  <2>3. Place' = 1
    BY <1>1, <1>3, <2>2, TwoLevels DEF Place
  <2>4. ~InFlight' /\ At("attempt")' /\ ~At("waiting")' /\ ~At("outcome")' /\ ~At("returned")'
    BY <1>5 DEF InFlight, At
  <2> QED
    BY <1>1, <1>3, <1>5, <2>1, <2>2, <2>3, <2>4, TwoLevels DEF CountInv
<1>9. HistoryInv'
  BY <1>5 DEF HistoryInv
<1> QED
  BY <1>6, <1>7, <1>8, <1>9 DEF RetryInv

(* The timeout of an attempt, and when it expires.                             *)
LEMMA TimeoutIsSet ==
  ASSUME CallTypes, Calling
  PROVE  /\ Timeout \in Nat /\ Expiry \in Nat /\ now <= Expiry
         /\ HasDeadline => Expiry <= caller.deadline
         /\ caller.timeout > 0 => Timeout = caller.timeout
         /\ (caller.timeout = 0 /\ loop[Inner].timeout > 0) => Timeout = loop[Inner].timeout
         /\ (caller.timeout = 0 /\ loop[Inner].timeout = 0 /\ loop[Outer].timeout > 0) =>
                 Timeout = loop[Outer].timeout
<1>1. PICK t, u, v, dl : t = caller.timeout /\ u = loop[Outer].timeout /\ v = loop[Inner].timeout /\ dl = caller.deadline
  OBVIOUS
<1>2. /\ t \in Nat /\ u \in Nat /\ v \in Nat /\ dl \in Nat /\ now \in Nat
      /\ dl > 0 => now <= dl
  BY <1>1, CallTyped, TwoLevels DEF CallTypes, HasDeadline
<1>3. BaseTimeout \in Nat
  BY <1>1, <1>2, CallStackAssumption DEF BaseTimeout, HasDeadline
<1>4. CASE t > 0
  <2>1. Timeout = t
    BY <1>1, <1>2, <1>4 DEF Timeout, TimeoutOptions, Last
  <2> QED
    BY <1>1, <1>2, <1>4, <2>1 DEF Expiry, HasDeadline
<1>5. CASE t = 0 /\ v > 0
  <2> DEFINE q == WithTimeout(u) \o <<v>>
  <2>1. TimeoutOptions = q
    BY <1>1, <1>2, <1>5 DEF TimeoutOptions, WithTimeout
  <2>2. Timeout = v
    <3>1. WithTimeout(u) \in Seq(Nat)
      BY <1>2 DEF WithTimeout
    <3>2. q \in Seq(Nat) /\ Len(q) = Len(WithTimeout(u)) + 1 /\ q[Len(q)] = v
      BY <1>2, <3>1
    <3>3. q # <<>>
      BY <3>1, <3>2
    <3> QED
      BY <2>1, <3>2, <3>3 DEF Timeout, Last
  <2> QED
    BY <1>1, <1>2, <1>5, <2>2 DEF Expiry, HasDeadline
<1>6. CASE t = 0 /\ v = 0 /\ u > 0
  <2>1. TimeoutOptions = <<u>>
    BY <1>1, <1>2, <1>6 DEF TimeoutOptions, WithTimeout
  <2>2. Timeout = u
    BY <2>1, <1>2 DEF Timeout, Last
  <2> QED
    BY <1>1, <1>2, <1>6, <2>2 DEF Expiry, HasDeadline
<1>7. CASE t = 0 /\ v = 0 /\ u = 0
  <2>1. TimeoutOptions = <<>>
    BY <1>1, <1>2, <1>7 DEF TimeoutOptions, WithTimeout
  <2>2. Timeout = BaseTimeout
    BY <2>1 DEF Timeout
  <2> QED
    BY <1>1, <1>2, <1>3, <1>7, <2>2 DEF Expiry, HasDeadline
<1> QED
  BY <1>2, <1>4, <1>5, <1>6, <1>7

(* The attempt that the loops are at is the one that the history tells by its  *)
(* place, and so is its timeout.                                               *)
LEMMA PlaceIsTold ==
  ASSUME CallTypes, CountInv, Calling
  PROVE  \A L \in Levels : AttemptOf(L, Place) = loop[L].attempt /\ LevelTimeout(L, Place) = loop[L].timeout
<1>1. PICK a, b, m : a = loop[Outer].attempt /\ b = loop[Inner].attempt /\ m = opt[Inner].max
  OBVIOUS
<1>2. a \in Nat /\ a > 0 /\ b \in Nat /\ b > 0 /\ m \in Nat
  BY <1>1, CallTyped, TwoLevels
<1>3. AttemptOf(Outer, Place) = a /\ AttemptOf(Inner, Place) = b
  <2>1. CASE m = 0
    BY <1>1, <1>2, <2>1, TwoLevels DEF AttemptOf, Place, CountInv
  <2>2. CASE m # 0
    <3>1. b \in 1..m
      BY <1>1, <1>2, <2>2 DEF CountInv
    <3>2. Place = (a - 1) * m + b
      BY <1>1, <2>2 DEF Place
    <3>3. (Place - 1) % m = b - 1 /\ (Place - 1) \div m = a - 1
      BY <1>2, <2>2, <3>1, <3>2, PlaceTells
    <3>4. AttemptOf(Outer, Place) = (a - 1) + 1 /\ AttemptOf(Inner, Place) = (b - 1) + 1
      BY <1>1, <2>2, <3>3, TwoLevels DEF AttemptOf
    <3> QED
      BY <1>2, <3>4
  <2> QED
    BY <2>1, <2>2
<1>4. \A L \in Levels : AttemptOf(L, Place) = loop[L].attempt
  BY <1>1, <1>3, TwoLevels
<1> QED
  BY <1>4 DEF LevelTimeout, CountInv

(* An attempt is made.                                                         *)
LEMMA AttemptKeepsRetries ==
  ASSUME RetryInv, Attempt
  PROVE  RetryInv'
<1> DEFINE e == [at |-> now, timeout |-> Timeout, expiry |-> Expiry, wait |-> 0, late |-> Done]
           n == Len(sent)
<1>1. /\ At("attempt") /\ Calling /\ UNCHANGED <<opt, caller, loop, now, canceled>>
      /\ work' = [at |-> "sent", expiry |-> Expiry] /\ sent' = Append(sent, e)
  BY DEF Attempt, callVars, Calling, At
<1>2. CallTypes /\ CountInv
  BY DEF RetryInv
<1>3. /\ Timeout \in Nat /\ Expiry \in Nat /\ now <= Expiry /\ now \in Nat
      /\ HasDeadline => Expiry <= caller.deadline
  BY <1>1, <1>2, TimeoutIsSet, CallTyped
<1>4. e \in Try
  <2>1. Done \in BOOLEAN
    BY <1>1, <1>2, CallTyped DEF Done
  <2> QED
    BY <1>3, <2>1 DEF Try
<1>5. /\ e.at = now /\ e.timeout = Timeout /\ e.expiry = Expiry /\ e.wait = 0 /\ e.late = Done
  OBVIOUS
<1> HIDE DEF e
<1>6. n \in Nat /\ sent \in Seq(Try)
  BY <1>1, <1>2, CallTyped
<1>7. /\ sent' \in Seq(Try) /\ Len(sent') = n + 1 /\ sent'[n + 1] = e /\ Latest' = e
      /\ \A k \in 1..n : sent'[k] = sent[k]
  BY <1>1, <1>4, <1>6 DEF Latest
<1>8. /\ work'.at = "sent" /\ work'.expiry = Expiry /\ Calling' /\ InFlight'
      /\ ~At("attempt")' /\ ~At("waiting")' /\ ~At("outcome")' /\ ~At("returned")'
  BY <1>1 DEF Calling, InFlight, At
<1>9. CallTypes'
  BY <1>1, <1>2, <1>7, <1>8 DEF CallTypes, HasDeadline
<1>10. StageInv'
  BY <1>1, <1>3, <1>5, <1>6, <1>7, <1>8 DEF StageInv, HasDeadline, At
<1>11. n + 1 = Place
  BY <1>1, <1>2 DEF CountInv
<1>12. CountInv'
  <2>1. PICK a, b, m : a = loop[Outer].attempt /\ b = loop[Inner].attempt /\ m = opt[Inner].max
    OBVIOUS
  <2>2. a \in Nat /\ a > 0 /\ b \in Nat /\ b > 0 /\ m \in Nat
    BY <1>1, <1>2, <2>1, CallTyped, TwoLevels
  <2>3. m > 0 => n + 1 <= a * m
    <3> SUFFICES ASSUME m > 0 PROVE n + 1 <= a * m
      OBVIOUS
    <3>1. n + 1 = (a - 1) * m + b /\ b <= m
      BY <1>1, <1>2, <1>11, <2>1, <2>2 DEF Place, CountInv
    <3>2. (a - 1) * m + m = a * m /\ (a - 1) * m \in Nat /\ a * m \in Nat
      BY <2>2, OneMore
    <3> QED
      BY <2>2, <3>1, <3>2
  <2>4. Place' = Place
    BY <1>1 DEF Place
  <2> QED
    BY <1>1, <1>2, <1>7, <1>8, <1>11, <2>1, <2>3, <2>4 DEF CountInv
<1>13. WaitInv'
  BY <1>1, <1>5, <1>7, <1>8 DEF RetryInv, WaitInv
<1>14. HistoryInv'
  <2> SUFFICES ASSUME NEW k \in 1..(n + 1) PROVE TryIsAsConfigured(k)'
    BY <1>6, <1>7 DEF HistoryInv
  <2>1. \A L \in Levels : UNCHANGED <<AttemptOf(L, k), LevelTimeout(L, k)>>
    BY <1>1 DEF AttemptOf, LevelTimeout
  <2>2. CASE k \in 1..n
    <3>1. sent'[k] = sent[k] /\ (k > 1 => sent'[k - 1] = sent[k - 1])
      BY <1>6, <1>7, <2>2
    <3>2. TryIsAsConfigured(k)
      BY <1>1, <1>6, <2>2 DEF RetryInv, HistoryInv
    <3> QED
      BY <1>1, <2>1, <3>1, <3>2, TwoLevels DEF TryIsAsConfigured, HasDeadline
  <2>3. CASE k = n + 1
    <3>1. sent'[k] = e /\ (k > 1 => sent'[k - 1] = Latest)
      BY <1>6, <1>7, <2>3 DEF Latest
    <3>2. \A L \in Levels : AttemptOf(L, k) = loop[L].attempt /\ LevelTimeout(L, k) = loop[L].timeout
      BY <1>1, <1>2, <1>11, <2>3, PlaceIsTold
    <3>3. k > 1 => /\ now >= Latest.at + Latest.wait \/ (opt[Inner].max > 1 /\ loop[Inner].attempt = 1)
                   /\ Done => Latest.wait > 0
      BY <1>1, <1>6, <2>3 DEF RetryInv, WaitInv
    <3>4. /\ caller.timeout > 0 => Timeout = caller.timeout
          /\ (caller.timeout = 0 /\ loop[Inner].timeout > 0) => Timeout = loop[Inner].timeout
          /\ (caller.timeout = 0 /\ loop[Inner].timeout = 0 /\ loop[Outer].timeout > 0) =>
                  Timeout = loop[Outer].timeout
      BY <1>1, <1>2, TimeoutIsSet
    <3> QED
      BY <1>1, <1>3, <1>5, <2>1, <3>1, <3>2, <3>3, <3>4, TwoLevels DEF TryIsAsConfigured, HasDeadline
  <2> QED
    BY <1>6, <2>2, <2>3
<1> QED
  BY <1>9, <1>10, <1>12, <1>13, <1>14 DEF RetryInv

(* An attempt ends.                                                            *)
LEMMA EndKeepsRetries ==
  ASSUME RetryInv, work.at \in {"sent", "wire", "replied"},
         NEW err, err.wait \in Nat, err.wait > 0 => err.kind = "noSubscriber",
         NEW time \in Nat, now <= time, HasDeadline => time <= caller.deadline,
         EndsWith(err, time)
  PROVE  RetryInv'
<1> DEFINE n == Len(sent)
           e == [sent[n] EXCEPT !.wait = err.wait]
<1>1. /\ Calling /\ InFlight /\ UNCHANGED <<opt, caller, loop, canceled>> /\ now' = time
      /\ work' = [at |-> "outcome", level |-> Inner, err |-> err]
      /\ sent' = [sent EXCEPT ![n].wait = err.wait]
  BY DEF EndsWith, callVars, Calling, InFlight, At
<1>2. CallTypes /\ CountInv
  BY DEF RetryInv
<1>3. n \in Nat /\ n > 0 /\ n \in 1..n /\ sent \in Seq(Try) /\ DOMAIN sent = 1..n /\ Latest.at <= now /\ now \in Nat
      /\ sent[n] \in Try
  <2>1. n > 0 /\ Latest.at <= now
    BY <1>1 DEF RetryInv, StageInv
  <2> QED
    BY <1>1, <1>2, <2>1, CallTyped
<1>4. /\ e \in Try /\ e.at = sent[n].at /\ e.timeout = sent[n].timeout /\ e.expiry = sent[n].expiry
      /\ e.late = sent[n].late /\ e.wait = err.wait
  BY <1>3 DEF Try
<1>5. sent' = [sent EXCEPT ![n] = e]
  BY <1>1
<1> HIDE DEF e
<1>6. /\ sent' \in Seq(Try) /\ Len(sent') = n /\ sent'[n] = e /\ Latest' = e
      /\ \A k \in 1..n : k # n => sent'[k] = sent[k]
      /\ DOMAIN sent' = 1..n
  <2>1. /\ sent' \in Seq(Try) /\ Len(sent') = n
    BY <1>3, <1>4, <1>5
  <2>2. \A k \in 1..n : sent'[k] = IF k = n THEN e ELSE sent[k]
    BY <1>3, <1>5
  <2>3. DOMAIN sent' = 1..n
    BY <2>1
  <2> QED
    BY <1>3, <2>1, <2>2, <2>3 DEF Latest
<1>7. /\ work'.at = "outcome" /\ work'.level = Inner /\ work'.err = err /\ Calling' /\ InFlight'
      /\ ~At("attempt")' /\ ~At("waiting")' /\ At("outcome")' /\ ~At("returned")'
      /\ ~At("sent")' /\ ~At("wire")'
  BY <1>1 DEF Calling, InFlight, At
<1>8. CallTypes'
  <2>1. \A L \in Levels : loop[L].start <= time
    BY <1>1, <1>2, <1>3, CallTyped
  <2> QED
    BY <1>1, <1>2, <1>6, <1>7, <2>1 DEF CallTypes, HasDeadline
<1>9. StageInv'
  <2>1. Latest'.at <= now' /\ Latest'.wait = err.wait /\ Len(sent') > 0
    <3>1. sent[n].at \in Nat
      BY <1>3 DEF Try
    <3> QED
      BY <1>1, <1>3, <1>4, <1>6, <3>1 DEF Latest
  <2> QED
    BY <1>7, <2>1, TwoLevels DEF StageInv
<1>10. CountInv'
  <2>1. Place' = Place /\ n = Place
    BY <1>1, <1>2 DEF Place, CountInv
  <2> QED
    BY <1>1, <1>2, <1>6, <1>7, <2>1, TwoLevels DEF CountInv
<1>11. WaitInv'
  BY <1>1, <1>4, <1>6, <1>7, TwoLevels DEF RetryInv, WaitInv, Latest
<1>12. HistoryInv'
  <2> SUFFICES ASSUME NEW k \in 1..n PROVE TryIsAsConfigured(k)'
    BY <1>3, <1>6 DEF HistoryInv
  <2>1. \A L \in Levels : UNCHANGED <<AttemptOf(L, k), LevelTimeout(L, k)>>
    BY <1>1 DEF AttemptOf, LevelTimeout
  <2>2. /\ sent'[k].at = sent[k].at /\ sent'[k].timeout = sent[k].timeout /\ sent'[k].expiry = sent[k].expiry
        /\ sent'[k].late = sent[k].late
    <3>1. CASE k = n
      BY <1>4, <1>6, <3>1
    <3>2. CASE k # n
      BY <1>6, <3>2
    <3> QED
      BY <3>1, <3>2
  <2>3. k > 1 => sent'[k - 1] = sent[k - 1]
    <3>1. k > 1 => k - 1 \in 1..n /\ k - 1 # n
      BY <1>3
    <3> QED
      BY <1>6, <3>1
  <2>4. TryIsAsConfigured(k)
    BY <1>1, <1>3 DEF RetryInv, HistoryInv
  <2> QED
    BY <1>1, <2>1, <2>2, <2>3, <2>4, TwoLevels DEF TryIsAsConfigured, HasDeadline
<1> QED
  BY <1>8, <1>9, <1>10, <1>11, <1>12 DEF RetryInv

(* A level waits no less than what the broker cut short, and not otherwise.    *)
LEMMA WaitsOut ==
  ASSUME NEW L \in Levels, NEW err, err.wait \in Nat, err.wait > 0 => err.kind = "noSubscriber",
         now \in Nat, loop[L].start \in Nat, loop[L].start <= now
  PROVE  /\ WaitTime(L, err) \in Nat
         /\ WaitTime(L, err) > 0 => err.wait > 0
         /\ now + WaitTime(L, err) >= loop[L].start + err.wait
BY DEF WaitTime

(* A level goes again: its loop counts one more attempt.                       *)
LEMMA RetryKeepsRetries ==
  ASSUME RetryInv, NEW L \in Levels, Decide(L), Retriable(work.err), loop[L].attempt # opt[L].max
  PROVE  RetryInv'
<1>1. /\ At("outcome") /\ work.level = L /\ Calling /\ UNCHANGED <<opt, caller, now, canceled, sent>>
      /\ work' = [at |-> "waiting", level |-> L, wait |-> WaitTime(L, work.err)]
      /\ loop' = [loop EXCEPT ![L].attempt = @ + 1, ![L].timeout = @ + opt[L].backoff]
  BY DEF Decide, callVars, Calling, At, Retriable, ShouldRetry
<1>2. CallTypes /\ StageInv /\ CountInv /\ WaitInv
  BY DEF RetryInv
<1>3. /\ work'.at = "waiting" /\ work'.level = L /\ work'.wait = WaitTime(L, work.err)
      /\ Calling' /\ ~InFlight' /\ At("waiting")'
      /\ ~At("attempt")' /\ ~At("outcome")' /\ ~At("returned")' /\ ~At("sent")' /\ ~At("wire")'
  BY <1>1 DEF Calling, InFlight, At
<1>4. /\ loop' \in [Levels -> Level]
      /\ loop'[L].attempt = loop[L].attempt + 1 /\ loop'[L].timeout = loop[L].timeout + opt[L].backoff
      /\ loop'[L].start = loop[L].start
      /\ \A M \in Levels : M # L => loop'[M] = loop[M]
  <2>1. loop[L] \in Level /\ loop \in [Levels -> Level] /\ opt[L].backoff \in Nat
    BY <1>1, <1>2 DEF CallTypes
  <2> DEFINE l == [loop[L] EXCEPT !.attempt = @ + 1, !.timeout = @ + opt[L].backoff]
  <2>2. /\ l \in Level /\ l.start = loop[L].start
        /\ l.attempt = loop[L].attempt + 1 /\ l.timeout = loop[L].timeout + opt[L].backoff
    <3>1. PICK x \in Level, y \in Nat : x = loop[L] /\ y = opt[L].backoff
      BY <2>1
    <3> DEFINE u == [x EXCEPT !.attempt = x.attempt + 1]
               v == [u EXCEPT !.timeout = x.timeout + y]
    <3>2. u \in Level /\ u.attempt = x.attempt + 1 /\ u.timeout = x.timeout /\ u.start = x.start
      BY DEF Level
    <3> HIDE DEF u
    <3>3. v \in Level /\ v.attempt = u.attempt /\ v.timeout = x.timeout + y /\ v.start = u.start
      <4>1. x.timeout + y \in Nat
        BY DEF Level
      <4> QED
        BY <3>2, <4>1 DEF Level
    <3>4. l = v
      BY <3>1 DEF u
    <3> QED
      BY <3>1, <3>2, <3>3, <3>4
  <2>3. loop'[L] = l /\ DOMAIN loop' = Levels /\ (\A M \in Levels : M # L => loop'[M] = loop[M])
    BY <1>1, <2>1
  <2>4. loop' = [M \in Levels |-> loop'[M]]
    BY <1>1, <2>1, <2>3
  <2> HIDE DEF l
  <2>5. \A M \in Levels : loop'[M] \in Level
    BY <2>1, <2>2, <2>3
  <2> QED
    BY <2>2, <2>3, <2>4, <2>5
<1>5. /\ work.err.wait \in Nat /\ Latest.wait = work.err.wait /\ Len(sent) > 0 /\ Latest.at <= now
      /\ work.err.wait > 0 => work.err.kind = "noSubscriber"
      /\ now \in Nat /\ loop[L].start \in Nat /\ loop[L].start <= now
      /\ Latest.at \in Nat /\ Latest' = Latest /\ Len(sent) \in Nat
  <2>1. /\ work.err.wait \in Nat /\ Latest.wait = work.err.wait /\ Len(sent) > 0 /\ Latest.at <= now
        /\ work.err.wait > 0 => work.err.kind = "noSubscriber"
    BY <1>1, <1>2 DEF StageInv
  <2>2. now \in Nat /\ loop[L].start \in Nat /\ loop[L].start <= now /\ Len(sent) \in Nat
    BY <1>1, <1>2, CallTyped
  <2>3. Latest.at \in Nat
    BY <1>1, <1>2, <2>1, <2>2, CallTyped DEF Latest
  <2> QED
    BY <1>1, <2>1, <2>2, <2>3 DEF Latest
<1>6. /\ WaitTime(L, work.err) \in Nat
      /\ WaitTime(L, work.err) > 0 => Latest.wait > 0
      /\ now + WaitTime(L, work.err) >= loop[L].start + Latest.wait
  BY <1>5, WaitsOut
<1>7. CallTypes'
  <2>1. \A M \in Levels : loop'[M].start <= now
    BY <1>1, <1>2, <1>4, CallTyped
  <2> QED
    BY <1>1, <1>2, <1>3, <1>4, <2>1 DEF CallTypes, HasDeadline
<1>8. StageInv'
  BY <1>1, <1>3, <1>5, <1>6 DEF StageInv
<1>9. PICK a, b, m, n : a = loop[Outer].attempt /\ b = loop[Inner].attempt /\ m = opt[Inner].max /\ n = opt[Outer].max
  OBVIOUS
<1>10. a \in Nat /\ a > 0 /\ b \in Nat /\ b > 0 /\ m \in Nat /\ n \in Nat
  BY <1>1, <1>2, <1>9, CallTyped, TwoLevels
<1>11. \A M \in Levels : loop'[M].timeout = opt'[M].timeout + (loop'[M].attempt - 1) * opt'[M].backoff
  <2> TAKE M \in Levels
  <2>1. loop[M].timeout = opt[M].timeout + (loop[M].attempt - 1) * opt[M].backoff
    BY <1>1, <1>2 DEF CountInv
  <2>2. CASE M = L
    <3>1. PICK c, bo, t : c = loop[L].attempt /\ bo = opt[L].backoff /\ t = opt[L].timeout
      OBVIOUS
    <3>2. c \in Nat \ {0} /\ bo \in Nat /\ t \in Nat
      BY <1>1, <1>2, <3>1, CallTyped
    <3>3. (c - 1) * bo + bo = c * bo /\ ((c + 1) - 1) * bo = c * bo /\ c * bo \in Nat /\ (c - 1) * bo \in Nat
      BY <3>2, OneMore
    <3>4. loop'[M].timeout = (t + (c - 1) * bo) + bo
      BY <1>4, <2>1, <2>2, <3>1
    <3>5. (t + (c - 1) * bo) + bo = t + ((c + 1) - 1) * bo
      BY <3>2, <3>3
    <3> QED
      BY <1>1, <1>4, <2>2, <3>1, <3>4, <3>5
  <2>3. CASE M # L
    BY <1>1, <1>4, <2>1, <2>3
  <2> QED
    BY <2>2, <2>3
<1>12. (n > 0 => a <= n) /\ (m > 0 => b <= m /\ Len(sent) <= a * m)
  BY <1>1, <1>2, <1>9 DEF CountInv
<1>13. a * m \in Nat /\ (a - 1) * m \in Nat /\ ((a + 1) - 1) * m = a * m /\ a * m <= (a + 1) * m /\ (a + 1) * m \in Nat
  <2>1. a * m <= (a + 1) * m
    BY <1>10, NoMore
  <2>2. (a + 1) * m \in Nat
    BY <1>10, OneMore
  <2> QED
    BY <1>10, <2>1, <2>2, OneMore
<1>14. ASSUME L = Inner PROVE CountInv' /\ WaitInv'
  <2>1. /\ loop'[Inner].attempt = b + 1 /\ loop'[Outer] = loop[Outer] /\ loop'[Outer].attempt = a /\ InFlight
        /\ b # m
    BY <1>1, <1>4, <1>9, <1>14, TwoLevels DEF InFlight
  <2>2. Len(sent) + 1 = Place'
    <3>1. Len(sent) = Place
      BY <1>1, <1>2, <2>1 DEF CountInv
    <3> QED
      <4>1. Place = IF m = 0 THEN b ELSE (a - 1) * m + b
        BY <1>9 DEF Place
      <4>2. Place' = IF m = 0 THEN b + 1 ELSE (a - 1) * m + (b + 1)
        BY <1>1, <1>9, <2>1 DEF Place
      <4> QED
        BY <1>10, <1>13, <3>1, <4>1, <4>2
  <2>3. CountInv'
    <3>1. /\ n > 0 => loop'[Outer].attempt <= n
          /\ m = 0 => loop'[Outer].attempt = 1
          /\ m > 0 => loop'[Inner].attempt <= m /\ Len(sent) <= loop'[Outer].attempt * m
          /\ loop'[Inner].attempt > 1
      BY <1>1, <1>2, <1>9, <1>10, <1>12, <2>1 DEF CountInv
    <3> QED
      BY <1>1, <1>3, <1>9, <1>11, <1>14, <2>2, <3>1, TwoLevels DEF CountInv
  <2>4. WaitInv'
    <3>1. loop[L].start = Latest.at
      BY <1>2, <1>14, <2>1 DEF WaitInv
    <3> QED
      BY <1>1, <1>3, <1>5, <1>6, <3>1 DEF WaitInv
  <2> QED
    BY <2>3, <2>4
<1>15. ASSUME L = Outer PROVE CountInv' /\ WaitInv'
  <2>1. /\ loop'[Outer].attempt = a + 1 /\ loop'[Inner] = loop[Inner] /\ loop'[Inner].attempt = b
        /\ a # n
    BY <1>1, <1>4, <1>9, <1>15, TwoLevels
  <2>2. m > 0 /\ b = m /\ Len(sent) = a * m
    BY <1>1, <1>2, <1>9, <1>15 DEF CountInv
  <2>3. CountInv'
    <3>1. /\ n > 0 => loop'[Outer].attempt <= n
          /\ m > 0
          /\ loop'[Inner].attempt <= m /\ Len(sent) <= loop'[Outer].attempt * m
          /\ Len(sent) = (loop'[Outer].attempt - 1) * m
      BY <1>10, <1>12, <1>13, <2>1, <2>2
    <3> QED
      BY <1>1, <1>3, <1>9, <1>10, <1>11, <1>15, <3>1, TwoLevels DEF CountInv
  <2>4. WaitInv'
    <3>1. m = 1 => loop[L].start = Latest.at
      BY <1>1, <1>2, <1>9, <1>15 DEF WaitInv
    <3>2. now + WaitTime(L, work.err) >= Latest.at + Latest.wait \/ m > 1
      BY <1>6, <1>10, <2>2, <3>1
    <3> QED
      BY <1>1, <1>3, <1>5, <1>6, <1>9, <1>15, <3>2 DEF WaitInv
  <2> QED
    BY <2>3, <2>4
<1>16. HistoryInv'
  BY <1>1, <1>3 DEF RetryInv, HistoryInv, TryIsAsConfigured, LevelTimeout, AttemptOf, HasDeadline
<1>17. CountInv' /\ WaitInv'
  BY <1>14, <1>15, TwoLevels
<1> QED
  BY <1>7, <1>8, <1>16, <1>17 DEF RetryInv

(* A level passes on what it has: the loops are left as they are.              *)
LEMMA PassKeepsRetries ==
  ASSUME RetryInv, NEW L \in Levels, NEW err, work'= Pass(L, err), At("outcome") \/ At("waiting"),
         work.level = L,
         Retriable(err) => At("outcome") /\ err = work.err /\ loop[L].attempt = opt[L].max,
         now' \in Nat, now <= now', HasDeadline => now' <= caller.deadline,
         UNCHANGED <<opt, caller, loop, canceled, sent>>
  PROVE  RetryInv'
<1>1. /\ Calling /\ Calling' /\ ~InFlight' /\ work'.err = err
      /\ ~At("attempt")' /\ ~At("waiting")' /\ ~At("sent")' /\ ~At("wire")'
      /\ L = Inner => At("outcome")' /\ work'.level = Outer /\ ~At("returned")'
      /\ L = Outer => At("returned")' /\ ~At("outcome")'
  BY TwoLevels DEF Pass, Calling, InFlight, At
<1>2. CallTypes /\ StageInv /\ CountInv /\ WaitInv
  BY DEF RetryInv
<1>3. now \in Nat /\ Latest' = Latest /\ Latest.at \in Nat /\ Len(sent) > 0 /\ Latest.at <= now
  <2>1. Len(sent) > 0 /\ Latest.at <= now
    BY <1>2 DEF StageInv
  <2> QED
    BY <1>1, <1>2, <2>1, CallTyped DEF Latest
<1>4. CallTypes'
  <2>1. \A M \in Levels : loop[M].start <= now'
    BY <1>1, <1>2, <1>3, CallTyped
  <2> QED
    BY <1>1, <1>2, <2>1 DEF CallTypes, HasDeadline
<1>5. StageInv'
  <2>1. Latest.at <= now'
    BY <1>3
  <2>2. Retriable(err) => /\ err.wait \in Nat
                          /\ Latest.wait = err.wait
                          /\ err.wait > 0 => err.kind = "noSubscriber"
    BY <1>2 DEF StageInv
  <2> QED
    BY <1>1, <1>3, <2>1, <2>2, TwoLevels DEF StageInv
<1>6. PICK a, b, m, n : a = loop[Outer].attempt /\ b = loop[Inner].attempt /\ m = opt[Inner].max /\ n = opt[Outer].max
  OBVIOUS
<1>7. a \in Nat /\ a > 0 /\ b \in Nat /\ b > 0 /\ m \in Nat /\ n \in Nat
  BY <1>1, <1>2, <1>6, CallTyped, TwoLevels
<1>8. (L = Inner /\ Retriable(err)) => InFlight /\ b = m /\ m > 0 /\ Len(sent) = a * m
  <2> SUFFICES ASSUME L = Inner, Retriable(err)
               PROVE  InFlight /\ b = m /\ m > 0 /\ Len(sent) = a * m
    OBVIOUS
  <2>1. InFlight /\ b = m /\ m > 0
    BY <1>6, <1>7 DEF InFlight
  <2>2. Len(sent) = (a - 1) * m + b
    BY <1>1, <1>2, <1>6, <1>7, <2>1 DEF CountInv, Place
  <2>3. (a - 1) * m + m = a * m
    BY <1>7, OneMore
  <2> QED
    BY <2>1, <2>2, <2>3
<1>9. (L = Outer /\ Retriable(err)) => n > 0 /\ m > 0 /\ Len(sent) = n * m
  BY <1>1, <1>2, <1>6, <1>7 DEF CountInv
<1>10. CountInv'
  BY <1>1, <1>2, <1>6, <1>8, <1>9, TwoLevels DEF CountInv, Retriable, IsTimeout
<1>11. WaitInv'
  <2>1. (L = Inner /\ Retriable(err) /\ m = 1) => loop[Outer].start = Latest.at
    BY <1>2, <1>6, <1>8 DEF WaitInv
  <2> QED
    BY <1>1, <1>3, <1>6, <2>1, TwoLevels DEF WaitInv, Retriable, IsTimeout
<1>12. HistoryInv'
  BY <1>1 DEF RetryInv, HistoryInv, TryIsAsConfigured, LevelTimeout, AttemptOf, HasDeadline
<1> QED
  BY <1>4, <1>5, <1>10, <1>11, <1>12 DEF RetryInv

(* A level decides.                                                            *)
LEMMA DecideKeepsRetries ==
  ASSUME RetryInv, NEW L \in Levels, Decide(L)
  PROVE  RetryInv'
<1>1. CASE Retriable(work.err) /\ loop[L].attempt # opt[L].max
  BY <1>1, RetryKeepsRetries
<1>2. CASE ~(Retriable(work.err) /\ loop[L].attempt # opt[L].max)
  <2>1. /\ At("outcome") /\ work.level = L /\ work' = Pass(L, work.err)
        /\ UNCHANGED <<opt, caller, loop, now, canceled, sent>>
    BY <1>2 DEF Decide, ShouldRetry, Retriable, callVars
  <2>2. now \in Nat /\ (HasDeadline => now <= caller.deadline)
    BY <2>1 DEF RetryInv, CallTypes, Calling, At
  <2>3. Retriable(work.err) => loop[L].attempt = opt[L].max
    BY <1>2
  <2>4. now' \in Nat /\ now <= now' /\ (HasDeadline => now' <= caller.deadline)
    BY <2>1, <2>2
  <2> QED
    BY <2>1, <2>3, <2>4, PassKeepsRetries
<1> QED
  BY <1>1, <1>2

(* A wait is cut: what is passed on is not tried again.                        *)
LEMMA CutKeepsRetries ==
  ASSUME RetryInv, NEW L \in Levels, WaitIsCut(L)
  PROVE  RetryInv'
<1>1. /\ At("waiting") /\ work.level = L /\ work' = Pass(L, ErrRequestCanceled) /\ Calling
      /\ UNCHANGED <<opt, caller, loop, canceled, sent>>
  BY DEF WaitIsCut, callVars, Calling, At
<1>2. ~Retriable(ErrRequestCanceled)
  <2>1. ErrRequestCanceled.kind = "psrpc" /\ ErrRequestCanceled.code = "canceled"
    BY DEF ErrRequestCanceled, NewError, Err
  <2> QED
    BY <2>1 DEF Retriable, IsTimeout, HasCode, GetErrorCode
<1>3. now \in Nat /\ (HasDeadline => now <= caller.deadline) /\ caller.deadline \in Nat
  BY <1>1 DEF RetryInv, CallTypes
<1>4. now' \in Nat /\ now <= now' /\ (HasDeadline => now' <= caller.deadline)
  BY <1>3 DEF WaitIsCut
<1> QED
  BY <1>1, <1>2, <1>4, PassKeepsRetries

(* A wait ends, and the next attempt begins.                                   *)
LEMMA EndOfWaitKeepsRetries ==
  ASSUME RetryInv, NEW L \in Levels, WaitEnds(L)
  PROVE  RetryInv'
<1>1. /\ At("waiting") /\ work.level = L /\ Calling /\ UNCHANGED <<opt, caller, canceled, sent>>
      /\ now' = now + work.wait /\ work' = [at |-> "attempt"]
      /\ work.wait = 0 => ~Done
      /\ HasDeadline => now' <= caller.deadline
      /\ loop' = [M \in Levels |->
                     IF M = L THEN [loop[M] EXCEPT !.start = now']
                     ELSE IF M > L THEN [attempt |-> 1, timeout |-> opt[M].timeout, start |-> now']
                     ELSE loop[M]]
  BY DEF WaitEnds, callVars, Calling, At, NewLoop
<1>2. CallTypes /\ StageInv /\ CountInv /\ WaitInv
  BY DEF RetryInv
<1>3. /\ now \in Nat /\ work.wait \in Nat /\ now' \in Nat /\ now <= now' /\ Len(sent) > 0 /\ Len(sent) \in Nat
      /\ Latest' = Latest /\ caller.deadline \in Nat
      /\ Latest.at \in Nat /\ Latest.wait \in Nat
  <2>1. work.wait \in Nat /\ Len(sent) > 0
    BY <1>1, <1>2 DEF StageInv
  <2>2. now \in Nat /\ Len(sent) \in Nat /\ caller.deadline \in Nat
    BY <1>1, <1>2, CallTyped DEF CallTypes
  <2>3. Latest.at \in Nat /\ Latest.wait \in Nat
    BY <1>1, <1>2, <2>1, <2>2, CallTyped DEF Latest
  <2> QED
    BY <1>1, <2>1, <2>2, <2>3 DEF Latest
<1>4. /\ work'.at = "attempt" /\ Calling' /\ ~InFlight' /\ At("attempt")'
      /\ ~At("waiting")' /\ ~At("outcome")' /\ ~At("returned")' /\ ~At("sent")' /\ ~At("wire")'
  BY <1>1 DEF Calling, InFlight, At
<1>5. PICK a, b, m, n : a = loop[Outer].attempt /\ b = loop[Inner].attempt /\ m = opt[Inner].max /\ n = opt[Outer].max
  OBVIOUS
<1>6. a \in Nat /\ a > 0 /\ b \in Nat /\ b > 0 /\ m \in Nat /\ n \in Nat
  BY <1>1, <1>2, <1>5, CallTyped, TwoLevels
<1>7. \A M \in Levels : loop[M] \in Level /\ opt[M].timeout \in Nat /\ opt[M].backoff \in Nat
  BY <1>1, <1>2 DEF CallTypes
<1>8. \A l \in Level : LET k == [l EXCEPT !.start = now']
                        IN  /\ k \in Level /\ k.start = now'
                            /\ k.attempt = l.attempt /\ k.timeout = l.timeout
  BY <1>3 DEF Level
<1>9. Done' => Latest.wait > 0
  <2>1. work.wait > 0 => Latest.wait > 0
    BY <1>1, <1>2 DEF WaitInv
  <2>2. CASE work.wait = 0
    BY <1>1, <1>3, <2>2 DEF Done, HasDeadline
  <2>3. CASE work.wait # 0
    BY <1>3, <2>1, <2>3
  <2> QED
    BY <2>2, <2>3
<1>10. now' >= Latest.at + Latest.wait \/ (L = Outer /\ m > 1)
  BY <1>1, <1>2, <1>5 DEF WaitInv
<1>11. ASSUME L = Inner
       PROVE  /\ loop' \in [Levels -> Level] /\ (\A M \in Levels : loop'[M].start <= now')
              /\ CountInv' /\ WaitInv'
  <2>1. loop'[Inner] = [loop[Inner] EXCEPT !.start = now'] /\ loop'[Outer] = loop[Outer]
    BY <1>1, <1>11, TwoLevels
  <2>2. /\ loop'[Inner] \in Level /\ loop'[Inner].start = now' /\ loop'[Inner].attempt = b
        /\ loop'[Inner].timeout = loop[Inner].timeout
    BY <1>5, <1>7, <1>8, <2>1, TwoLevels
  <2>3. loop' \in [Levels -> Level]
    <3>1. \A M \in Levels : loop'[M] \in Level
      BY <1>7, <2>1, <2>2, TwoLevels
    <3>2. loop' = [M \in Levels |-> loop'[M]]
      BY <1>1
    <3> QED
      BY <3>1, <3>2
  <2>4. \A M \in Levels : loop'[M].start <= now'
    <3>1. loop[Outer].start <= now /\ loop[Outer].start \in Nat
      BY <1>1, <1>2, CallTyped, TwoLevels
    <3>2. loop[Outer].start <= now' /\ now' <= now'
      BY <1>3, <3>1
    <3> QED
      BY <2>1, <2>2, <3>2, TwoLevels
  <2>5. Len(sent) + 1 = Place /\ Place' = Place /\ b > 1
    BY <1>1, <1>2, <1>5, <1>11, <2>1, <2>2 DEF CountInv, Place
  <2>6. CountInv'
    BY <1>1, <1>2, <1>4, <1>5, <2>1, <2>2, <2>5, TwoLevels DEF CountInv
  <2>7. WaitInv'
    BY <1>3, <1>4, <1>6, <1>9, <1>10, <1>11, <2>2, <2>5, TwoLevels DEF WaitInv
  <2> QED
    BY <2>3, <2>4, <2>6, <2>7
<1>12. ASSUME L = Outer
       PROVE  /\ loop' \in [Levels -> Level] /\ (\A M \in Levels : loop'[M].start <= now')
              /\ CountInv' /\ WaitInv'
  <2>1. /\ loop'[Outer] = [loop[Outer] EXCEPT !.start = now']
        /\ loop'[Inner] = [attempt |-> 1, timeout |-> opt[Inner].timeout, start |-> now']
    BY <1>1, <1>12, TwoLevels
  <2>2. /\ loop'[Outer] \in Level /\ loop'[Outer].start = now' /\ loop'[Outer].attempt = a
        /\ loop'[Outer].timeout = loop[Outer].timeout
    BY <1>5, <1>7, <1>8, <2>1, TwoLevels
  <2>3. /\ loop'[Inner] \in Level /\ loop'[Inner].start = now' /\ loop'[Inner].attempt = 1
        /\ loop'[Inner].timeout = opt[Inner].timeout
    BY <1>3, <1>7, <2>1, TwoLevels DEF Level
  <2>4. loop' \in [Levels -> Level]
    <3>1. \A M \in Levels : loop'[M] \in Level
      BY <2>2, <2>3, TwoLevels
    <3>2. loop' = [M \in Levels |-> loop'[M]]
      BY <1>1
    <3> QED
      BY <3>1, <3>2
  <2>5. \A M \in Levels : loop'[M].start <= now'
    BY <1>3, <2>2, <2>3, TwoLevels
  <2>6. m > 0 /\ Len(sent) = (a - 1) * m /\ Place' = (a - 1) * m + 1
    BY <1>1, <1>2, <1>5, <1>6, <1>12, <2>2, <2>3 DEF CountInv, Place
  <2>7. CountInv'
    <3>1. opt[Inner].timeout = opt[Inner].timeout + (1 - 1) * opt[Inner].backoff
      BY <1>7, TwoLevels
    <3>2. loop[Outer].timeout = opt[Outer].timeout + (a - 1) * opt[Outer].backoff
      BY <1>1, <1>2, <1>5, TwoLevels DEF CountInv
    <3>3. /\ n > 0 => a <= n
          /\ m > 0 => Len(sent) <= a * m
      BY <1>1, <1>2, <1>5 DEF CountInv
    <3>4. \A M \in Levels : loop'[M].timeout = opt'[M].timeout + (loop'[M].attempt - 1) * opt'[M].backoff
      BY <1>1, <2>2, <2>3, <3>1, <3>2, TwoLevels
    <3>5. Len(sent') + 1 = Place' /\ loop'[Inner].attempt <= m
      BY <1>1, <1>6, <2>3, <2>6
    <3> QED
      BY <1>1, <1>4, <1>5, <1>6, <2>2, <2>3, <2>6, <3>3, <3>4, <3>5, TwoLevels DEF CountInv
  <2>8. WaitInv'
    BY <1>1, <1>3, <1>4, <1>5, <1>9, <1>10, <2>2, <2>3, TwoLevels DEF WaitInv
  <2> QED
    BY <2>4, <2>5, <2>7, <2>8
<1>13. CallTypes'
  BY <1>1, <1>2, <1>3, <1>4, <1>11, <1>12, TwoLevels DEF CallTypes, HasDeadline
<1>14. StageInv'
  BY <1>4 DEF StageInv
<1>15. HistoryInv'
  BY <1>1, <1>4 DEF RetryInv, HistoryInv, TryIsAsConfigured, LevelTimeout, AttemptOf, HasDeadline
<1>16. CountInv' /\ WaitInv'
  BY <1>11, <1>12, TwoLevels
<1> QED
  BY <1>13, <1>14, <1>15, <1>16 DEF RetryInv

(* An attempt ends without a response, with its response, or its request is    *)
(* dropped.                                                                    *)
LEMMA OutcomeKeepsRetries ==
  ASSUME RetryInv, ReplyInv, Unserved \/ Dropped \/ Replied
  PROVE  RetryInv'
<1>1. work.at \in {"sent", "wire", "replied"} /\ Calling
  BY DEF Unserved, Dropped, Replied, Calling, At
<1>2. now \in Nat /\ (HasDeadline => now <= caller.deadline)
  BY <1>1 DEF RetryInv, CallTypes
<1>3. ASSUME NEW code, NEW time \in Nat, now <= time, HasDeadline => time <= caller.deadline,
             EndsWith(NewError(code), time)
      PROVE  RetryInv'
  <2>1. NewError(code).wait = 0
    BY DEF NewError, Err
  <2> QED
    BY <1>1, <1>3, <2>1, EndKeepsRetries
<1>4. ASSUME At("sent") \/ At("wire")
      PROVE  /\ work.expiry \in Nat /\ now <= work.expiry /\ (HasDeadline => work.expiry <= caller.deadline)
             /\ \A wait \in CutShort : /\ wait \in Nat /\ now + wait \in Nat /\ now <= now + wait
                                       /\ HasDeadline => now + wait <= caller.deadline
  <2>1. work.expiry \in Nat /\ now <= work.expiry /\ (HasDeadline => work.expiry <= caller.deadline)
    BY <1>4 DEF RetryInv, StageInv
  <2>2. caller.deadline \in Nat
    BY <1>1 DEF RetryInv, CallTypes
  <2>3. \A wait \in CutShort : wait \in Nat /\ now + wait <= work.expiry
    BY <1>2, <2>1, CallStackAssumption DEF CutShort
  <2> QED
    BY <1>2, <2>1, <2>2, <2>3
<1>5. CASE Unserved
  <2>1. At("sent")
    BY <1>5 DEF Unserved
  <2>2. ASSUME EndsWith(NewError("internal"), now) \/ (canceled /\ EndsWith(ErrRequestCanceled, now))
                 \/ EndsWith(ErrClientClosed, now)
        PROVE  RetryInv'
    BY <1>2, <1>3, <2>2 DEF ErrRequestCanceled, ErrClientClosed
  <2>3. ASSUME EndsWith(ErrRequestTimedOut, work.expiry)
        PROVE  RetryInv'
    BY <1>3, <1>4, <2>1, <2>3 DEF ErrRequestTimedOut
  <2>4. ASSUME NEW wait \in CutShort, EndsWith(ErrNoResponse, now + wait)
        PROVE  RetryInv'
    BY <1>3, <1>4, <2>1, <2>4 DEF ErrNoResponse
  <2>5. ASSUME NEW wait \in CutShort, EndsWith(NewNoSubscriberError(wait), now)
        PROVE  RetryInv'
    <3>1. NewNoSubscriberError(wait).wait = wait /\ NewNoSubscriberError(wait).kind = "noSubscriber"
      BY DEF NewNoSubscriberError, Err
    <3>2. wait \in Nat
      BY <1>4, <2>1
    <3> QED
      BY <1>1, <1>2, <2>5, <3>1, <3>2, EndKeepsRetries
  <2> QED
    BY <1>5, <2>2, <2>3, <2>4, <2>5 DEF Unserved
<1>6. CASE Dropped
  <2>1. At("wire")
    BY <1>6 DEF Dropped
  <2>2. ASSUME EndsWith(ErrRequestTimedOut, work.expiry)
        PROVE  RetryInv'
    BY <1>3, <1>4, <2>1, <2>2 DEF ErrRequestTimedOut
  <2>3. ASSUME NEW wait \in CutShort, EndsWith(ErrNoResponse, now + wait)
        PROVE  RetryInv'
    BY <1>3, <1>4, <2>1, <2>3 DEF ErrNoResponse
  <2> QED
    BY <1>6, <2>2, <2>3 DEF Dropped
<1>7. CASE Replied
  <2>1. At("replied") /\ EndsWith(work.got, now)
    BY <1>7 DEF Replied
  <2>2. PICK e \in HandlerErrors \cup {NoErr, Recovered, Malformed} : work.got = Decode(SendResponse(e))
    BY <2>1 DEF ReplyInv
  <2>3. work.got = NoErr \/ \E code : work.got = NewError(code)
    BY <2>2, ErrorArrives
  <2>4. work.got.wait = 0
    <3>1. NoErr.wait = 0 /\ \A code : NewError(code).wait = 0
      BY DEF NoErr, NewError, Err
    <3> QED
      BY <2>3, <3>1
  <2> QED
    BY <1>1, <1>2, <2>1, <2>4, EndKeepsRetries
<1> QED
  BY <1>5, <1>6, <1>7

(* Every step keeps what the loops and the history are.                        *)
LEMMA StepKeepsRetries ==
  ASSUME Staged, ChainInv, ReplyInv, RetryInv, [StackNext]_stackVars
  PROVE  RetryInv'
<1>1. CASE UNCHANGED stackVars
  <2>1. UNCHANGED <<work, opt, caller, loop, now, canceled, sent>>
    BY <1>1 DEF stackVars, callVars
  <2> QED
    BY <2>1 DEF RetryInv, CallTypes, StageInv, CountInv, WaitInv, HistoryInv, Calling, InFlight, Latest, Place,
                Retriable, IsTimeout, TryIsAsConfigured, LevelTimeout, AttemptOf, HasDeadline, Done, At
<1>2. ASSUME NEW name, NEW key, SetMetadata(Op(name, key)) PROVE RetryInv'
  <2>1. work.at = "context" /\ work'.at = "context" /\ UNCHANGED <<callVars, loop, now, canceled, sent>>
    BY <1>2 DEF SetMetadata, At, Staged
  <2> QED
    BY <2>1, BeforeKeepsRetries DEF Calling, At
<1>3. ASSUME NEW i, NEW c, NameChannels(i, c) PROVE RetryInv'
  <2>1. work.at = "context" /\ work'.at = "named" /\ UNCHANGED <<callVars, loop, now, canceled, sent>>
    BY <1>3 DEF NameChannels, At
  <2> QED
    BY <2>1, BeforeKeepsRetries DEF Calling, At
<1>4. ASSUME NEW b, NEW o, NEW max, Encode(b, o, max) PROVE RetryInv'
  <2>1. /\ work.at = "sent" /\ work'.at = "wire" /\ work'.expiry = work.expiry
        /\ UNCHANGED <<callVars, loop, now, canceled, sent>>
    BY <1>4 DEF Encode, At
  <2> QED
    BY <2>1, BelowKeepsRetries
<1>5. ASSUME NEW n, Serve(n) PROVE RetryInv'
  <2>1. work.at = "wire" /\ work'.at = "chain" /\ UNCHANGED <<callVars, loop, now, canceled, sent>>
    BY <1>5 DEF Serve, At
  <2> QED
    BY <2>1, BelowKeepsRetries
<1>6. ASSUME CallNext \/ RunHandler \/ Return PROVE RetryInv'
  <2>1. work.at \in {"chain", "handler"} /\ UNCHANGED <<callVars, loop, now, canceled, sent>>
    BY <1>6 DEF CallNext, RunHandler, Return, At
  <2>2. work'.at \in {"chain", "handler"}
    <3>1. CASE CallNext
      BY <2>1, <3>1 DEF CallNext, Staged
    <3>2. CASE RunHandler
      BY <3>2 DEF RunHandler, Staged
    <3>3. CASE Return
      BY <2>1, <3>3 DEF Return, Staged
    <3> QED
      BY <1>6, <3>1, <3>2, <3>3
  <2> QED
    BY <2>1, <2>2, BelowKeepsRetries
<1>7. ASSUME NEW err, Reply(err) PROVE RetryInv'
  <2>1. /\ work.at \in {"chain", "handler"} /\ work'.at = "replied"
        /\ UNCHANGED <<callVars, loop, now, canceled, sent>>
    BY <1>7 DEF Reply, At
  <2> QED
    BY <2>1, BelowKeepsRetries
<1>8. ASSUME NEW L \in Levels, Decide(L) \/ WaitIsCut(L) \/ WaitEnds(L) PROVE RetryInv'
  BY <1>8, DecideKeepsRetries, CutKeepsRetries, EndOfWaitKeepsRetries
<1>9. CASE Unserved \/ Dropped \/ Replied
  BY <1>9, OutcomeKeepsRetries
<1>10. CASE StackNext
  BY <1>10, <1>2, <1>3, <1>4, <1>5, <1>6, <1>7, <1>8, <1>9,
     CallKeepsRetries, AttemptKeepsRetries, CancelKeepsRetries DEF StackNext
<1> QED
  BY <1>1, <1>10

(* The attempts of a call are those that the options of its two levels allow:  *)
(* as many, with the timeouts they are to have, before the caller's deadline,  *)
(* and no sooner than they may.                                                *)
THEOREM RetriesFollowOptions == StackSpec => []RetriesAreAsConfigured
<1> DEFINE Inv == Staged /\ ChainInv /\ ReplyInv /\ RetryInv
<1>1. StackInit => Inv
  <2> SUFFICES ASSUME StackInit PROVE Inv
    OBVIOUS
  <2>1. work.at = "context" /\ Staged /\ now = 0 /\ canceled = FALSE /\ sent = <<>>
    BY DEF StackInit, Staged
  <2>2. CallTypes
    <3>1. <<>> \in Seq(Try)
      OBVIOUS
    <3>2. sent \in Seq(Try)
      BY <2>1, <3>1
    <3>3. canceled \in BOOLEAN /\ now \in Nat
      BY <2>1
    <3> QED
      BY <2>1, <3>2, <3>3 DEF CallTypes, Calling, At
  <2>3. StageInv /\ WaitInv
    BY <2>1 DEF StageInv, WaitInv, InFlight, At
  <2> QED
    BY <2>1, <2>2, <2>3 DEF ChainInv, ReplyInv, RetryInv, CountInv, HistoryInv, Calling, At
<1>2. Inv /\ [StackNext]_stackVars => Inv'
  BY StepKeepsChain, StepKeepsReply, StepKeepsRetries
<1>3. Inv => RetriesAreAsConfigured
  <2> SUFFICES ASSUME RetryInv, Calling PROVE RetriesAreAsConfigured
    BY DEF RetriesAreAsConfigured, Calling
  <2>1. CallTypes /\ CountInv /\ HistoryInv
    BY DEF RetryInv
  <2>2. PICK n, m, a : n = opt[Outer].max /\ m = opt[Inner].max /\ a = loop[Outer].attempt
    OBVIOUS
  <2>3. n \in Nat /\ m \in Nat /\ a \in Nat /\ Len(sent) \in Nat
    BY <2>1, <2>2, CallTyped, TwoLevels
  <2>4. n * m > 0 => Len(sent) <= n * m
    <3> SUFFICES ASSUME n * m > 0 PROVE Len(sent) <= n * m
      OBVIOUS
    <3>1. n > 0 /\ m > 0
      BY <2>3, BothPositive
    <3>2. a <= n /\ Len(sent) <= a * m
      BY <2>1, <2>2, <3>1 DEF CountInv
    <3>3. a * m <= n * m
      BY <2>3, <3>2, NoMore
    <3> QED
      BY <2>3, <3>2, <3>3
  <2>5. (At("returned") /\ work.err # NoErr /\ IsTimeout(work.err)) => n * m > 0 /\ Len(sent) = n * m
    <3>1. (At("returned") /\ work.err # NoErr /\ IsTimeout(work.err)) => n > 0 /\ m > 0 /\ Len(sent) = n * m
      BY <2>1, <2>2 DEF CountInv, Retriable
    <3>2. n > 0 /\ m > 0 => n * m > 0
      BY <2>3
    <3> QED
      BY <3>1, <3>2
  <2>6. \A k \in DOMAIN sent : TryIsAsConfigured(k)
    BY <2>1 DEF HistoryInv
  <2> QED
    BY <2>2, <2>4, <2>5, <2>6 DEF RetriesAreAsConfigured, TryIsAsConfigured
<1> QED
  BY <1>1, <1>2, <1>3, PTL DEF StackSpec

-----------------------------------------------------------------------------
(* The context that the caller prepares.                                       *)
ContextInv ==
    At("context") =>
        /\ {"ctx", "ops"} \subseteq DOMAIN work
        /\ {"isNil", "added"} \subseteq DOMAIN work.ctx
        /\ ~Panics(work.ctx)

(* What a body becomes on its way.                                             *)
LEMMA BodyArrives ==
  ASSUME NEW len \in Nat, NEW max \in Nat, NEW compression
  PROVE  LET res == Decompress(len, compression, max)
             fits == compression = "none" \/ (compression = "gzip" /\ (max = 0 \/ len <= max))
         IN  /\ res.ok = fits
             /\ fits => res.len = len
             /\ res.len <= max + 1 \/ max = 0 \/ compression = "none"
<1>1. CASE compression = "none"
  BY <1>1 DEF Decompress
<1>2. CASE compression = "gzip"
  BY <1>2 DEF Decompress, Gunzip, Limit
<1>3. CASE compression # "none" /\ compression # "gzip"
  <2>1. Decompress(len, compression, max) = [ok |-> FALSE, len |-> 0]
    BY <1>3 DEF Decompress
  <2> DEFINE res == Decompress(len, compression, max)
  <2>2. res.ok = FALSE /\ res.len = 0
    BY <2>1
  <2> HIDE DEF res
  <2>3. res.len <= max + 1
    BY <2>2
  <2> QED
    BY <1>3, <2>2, <2>3 DEF res
<1> QED
  BY <1>1, <1>2, <1>3

(* Encode leaves what the receiver makes of the body.                          *)
LEMMA EncodeArrives ==
  ASSUME NEW body \in Bodies, NEW o \in BusOptsSet, NEW max \in MaxSizes, Encode(body, o, max)
  PROVE  PayloadArrives'
<1> DEFINE w == Serialize(body, o)
<1>1. PICK wire \in {w, [w EXCEPT !.compression = "other"]} :
         work' = [at |-> "wire", max |-> max, wire |-> wire, got |-> Deserialize(wire, max), expiry |-> work.expiry]
  BY DEF Encode
<1>2. wire.body = body
  BY DEF Serialize
<1>3. body.len \in Nat /\ max \in Nat
  BY CallStackAssumption
<1>4. PICK c, g : c = wire.compression /\ g = Decompress(body.len, c, max) /\ g = Deserialize(wire, max)
  BY <1>2 DEF Deserialize
<1>5. /\ work'.max = max /\ work'.wire.body.len = body.len /\ work'.wire.compression = c /\ work'.got = g
  BY <1>1, <1>2, <1>4
<1>6. LET fits == c = "none" \/ (c = "gzip" /\ (max = 0 \/ body.len <= max))
      IN  /\ g.ok = fits
          /\ fits => g.len = body.len
          /\ g.len <= max + 1 \/ max = 0 \/ c = "none"
  <2>1. LET d == Decompress(body.len, c, max)
            fits == c = "none" \/ (c = "gzip" /\ (max = 0 \/ body.len <= max))
        IN  /\ d.ok = fits
            /\ fits => d.len = body.len
            /\ d.len <= max + 1 \/ max = 0 \/ c = "none"
    BY <1>3, BodyArrives
  <2> QED
    BY <1>4, <2>1
<1> QED
  BY <1>5, <1>6 DEF PayloadArrives

(* Setting metadata keeps the context one that can be written to.              *)
LEMMA SetMetadataIsSafe ==
  ASSUME ContextInv, NEW op, SetMetadata(op)
  PROVE  ContextInv'
<1> DEFINE n == Len(work.ops) + 1
           md == [k \in {op.key} |-> n]
           ctx == Apply(work.ctx, op, n)
<1>1. {"ctx", "ops"} \subseteq DOMAIN work /\ {"isNil", "added"} \subseteq DOMAIN work.ctx /\ ~Panics(work.ctx)
  BY DEF ContextInv, SetMetadata
<1>2. {"isNil", "added"} \subseteq DOMAIN ctx /\ ~Panics(ctx)
  <2>1. /\ \/ ctx = NewContextWithOutgoingMetadata(TRUE, NoPairs)
           \/ ctx = NewContextWithOutgoingMetadata(FALSE, md)
           \/ ctx = WithOutgoingMetadata(work.ctx, md)
           \/ ctx = AppendMetadataToOutgoingContext(work.ctx, op.key, n)
    BY DEF Apply
  <2>2. CASE ctx = NewContextWithOutgoingMetadata(TRUE, NoPairs) \/ ctx = NewContextWithOutgoingMetadata(FALSE, md)
    BY <2>2 DEF NewContextWithOutgoingMetadata, Panics
  <2>3. CASE ctx = WithOutgoingMetadata(work.ctx, md)
    BY <1>1, <2>3 DEF WithOutgoingMetadata, Panics
  <2>4. CASE ctx = AppendMetadataToOutgoingContext(work.ctx, op.key, n)
    BY <1>1, <2>4 DEF AppendMetadataToOutgoingContext, Panics
  <2> QED
    BY <2>1, <2>2, <2>3, <2>4
<1> HIDE DEF ctx
<1>3. work' = [work EXCEPT !.ctx = ctx, !.ops = Append(@, op)]
  BY DEF SetMetadata, ctx
<1>4. work'.ctx = ctx /\ DOMAIN work' = DOMAIN work
  BY <1>1, <1>3
<1> QED
  BY <1>1, <1>2, <1>4 DEF ContextInv

(* No order of the calls that set metadata ends in a write to a nil map, and a *)
(* payload of any size arrives whole, or is refused over the receiver's cap.   *)
THEOREM PayloadArrivesWhole == StackSpec => [](MetadataIsSafe /\ PayloadArrives)
<1> DEFINE Inv == Staged /\ ChainInv /\ ContextInv /\ PayloadArrives
<1>1. StackInit => Inv
  BY DEF StackInit, Staged, ChainInv, ContextInv, PayloadArrives, At, Unset, Panics
<1>2. Inv /\ [StackNext]_stackVars => Inv'
  <2> SUFFICES ASSUME Inv, [StackNext]_stackVars PROVE ContextInv' /\ PayloadArrives'
    BY StepKeepsChain
  <2>1. ASSUME NEW name, NEW key, SetMetadata(Op(name, key)) PROVE ContextInv' /\ PayloadArrives'
    <3>1. work'.at = "context"
      BY <2>1 DEF SetMetadata, At, Staged
    <3> QED
      BY <2>1, <3>1, SetMetadataIsSafe DEF PayloadArrives, At
  <2>2. ASSUME NEW body \in Bodies, NEW o \in BusOptsSet, NEW max \in MaxSizes, Encode(body, o, max)
        PROVE  ContextInv' /\ PayloadArrives'
    <3>1. work'.at = "wire"
      BY <2>2 DEF Encode
    <3> QED
      BY <2>2, <3>1, EncodeArrives DEF ContextInv, At
  <2>3. ASSUME work'.at \notin {"context", "wire"} \/ UNCHANGED work PROVE ContextInv' /\ PayloadArrives'
    BY <2>3 DEF ContextInv, PayloadArrives, At
  <2>4. ASSUME NEW i, NEW c, NameChannels(i, c) PROVE work'.at \notin {"context", "wire"}
    BY <2>4 DEF NameChannels
  <2>5. ASSUME NEW o, NEW c, Call(o, c) PROVE work'.at \notin {"context", "wire"}
    BY <2>5 DEF Call
  <2>6. ASSUME Attempt \/ Unserved \/ Dropped \/ Replied PROVE work'.at \notin {"context", "wire"}
    BY <2>6 DEF Attempt, Unserved, Dropped, Replied, EndsWith
  <2>7. ASSUME CancelCaller \/ UNCHANGED stackVars PROVE UNCHANGED work
    BY <2>7 DEF CancelCaller, stackVars
  <2>8. ASSUME NEW L \in Levels, Decide(L) \/ WaitIsCut(L) \/ WaitEnds(L)
        PROVE  work'.at \notin {"context", "wire"}
    BY <2>8 DEF Decide, WaitIsCut, WaitEnds, Pass
  <2>9. ASSUME (\E n \in 0..MaxChain : Serve(n)) \/ (\E err : Reply(err)) PROVE work'.at \notin {"context", "wire"}
    BY <2>9 DEF Serve, Reply
  <2>10. ASSUME CallNext \/ RunHandler \/ Return PROVE work'.at \notin {"context", "wire"}
    <3>1. CASE CallNext
      BY <3>1 DEF CallNext, At, Staged
    <3>2. CASE RunHandler
      BY <3>2 DEF RunHandler, At, Staged
    <3>3. CASE Return
      BY <3>3 DEF Return, At, Staged
    <3> QED
      BY <2>10, <3>1, <3>2, <3>3
  <2> QED
    BY <2>1, <2>2, <2>3, <2>4, <2>5, <2>6, <2>7, <2>8, <2>9, <2>10 DEF StackNext
<1>3. Inv => MetadataIsSafe /\ PayloadArrives
  BY DEF ContextInv, MetadataIsSafe
<1> QED
  BY <1>1, <1>2, <1>3, PTL DEF StackSpec

=============================================================================
