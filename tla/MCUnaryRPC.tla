------------------------------ MODULE MCUnaryRPC ------------------------------
EXTENDS UnaryRPC

MCAffinities == {-1, 1}

Opts(accept) ==
    [min |-> 0, max |-> 0, acceptFirst |-> accept, selectionFunc |-> FALSE,
     affinityTimeout |-> TRUE, shortCircuit |-> ~accept]

(* The two defaults of getRequestOpts: with and without an affinity timeout's  *)
(* wait for a better bid.                                                      *)
MCFirstOnly == {Opts(TRUE)}

MCBestBid == {Opts(FALSE)}

=============================================================================
