--------------------------- MODULE MCSelectionLoop ---------------------------
(* Model of SelectionLoop: the two defaults of getRequestOpts and the options  *)
(* a caller can set on top of them.                                            *)
EXTENDS SelectionLoop

MCAffinities == {0, 1, 2}

Opts(min, max, accept, func, short) ==
    [min |-> min, max |-> max, acceptFirst |-> accept, selectionFunc |-> func,
     affinityTimeout |-> TRUE, shortCircuit |-> short]

MCOptsSet ==
    { Opts(0, 0, TRUE, FALSE, FALSE),  \* no affinity: first available
      Opts(0, 0, FALSE, FALSE, TRUE),  \* affinity enabled
      Opts(1, 2, FALSE, FALSE, TRUE),  \* both thresholds
      Opts(1, 0, TRUE, FALSE, FALSE),  \* minimum with first available
      Opts(1, 0, FALSE, TRUE, TRUE) }  \* SelectionFunc

=============================================================================
