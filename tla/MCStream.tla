------------------------------- MODULE MCStream -------------------------------
EXTENDS Stream, TLC

CONSTANTS m1, m2

MCSends == {m1, m2}

(* Both sends go the same way, to the server or to the client.                 *)
MCSenders == {[m \in MCSends |-> e] : e \in Ends}

MCSymmetry == Permutations(MCSends)

=============================================================================
