----------------------------- MODULE MCStreamOpen -----------------------------
EXTENDS StreamOpen

CONSTANTS s1, s2, r1

=============================================================================
