--------------------------- MODULE MCProviderGate ----------------------------
EXTENDS ProviderGate

CONSTANTS p1, p2, g1

\* One balance group with both providers in it.
MCPoolOf == [p \in Providers |-> g1]
=============================================================================
