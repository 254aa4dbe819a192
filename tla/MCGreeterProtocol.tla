--------------------------- MODULE MCGreeterProtocol ---------------------------
EXTENDS GreeterProtocol, TLC

CONSTANTS g1, g2

GreetersSymmetry == Permutations({g1, g2})
MCBackends == <<"logind", "UPower">>
=============================================================================
