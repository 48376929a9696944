--------------------------- MODULE MCSessionTransport ---------------------------
EXTENDS SessionTransport, TLC
CONSTANTS c1, c2
FairSpec == TransportSpec /\ TransportFairness
==============================================================================
