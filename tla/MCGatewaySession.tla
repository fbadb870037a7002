-------------------------- MODULE MCGatewaySession --------------------------
EXTENDS GatewaySession, TLC

CONSTANTS r1, r2, r3

MCRequests == {r1, r2, r3}

Requests == Permutations(Request)
=============================================================================
