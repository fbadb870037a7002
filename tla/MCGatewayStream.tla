--------------------------- MODULE MCGatewayStream ---------------------------
(* Two clients of one stream.                                               *)
EXTENDS GatewayStream

CONSTANTS c1, c2
TwoClients == {c1, c2}
=============================================================================
