--------------------------- MODULE MCGatewayCore ---------------------------
EXTENDS GatewayCore, TLC

Symmetry == Permutations(Msg) \union Permutations(Request)
              \union Permutations(MqttThread)
=============================================================================
