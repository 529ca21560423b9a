---------------------------- MODULE MCGateway ----------------------------
EXTENDS Gateway
LiveSpec == GatewaySpec /\ GatewayFairness
=============================================================================
