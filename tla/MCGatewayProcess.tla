-------------------------- MODULE MCGatewayProcess --------------------------
(***************************************************************************)
(* Values of GatewayProcess's constants for TLC: an environment with small   *)
(* times, a number that is none, and no key, so only -mock serves.           *)
(***************************************************************************)
EXTENDS GatewayProcess

MCNumbers ==
  [key \in Numbers |-> IF key = "DS_GEN_TIMEOUT" THEN NotANumber ELSE Number(1)]
MCTexts == [key \in Texts |-> ""]

MCConfig   == ManagerConfig(MCNumbers)
MCPair     == MCConfig.pair
MCIdle     == MCConfig.idle
MCMax      == MCConfig.max
MCSettings == {DefaultGenerationSettings}

=============================================================================
