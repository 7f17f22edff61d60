--------------------------- MODULE MCAgentBridge ---------------------------
(* One agent tunnel; OnAgentConnClosed does nothing (MCAgentBridge.cfg)   *)
(* or cleans the job (MCAgentBridgeClosedCleans.cfg).                     *)
EXTENDS AgentBridge

MCMaxUp == 4
MCMaxDown == 3
=============================================================================
