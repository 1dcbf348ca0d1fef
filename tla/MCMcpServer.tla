----------------------------- MODULE MCMcpServer -----------------------------
(* The model values of McpServer's runs are given in their cfg; liveness is *)
(* checked, so there is no symmetry.                                        *)
EXTENDS McpServer
=============================================================================
