---------------------------- MODULE MCConversations ----------------------------
(***************************************************************************)
(* Instances of GatewayConversations for TLC, with MCGateway's constants.  *)
(***************************************************************************)
EXTENDS GatewayConversations, MCGateway
=============================================================================
