---------------------------- MODULE MCDiscovery ----------------------------
(* Values for the constants of Discovery.                                  *)
EXTENDS Discovery

CONSTANTS runner, client, boot

MCRunner == {runner}
MCClient == {client}
MCBootstrap == {boot}
=============================================================================
