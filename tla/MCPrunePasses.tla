--------------------------- MODULE MCPrunePasses ---------------------------
(* A small instance of PrunePasses, and with it of VersionHistory.          *)
EXTENDS MCVersionStore, PrunePasses
=============================================================================
