--------------------------- MODULE MCPluginLoader ---------------------------
(***************************************************************************)
(* Instance of PluginLoader for TLC.                                       *)
(***************************************************************************)
EXTENDS PluginLoader

MCWrites == <<2, 1>>

=============================================================================
