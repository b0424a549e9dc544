-------------------------- MODULE MCGuidedSession --------------------------
(* An instance of GuidedSession small enough for TLC: TLC needs the module, the *)
(* values of its constants are all in the configuration.                        *)
EXTENDS GuidedSession
=============================================================================
