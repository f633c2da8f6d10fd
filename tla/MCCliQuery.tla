---------------------------- MODULE MCCliQuery ----------------------------
(* Instance of CliQuery for TLC.                                           *)
EXTENDS CliQuery
=============================================================================
