----------------------------- MODULE MCProfiles -----------------------------
(***************************************************************************)
(* Names of profiles for the model checker.                                *)
(***************************************************************************)
EXTENDS Profiles

CONSTANTS work, play

=============================================================================
