------------------------------ MODULE MCLlmUsage ------------------------------
(***************************************************************************)
(* Instances of LlmUsage for TLC.  FairSpec is checked, so the sets are    *)
(* small and not symmetric.                                                *)
(***************************************************************************)
EXTENDS LlmUsage

=============================================================================
