----------------------------- MODULE MCNotification -----------------------------
(***************************************************************************)
(* Instances of Notification for TLC.  FairSpec is checked, so no set is   *)
(* symmetric.                                                              *)
(***************************************************************************)
EXTENDS Notification

=============================================================================
