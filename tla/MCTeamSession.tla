--------------------------- MODULE MCTeamSession ---------------------------
(***************************************************************************)
(* TLC instances of TeamSession.                                           *)
(***************************************************************************)
EXTENDS TeamSession
====
