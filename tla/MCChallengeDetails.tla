------------------------- MODULE MCChallengeDetails -------------------------
(***************************************************************************)
(* TLC instances of ChallengeDetails.                                      *)
(***************************************************************************)
EXTENDS ChallengeDetails

CONSTANTS germany, japan

MCCountry == <<germany, japan>>
====
