--------------------------- MODULE MCAdminConsole ---------------------------
(***************************************************************************)
(* TLC instances of AdminConsole.                                          *)
(***************************************************************************)
EXTENDS AdminConsole
====
