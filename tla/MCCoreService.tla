--------------------------- MODULE MCCoreService ---------------------------
(***************************************************************************)
(* CoreService on small instances: two clients, two commands each,          *)
(* a pipe of two lines (the core blocks on it in the middle of a reply).     *)
(***************************************************************************)
EXTENDS CoreService

CONSTANTS c1, c2
=============================================================================
