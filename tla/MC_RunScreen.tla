---------------------------- MODULE MC_RunScreen ----------------------------
(* A small instance of RunScreen: questions of both kinds.                 *)
EXTENDS RunScreen

FirstIsChoice == {1}
=============================================================================
