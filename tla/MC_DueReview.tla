---------------------------- MODULE MC_DueReview ----------------------------
(* Small instances of DueReview: short ladders stand for the seven rungs.  *)
EXTENDS DueReview

OneRung == <<1>>
TwoRungs == <<1, 2>>
=============================================================================
