--------------------------- MODULE MC_FocusTimer ---------------------------
(* Small instances of FocusTimer.  Everything but the minutes is compared  *)
(* for equality only.                                                      *)
EXTENDS FocusTimer, TLC

Interchangeable == Permutations(Tabs) \cup Permutations(Sessions)
                   \cup Permutations(Requests) \cup Permutations(Rows)
=============================================================================
