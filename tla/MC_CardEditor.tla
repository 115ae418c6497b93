--------------------------- MODULE MC_CardEditor ---------------------------
(* Small instances of CardEditor.  Sides, domains, cards, visits and       *)
(* requests are compared for equality only.                                *)
EXTENDS CardEditor, TLC

Interchangeable ==
    Permutations(Sides) \cup Permutations(Domains) \cup Permutations(Cards)
    \cup Permutations(Forms) \cup Permutations(Requests)
=============================================================================
