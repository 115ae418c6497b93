--------------------------- MODULE MC_NoteEditor ---------------------------
(* Small instances of NoteEditor: a text that is stored as typed, one that *)
(* is trimmed when it is stored, and a domain that can be set and cleared. *)
EXTENDS NoteEditor, TLC

CONSTANTS draft, final, untidy

Trims == [t \in Texts |-> IF t = untidy THEN final ELSE t]
=============================================================================
