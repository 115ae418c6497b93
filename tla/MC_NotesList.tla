---------------------------- MODULE MC_NotesList ----------------------------
(* Two notes in pages of one, so that a page can be missing, repeated, or  *)
(* read before and after a delete.                                         *)
EXTENDS NotesList

MCNotes == 1..2

(* Two pages that are loaded, one that is missed and one that is loaded    *)
(* behind it.                                                              *)
FourNotes == 1..4
=============================================================================
