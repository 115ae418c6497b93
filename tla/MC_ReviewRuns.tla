--------------------------- MODULE MC_ReviewRuns ---------------------------
(* Small instances of ReviewRuns: one set, drawn at random or pinned,      *)
(* asked as recall or as multiple choice.                                  *)
EXTENDS ReviewRunsRefinement, TLC

CONSTANTS s1, c1, c2, a, b

Everything(selection, format, want, pinned) ==
    [s \in Sets |-> [selection |-> selection, format |-> format,
                     want |-> want, pinned |-> pinned, filter |-> Cards]]

NothingPinned == [c \in Cards |-> 0]

(* Two questions out of the account's cards, asked as recall.              *)
RandomRecall == Everything("random", "recall", 2, NothingPinned)

(* Two pinned cards, asked as multiple choice, whose filter holds only one *)
(* of them: the distractor pool has to be widened.                         *)
FixedChoice ==
    [s \in Sets |-> [selection |-> "fixed", format |-> "choice", want |-> 0,
                     pinned |-> (c1 :> 2 @@ c2 :> 1), filter |-> {c1}]]

SameBack == [c \in Cards |-> a]
TwoBacks == (c1 :> a @@ c2 :> b)

Interchangeable == Permutations(Procs) \cup Permutations(Runs)
InterchangeableCards == Interchangeable \cup Permutations(Cards)
=============================================================================
