------------------------------ MODULE Sittings ------------------------------
(***************************************************************************)
(* What reviewing with sets promises, without requests or SQL: a set is    *)
(* sat one run at a time; a sitting has questions fixed when it begins,    *)
(* takes one answer to each, and closes with the score it has earned; an   *)
(* answer is evidence from then on, whatever becomes of its sitting.       *)
(* ReviewRunsRefinement shows that ReviewRuns implements this.             *)
(***************************************************************************)
EXTENDS Naturals, Sequences, FiniteSets

CONSTANTS
    Sets,      \* review sets
    Runs,      \* sittings
    Cards,     \* what is asked
    Contents,  \* how a card is put as a question
    Blank      \* the content of a card that is not asked

Ratings == {"ingat", "lupa"}
Question == [content: Contents, format: {"none", "recall", "choice"}]

VARIABLES
    removed,    \* sets that are gone
    sitting,    \* what each sitting is: of which set, and where it stands
    questions,  \* what it asks
    given,      \* the answers it has been given
    evidence    \* every answer ever given, in order

vars == <<removed, sitting, questions, given, evidence>>

NotBegun == [status |-> "none"]
Discarded == [status |-> "discarded"]
Sat(s) == [status |-> "open", set |-> s]
Closed(s, score, total) ==
    [status |-> "closed", set |-> s, score |-> score, total |-> total]

Exists(r) == sitting[r].status \in {"open", "closed"}
Asked(qs) == {c \in Cards : qs[c].format # "none"}
Nothing == [c \in Cards |-> [content |-> Blank, format |-> "none"]]
Right(r) == {a \in given[r] : a.rating = "ingat"}

Init ==
    /\ removed = {}
    /\ sitting = [r \in Runs |-> NotBegun]
    /\ questions = [r \in Runs |-> Nothing]
    /\ given = [r \in Runs |-> {}]
    /\ evidence = <<>>

(* The questions are whatever was drawn, but there is one.                 *)
Begin(r, s) ==
    /\ sitting[r].status = "none"
    /\ s \notin removed
    /\ \A x \in Runs : sitting[x].status = "open" => sitting[x].set # s
    /\ sitting' = [sitting EXCEPT ![r] = Sat(s)]
    /\ questions' \in [Runs -> [Cards -> Question]]
    /\ Asked(questions'[r]) # {}
    /\ \A x \in Runs \ {r} : questions'[x] = questions[x]
    /\ UNCHANGED <<removed, given, evidence>>

(* A closed sitting still takes the answers that were on their way.        *)
Give(r, c, rating) ==
    /\ Exists(r)
    /\ c \in Asked(questions[r])
    /\ \A a \in given[r] : a.card # c
    /\ given' = [given EXCEPT ![r] =
          given[r] \cup {[card |-> c, rating |-> rating]}]
    /\ evidence' = Append(evidence, [card |-> c, rating |-> rating,
                                     format |-> questions[r][c].format])
    /\ UNCHANGED <<removed, sitting, questions>>

Close(r) ==
    /\ sitting[r].status = "open"
    /\ sitting' = [sitting EXCEPT ![r] =
          Closed(sitting[r].set, Cardinality(Right(r)),
                 Cardinality(Asked(questions[r])))]
    /\ UNCHANGED <<removed, questions, given, evidence>>

Discard(r) ==
    /\ Exists(r)
    /\ sitting' = [sitting EXCEPT ![r] = Discarded]
    /\ questions' = [questions EXCEPT ![r] = Nothing]
    /\ given' = [given EXCEPT ![r] = {}]
    /\ UNCHANGED <<removed, evidence>>

Remove(s) ==
    /\ s \notin removed
    /\ \A r \in Runs : Exists(r) => sitting[r].set # s
    /\ removed' = removed \cup {s}
    /\ UNCHANGED <<sitting, questions, given, evidence>>

Next ==
    \/ \E r \in Runs, s \in Sets : Begin(r, s)
    \/ \E r \in Runs, c \in Cards, rating \in Ratings : Give(r, c, rating)
    \/ \E r \in Runs : Close(r) \/ Discard(r)
    \/ \E s \in Sets : Remove(s)

Spec == Init /\ [][Next]_vars
=============================================================================
