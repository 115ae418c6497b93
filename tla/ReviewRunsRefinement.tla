------------------------ MODULE ReviewRunsRefinement ------------------------
(***************************************************************************)
(* ReviewRuns implements Sittings: forget the requests, the cards and the  *)
(* archive, read each row as what it means, and every statement is one of  *)
(* the promised steps or changes nothing.                                  *)
(***************************************************************************)
EXTENDS ReviewRuns

SittingOf(r) ==
    CASE run[r].status = "none" -> [status |-> "none"]
      [] run[r].status = "open" -> [status |-> "open", set |-> run[r].set]
      [] run[r].status = "finished" ->
            [status |-> "closed", set |-> run[r].set,
             score |-> run[r].correct, total |-> run[r].total]
      [] OTHER -> [status |-> "discarded"]

QuestionOf(row) ==
    [content |-> row, format |-> IF row.position = 0 THEN "none"
                                 ELSE IF IsChoice(row) THEN "choice"
                                 ELSE "recall"]

GivenTo(r) == {[card |-> logs[i].card, rating |-> logs[i].rating] :
                  i \in {j \in LogIds : logs[j].run = r}}

RemovedSets == {s \in Sets : setStatus[s] = "gone"}
Sitting == [r \in Runs |-> SittingOf(r)]
Questions == [r \in Runs |-> [c \in Cards |-> QuestionOf(sheet[r][c])]]
Given == [r \in Runs |-> GivenTo(r)]
Evidence == [i \in LogIds |-> [card |-> logs[i].card, rating |-> logs[i].rating,
                               format |-> logs[i].format]]

Promised == INSTANCE Sittings WITH
    Contents <- Question, Blank <- NotAsked,
    removed <- RemovedSets, sitting <- Sitting, questions <- Questions,
    given <- Given, evidence <- Evidence

(* The handlers, interleaved statement by statement, keep the promises of  *)
(* Sittings: one open run, fixed questions, an answer counted once, a      *)
(* score earned from the log, evidence that is only ever added to.         *)
ImplementsSittings == Promised!Spec
=============================================================================
