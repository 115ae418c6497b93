-------------------------- MODULE ReviewRunsProofs --------------------------
(* Proofs about ReviewRuns, for any number of requests, sets, runs and     *)
(* cards and any configuration of the sets.                                *)
EXTENDS ReviewRuns, TLAPS, FiniteSetTheorems

(* Every subset of the account's cards has a size.                         *)
LEMMA CardCount ==
    ASSUME NEW S \in SUBSET Cards
    PROVE  IsFiniteSet(S) /\ Cardinality(S) \in Nat
  BY FiniteAssumption, FS_Subset, FS_CardinalityType

(* The rows a start may build are rows of the snapshot table.              *)
LEMMA RecallSheetType ==
    ASSUME NEW draw \in Draw
    PROVE  RecallSheet(draw) \in Sheet
  BY ChoiceAssumption
  DEF Draw, RecallSheet, Sheet, NotAsked, Recall, Question, OptionLists

LEMMA DrawType ==
    ASSUME NEW s \in Sets, live \subseteq Cards, NEW d \in Draws(s)
    PROVE  d \in Draw
<1>1. PICK S \in SUBSET Cards : d \in Orders(S)
  BY DEF Draws, PinnedDraws, RandomDraws
<1>2. Cardinality(S) \in Nat
  BY CardCount
<1> QED BY <1>1, <1>2 DEF Orders, Draw

LEMMA ChoiceRowType ==
    ASSUME NEW n \in Nat, NEW correct \in Backs \cup {Null},
           NEW pool \in SUBSET Backs, NEW row \in QuestionRows(n, correct, pool)
    PROVE  row \in Question
<1> DEFINE lists == IF correct = Null THEN {} ELSE ChoiceOptions(correct, pool)
<1>1. row = NotAsked \/ row = Recall(n) => row \in Question
  BY ChoiceAssumption DEF Question, OptionLists, NotAsked, Recall
<1>2. CASE row # NotAsked /\ row # Recall(n)
  <2>1. PICK o \in lists :
          row = [position |-> n, options |-> o,
                 correct |-> CHOOSE i \in 1..ChoiceCount : o[i] = correct]
    BY <1>2 DEF QuestionRows
  <2>2. correct \in Backs
    BY <2>1
  <2>3. o \in Injection(1..ChoiceCount, pool \cup {correct}) /\ correct \in Range(o)
    BY <2>1 DEF ChoiceOptions
  <2>4. o \in [1..ChoiceCount -> Backs]
    BY <2>2, <2>3 DEF Injection
  <2>5. \E i \in 1..ChoiceCount : o[i] = correct
    BY <2>3, <2>4 DEF Range
  <2>6. (CHOOSE i \in 1..ChoiceCount : o[i] = correct) \in 1..ChoiceCount
    BY <2>5
  <2> QED BY <2>1, <2>4, <2>6, ChoiceAssumption DEF Question, OptionLists
<1> QED BY <1>1, <1>2

LEMMA ChoiceSheetType ==
    ASSUME NEW draw \in Draw, NEW backs \in HeldBacks, NEW pool \in SUBSET Backs,
           NEW sh \in ChoiceSheets(draw, backs, pool)
    PROVE  sh \in Sheet
<1> DEFINE rows == [c \in Cards |-> QuestionRows(draw[c], backs[c], pool)]
<1>1. sh \in [Cards -> UNION {rows[c] : c \in Cards}]
  BY DEF ChoiceSheets
<1>2. ASSUME NEW c \in Cards
      PROVE  sh[c] \in Question
  <2>1. sh[c] \in QuestionRows(draw[c], backs[c], pool)
    BY DEF ChoiceSheets
  <2>2. draw[c] \in Nat /\ backs[c] \in Backs \cup {Null}
    BY DEF Draw, HeldBacks
  <2> QED BY <2>1, <2>2, ChoiceRowType
<1> QED BY <1>1, <1>2 DEF Sheet

-----------------------------------------------------------------------------
(* What a request holds, by the place it stands at.                        *)
LEMMA RequestFields ==
    ASSUME NEW q \in Request
    PROVE  /\ q.pc \in {"readOpen", "draw"} => q.set \in Sets
           /\ q.pc \in {"backs", "pool", "widen"} =>
                q.set \in Sets /\ q.draw \in Draw
           /\ q.pc \in {"pool", "widen"} =>
                /\ q.backs \in HeldBacks
                /\ q = [pc |-> q.pc, set |-> q.set, draw |-> q.draw,
                        backs |-> q.backs]
           /\ q.pc = "create" => q.set \in Sets /\ q.sheet \in Sheet
           /\ q.pc = "detail" => q.run \in Runs /\ q.code \in {200, 201}
           /\ q.pc \in {"question", "insert", "answered"} =>
                q.run \in Runs /\ q.card \in Cards
           /\ q.pc \in {"insert", "answered"} => q.rating \in Ratings
           /\ q.pc = "insert" => q.format \in Formats
           /\ q.pc \in {"finish", "ended"} =>
                q.run \in Runs /\ q.finished \in BOOLEAN
           /\ q.pc = "started" => q.run \in Runs
  BY DEF Request

LEMMA GotoType ==
    ASSUME TypeOK, NEW p \in Procs, NEW next \in Request, Goto(p, next)
    PROVE  req' \in [Procs -> Request]
  BY DEF TypeOK, Goto

LEMMA RefuseType ==
    ASSUME TypeOK, NEW p \in Procs, NEW id \in Sets \cup Runs,
           NEW op \in {"start", "answer", "finish", "discard"},
           NEW code \in {400, 404, 409, 500}, Refuse(p, op, code, id)
    PROVE  req' \in [Procs -> Request]
<1>1. [pc |-> "refused", op |-> op, code |-> code, id |-> id] \in Request
  BY DEF Request
<1> QED BY <1>1, GotoType DEF Refuse

LEMMA OpenRunsType ==
    ASSUME NEW s, NEW r \in OpenRuns(s)
    PROVE  r \in Runs
  BY DEF OpenRuns

LEMMA TypeStart ==
    ASSUME TypeOK, NEW p \in Procs, Start(p)
    PROVE  TypeOK'
<1> USE DEF TypeOK
<1>1. ASSUME NEW s \in Sets, StartReadSet(p, s)
      PROVE  TypeOK'
  <2>1. [pc |-> "readOpen", set |-> s] \in Request
    BY DEF Request
  <2>2. req' \in [Procs -> Request]
    BY <1>1, <2>1, GotoType, RefuseType DEF StartReadSet
  <2> QED BY <1>1, <2>2 DEF StartReadSet
<1>2. ASSUME StartReadOpen(p)
      PROVE  TypeOK'
  <2>1. req[p].set \in Sets
    BY <1>2, RequestFields DEF StartReadOpen
  <2>2. [pc |-> "draw", set |-> req[p].set] \in Request
    BY <2>1 DEF Request
  <2>3. ASSUME NEW r \in OpenRuns(req[p].set)
        PROVE  [pc |-> "detail", run |-> r, code |-> 200] \in Request
    BY OpenRunsType DEF Request
  <2>4. req' \in [Procs -> Request]
    BY <1>2, <2>2, <2>3, GotoType DEF StartReadOpen
  <2> QED BY <1>2, <2>4 DEF StartReadOpen
<1>3. ASSUME StartDraw(p)
      PROVE  TypeOK'
  <2>1. req[p].set \in Sets
    BY <1>3, RequestFields DEF StartDraw
  <2> DEFINE s == req[p].set
  <2>2. PICK draw \in Draws(s) :
          \/ Refuse(p, "start", 400, s)
          \/ Goto(p, [pc |-> "create", set |-> s, sheet |-> RecallSheet(draw)])
          \/ Goto(p, [pc |-> "backs", set |-> s, draw |-> draw])
    BY <1>3 DEF StartDraw
  <2>3. draw \in Draw
    BY <2>1, DrawType
  <2>4. [pc |-> "create", set |-> s, sheet |-> RecallSheet(draw)] \in Request
    BY <2>1, <2>3, RecallSheetType DEF Request
  <2>5. [pc |-> "backs", set |-> s, draw |-> draw] \in Request
    BY <2>1, <2>3 DEF Request
  <2>6. req' \in [Procs -> Request]
    BY <2>1, <2>2, <2>4, <2>5, GotoType, RefuseType
  <2> QED BY <1>3, <2>6 DEF StartDraw
<1>4. ASSUME StartBacks(p)
      PROVE  TypeOK'
  <2> DEFINE held == [c \in Cards |-> IF c \in live \cap Drawn(req[p].draw)
                                      THEN back[c] ELSE Null]
             next == [pc |-> "pool", set |-> req[p].set, draw |-> req[p].draw,
                      backs |-> held]
  <2>1. req[p].set \in Sets /\ req[p].draw \in Draw
    BY <1>4, RequestFields DEF StartBacks
  <2>2. held \in HeldBacks
    BY DEF HeldBacks
  <2>3. next \in Request
    BY <2>1, <2>2 DEF Request
  <2>4. req' \in [Procs -> Request]
    BY <1>4, <2>3, GotoType DEF StartBacks
  <2> QED BY <1>4, <2>4 DEF StartBacks
<1>5. ASSUME NEW pool \in SUBSET Backs, TakePool(p, pool),
             req[p].pc \in {"pool", "widen"}
      PROVE  req' \in [Procs -> Request]
  <2>1. /\ req[p].set \in Sets
        /\ req[p].draw \in Draw
        /\ req[p].backs \in HeldBacks
    BY <1>5, RequestFields
  <2>2. PICK sh \in ChoiceSheets(req[p].draw, req[p].backs, pool) :
          Goto(p, [pc |-> "create", set |-> req[p].set, sheet |-> sh])
    BY <1>5 DEF TakePool
  <2>3. [pc |-> "create", set |-> req[p].set, sheet |-> sh] \in Request
    BY <2>1, ChoiceSheetType DEF Request
  <2> QED BY <2>2, <2>3, GotoType
<1>6. ASSUME StartPool(p)
      PROVE  TypeOK'
  <2> DEFINE pool == DistractorPool(Config[req[p].set].filter)
  <2>1. pool \in SUBSET Backs
    BY DEF DistractorPool
  <2>2. CASE TakePool(p, pool)
    <3>1. req' \in [Procs -> Request]
      BY <1>5, <1>6, <2>1, <2>2 DEF StartPool
    <3> QED BY <1>6, <3>1 DEF StartPool
  <2>3. CASE Goto(p, [req[p] EXCEPT !.pc = "widen"])
    <3>1. /\ req[p].set \in Sets /\ req[p].draw \in Draw /\ req[p].backs \in HeldBacks
          /\ req[p] = [pc |-> req[p].pc, set |-> req[p].set,
                       draw |-> req[p].draw, backs |-> req[p].backs]
      BY <1>6, RequestFields DEF StartPool
    <3>2. [req[p] EXCEPT !.pc = "widen"] =
            [pc |-> "widen", set |-> req[p].set, draw |-> req[p].draw,
             backs |-> req[p].backs]
      BY <3>1
    <3>3. [req[p] EXCEPT !.pc = "widen"] \in Request
      BY <3>1, <3>2 DEF Request
    <3>4. req' \in [Procs -> Request]
      BY <2>3, <3>3, GotoType
    <3> QED BY <1>6, <3>4 DEF StartPool
  <2> QED BY <1>6, <2>2, <2>3 DEF StartPool
<1>7. ASSUME StartWiden(p)
      PROVE  TypeOK'
  <2>1. DistractorPool(Cards) \in SUBSET Backs
    BY DEF DistractorPool
  <2>2. req' \in [Procs -> Request]
    BY <1>5, <1>7, <2>1 DEF StartWiden
  <2> QED BY <1>7, <2>2 DEF StartWiden
<1>8. ASSUME StartCreate(p)
      PROVE  TypeOK'
  <2>1. req[p].set \in Sets /\ req[p].sheet \in Sheet
    BY <1>8, RequestFields DEF StartCreate
  <2>2. CASE Refuse(p, "start", 500, req[p].set) /\ UNCHANGED <<run, sheet>>
    <3>1. req' \in [Procs -> Request]
      BY <2>1, <2>2, RefuseType
    <3> QED BY <1>8, <2>2, <3>1 DEF StartCreate
  <2>3. ASSUME NEW r \in Runs,
               run' = [run EXCEPT ![r] = [status |-> "open", set |-> req[p].set,
                                          total |-> 0, correct |-> 0]],
               sheet' = [sheet EXCEPT ![r] = req[p].sheet],
               Goto(p, [pc |-> "detail", run |-> r, code |-> 201])
        PROVE  TypeOK'
    <3>1. [pc |-> "detail", run |-> r, code |-> 201] \in Request
      BY DEF Request
    <3>2. req' \in [Procs -> Request]
      BY <2>3, <3>1, GotoType
    <3>3. run' \in [Runs -> RunRow] /\ sheet' \in [Runs -> Sheet]
      BY <2>1, <2>3 DEF RunRow
    <3> QED BY <1>8, <3>2, <3>3 DEF StartCreate
  <2> QED BY <1>8, <2>2, <2>3 DEF StartCreate
<1>9. ASSUME StartDetail(p)
      PROVE  TypeOK'
  <2>1. [pc |-> "started", run |-> req[p].run, code |-> req[p].code] \in Request
    BY <1>9, RequestFields DEF StartDetail, Request
  <2>2. req' \in [Procs -> Request]
    BY <1>9, <2>1, GotoType DEF StartDetail
  <2> QED BY <1>9, <2>2 DEF StartDetail
<1> QED BY <1>1, <1>2, <1>3, <1>4, <1>6, <1>7, <1>8, <1>9 DEF Start

LEMMA TypeAnswer ==
    ASSUME TypeOK, NEW p \in Procs, Answer(p)
    PROVE  TypeOK'
<1> USE DEF TypeOK
<1>1. ASSUME NEW r \in Runs, NEW c \in Cards, AnswerReadRun(p, r, c)
      PROVE  TypeOK'
  <2>1. [pc |-> "question", run |-> r, card |-> c] \in Request
    BY DEF Request
  <2>2. req' \in [Procs -> Request]
    BY <1>1, <2>1, GotoType, RefuseType DEF AnswerReadRun
  <2> QED BY <1>1, <2>2 DEF AnswerReadRun
<1>2. ASSUME NEW rating \in SentRatings, NEW choice \in SentChoices,
             AnswerReadQuestion(p, rating, choice)
      PROVE  TypeOK'
  <2> DEFINE r == req[p].run
             c == req[p].card
             To(graded) == [pc |-> "insert", run |-> r, card |-> c,
                            rating |-> graded,
                            format |-> AnsweredFormat(r, sheet[r][c])]
  <2>1. r \in Runs /\ c \in Cards
    BY <1>2, RequestFields DEF AnswerReadQuestion
  <2>2. ASSUME NEW graded \in Ratings
        PROVE  To(graded) \in Request
    BY <2>1 DEF Request, AnsweredFormat, Formats
  <2>3. \/ \E code \in {400, 404} : Refuse(p, "answer", code, r)
        \/ \E graded \in Ratings : Goto(p, To(graded))
    BY <1>2 DEF AnswerReadQuestion, GoodRating, Ratings
  <2>4. ASSUME NEW code \in {400, 404}, Refuse(p, "answer", code, r)
        PROVE  req' \in [Procs -> Request]
    BY <2>1, <2>4, RefuseType
  <2>5. ASSUME NEW graded \in Ratings, Goto(p, To(graded))
        PROVE  req' \in [Procs -> Request]
    BY <2>2, <2>5, GotoType
  <2>6. req' \in [Procs -> Request]
    <3>1. CASE \E code \in {400, 404} : Refuse(p, "answer", code, r)
      <4>1. PICK code \in {400, 404} : Refuse(p, "answer", code, r)
        BY <3>1
      <4> QED BY <4>1, <2>4
    <3>2. CASE \E graded \in Ratings : Goto(p, To(graded))
      <4>1. PICK graded \in Ratings : Goto(p, To(graded))
        BY <3>2
      <4> QED BY <4>1, <2>5
    <3> QED BY <2>3, <3>1, <3>2
  <2> QED BY <1>2, <2>6 DEF AnswerReadQuestion
<1>3. ASSUME AnswerInsert(p)
      PROVE  TypeOK'
  <2> DEFINE row == [run |-> req[p].run, card |-> req[p].card,
                     rating |-> req[p].rating, format |-> req[p].format]
             next == [pc |-> "answered", run |-> req[p].run,
                      card |-> req[p].card, rating |-> req[p].rating]
  <2>1. /\ req[p].run \in Runs /\ req[p].card \in Cards
        /\ req[p].rating \in Ratings /\ req[p].format \in Formats
    BY <1>3, RequestFields DEF AnswerInsert
  <2>2. row \in LogRow
    BY <2>1 DEF LogRow
  <2>3. next \in Request
    BY <2>1 DEF Request
  <2>4. logs' \in Seq(LogRow)
    BY <1>3, <2>2 DEF AnswerInsert
  <2>5. req' \in [Procs -> Request]
    BY <1>3, <2>1, <2>3, GotoType, RefuseType DEF AnswerInsert
  <2> QED BY <1>3, <2>4, <2>5 DEF AnswerInsert
<1> QED BY <1>1, <1>2, <1>3 DEF Answer, Known

(* The ids of the log are the numbers up to its length.                    *)
LEMMA LogIdsFinite ==
    ASSUME TypeOK, NEW S \in SUBSET LogIds
    PROVE  IsFiniteSet(S) /\ Cardinality(S) \in Nat
<1>1. LogIds = 1..Len(logs) /\ Len(logs) \in Nat
  BY DEF TypeOK, LogIds
<1>2. IsFiniteSet(LogIds)
  BY <1>1, FS_Interval
<1> QED BY <1>2, FS_Subset, FS_CardinalityType

LEMMA TypeFinish ==
    ASSUME TypeOK, NEW p \in Procs, Finish(p)
    PROVE  TypeOK'
<1> USE DEF TypeOK
<1>1. ASSUME NEW r \in Runs, FinishReadRun(p, r)
      PROVE  TypeOK'
  <2>1. [pc |-> "finish", run |-> r, finished |-> run[r].status = "finished"]
          \in Request
    BY DEF Request
  <2>2. req' \in [Procs -> Request]
    BY <1>1, <2>1, GotoType, RefuseType DEF FinishReadRun
  <2> QED BY <1>1, <2>2 DEF FinishReadRun
<1>2. ASSUME FinishUpdate(p)
      PROVE  TypeOK'
  <2> DEFINE r == req[p].run
  <2>1. r \in Runs /\ req[p].finished \in BOOLEAN
    BY <1>2, RequestFields DEF FinishUpdate
  <2>2. TotalCount(r) \in Nat
    BY CardCount DEF TotalCount, AskedIn
  <2>3. CorrectCount(r) \in Nat
    BY LogIdsFinite DEF CorrectCount, RightAnswers
  <2>4. ASSUME NEW f \in BOOLEAN
        PROVE  [pc |-> "ended", run |-> r, finished |-> f] \in Request
    BY <2>1 DEF Request
  <2>5. req' \in [Procs -> Request]
    BY <1>2, <2>1, <2>4, GotoType DEF FinishUpdate
  <2> DEFINE row == [status |-> "finished", set |-> run[r].set,
                     total |-> TotalCount(r), correct |-> CorrectCount(r)]
  <2>6. row \in RunRow
    BY <2>1, <2>2, <2>3 DEF RunRow
  <2>7. run' = [run EXCEPT ![r] = row] \/ run' = run
    BY <1>2 DEF FinishUpdate
  <2>8. run' \in [Runs -> RunRow]
    BY <2>1, <2>6, <2>7
  <2> QED BY <1>2, <2>5, <2>8 DEF FinishUpdate
<1> QED BY <1>1, <1>2 DEF Finish, Known

LEMMA DetachedType ==
    ASSUME TypeOK, NEW r \in Runs
    PROVE  /\ Detached(r) \in Seq(LogRow)
           /\ DOMAIN Detached(r) = LogIds
<1>1. LogIds = 1..Len(logs) /\ Len(logs) \in Nat
  BY DEF TypeOK, LogIds
<1>2. \A i \in LogIds : logs[i] \in LogRow
  BY DEF TypeOK, LogIds
<1>3. \A i \in LogIds : Detached(r)[i] \in LogRow
  BY <1>2 DEF Detached, LogRow
<1>4. DOMAIN Detached(r) = LogIds
  BY DEF Detached
<1>5. Detached(r) \in [1..Len(logs) -> LogRow]
  BY <1>1, <1>3, <1>4 DEF Detached
<1> QED BY <1>1, <1>4, <1>5

LEMMA TypeDiscard ==
    ASSUME TypeOK, NEW p \in Procs, Discard(p)
    PROVE  TypeOK'
<1> USE DEF TypeOK
<1>1. PICK r \in Runs : DiscardRun(p, r)
  BY DEF Discard, Known
<1>2. [pc |-> "idle"] \in Request
  BY DEF Request
<1>3. req' \in [Procs -> Request]
  BY <1>1, <1>2, GotoType, RefuseType DEF DiscardRun
<1>4. NoQuestions \in Sheet
  BY ChoiceAssumption DEF NoQuestions, NotAsked, Sheet, Question, OptionLists
<1>5. Absent("deleted") \in RunRow
  BY DEF Absent, RunRow
<1>6. /\ run' \in [Runs -> RunRow]
      /\ sheet' \in [Runs -> Sheet]
      /\ logs' \in Seq(LogRow)
  BY <1>1, <1>4, <1>5, DetachedType DEF DiscardRun, WithoutSnapshot
<1> QED BY <1>1, <1>3, <1>6 DEF DiscardRun

LEMMA TypeRest ==
    ASSUME TypeOK, Elsewhere \/ (\E p \in Procs : Abort(p)) \/ UNCHANGED vars
    PROVE  TypeOK'
<1> USE DEF TypeOK
<1>1. CASE Elsewhere
  BY <1>1 DEF Elsewhere, ArchiveSet, UnarchiveSet, DeleteSet, DeleteCard,
              RestoreCard, EditBack
<1>2. ASSUME NEW p \in Procs, Abort(p)
      PROVE  TypeOK'
  <2>1. [pc |-> "idle"] \in Request
    BY DEF Request
  <2>2. req' \in [Procs -> Request]
    BY <1>2, <2>1, GotoType DEF Abort
  <2> QED BY <1>2, <2>2 DEF Abort
<1>3. CASE UNCHANGED vars
  BY <1>3 DEF vars
<1> QED BY <1>1, <1>2, <1>3

LEMMA TypeInit == Init => TypeOK
<1> SUFFICES ASSUME Init PROVE TypeOK
  OBVIOUS
<1>1. NotAsked \in Question /\ Absent("none") \in RunRow /\ [pc |-> "idle"] \in Request
  BY ChoiceAssumption
  DEF NotAsked, Question, OptionLists, Absent, RunRow, Request
<1> QED BY <1>1, BackAssumption DEF Init, TypeOK, NoQuestions, Sheet

LEMMA TypeStep == TypeOK /\ [Next]_vars => TypeOK'
  BY TypeStart, TypeAnswer, TypeFinish, TypeDiscard, TypeRest DEF Next

(* Every row and every value a request holds stays in its column's type.   *)
THEOREM TypeCorrect == Spec => []TypeOK
  BY TypeInit, TypeStep, PTL DEF Spec

-----------------------------------------------------------------------------
(* The inductive invariant: the safety properties, and RequestsFit, which  *)
(* says what a request remembers across the statements of others.          *)
RowsInv ==
    /\ OneOpenRun
    /\ RunsKeepTheirSet
    /\ NoEmptyRun
    /\ AnswersFitTheirRun
    /\ ScoreBounded
    /\ ScoreIsEvidenced

IInv == TypeOK /\ RowsInv /\ RequestsFit /\ AcknowledgedAnswersKept

(* The five ways a step can change the rows.                               *)
Creates(p, r) ==
    /\ req[p].pc = "create"
    /\ setStatus[req[p].set] # "gone"
    /\ OpenRuns(req[p].set) = {}
    /\ run[r].status = "none"
    /\ run' = [run EXCEPT ![r] = [status |-> "open", set |-> req[p].set,
                                  total |-> 0, correct |-> 0]]
    /\ sheet' = [sheet EXCEPT ![r] = req[p].sheet]
    /\ UNCHANGED <<setStatus, logs>>

Records(p) ==
    /\ req[p].pc = "insert"
    /\ RunExists(req[p].run)
    /\ AnswersTo(req[p].run, req[p].card) = {}
    /\ logs' = Append(logs, [run |-> req[p].run, card |-> req[p].card,
                             rating |-> req[p].rating,
                             format |-> req[p].format])
    /\ UNCHANGED <<setStatus, run, sheet>>

Closes(r) ==
    /\ run[r].status = "open"
    /\ run' = [run EXCEPT ![r] =
                 [status |-> "finished", set |-> run[r].set,
                  total |-> TotalCount(r), correct |-> CorrectCount(r)]]
    /\ UNCHANGED <<setStatus, sheet, logs>>

Drops(r) ==
    /\ RunExists(r)
    /\ run' = [run EXCEPT ![r] = Absent("deleted")]
    /\ sheet' = [sheet EXCEPT ![r] = NoQuestions]
    /\ logs' = Detached(r)
    /\ UNCHANGED setStatus

Retires(s, status) ==
    /\ setStatus[s] # "gone"
    /\ status = "gone" => ~ HasRuns(s)
    /\ setStatus' = [setStatus EXCEPT ![s] = status]
    /\ UNCHANGED <<run, sheet, logs>>

LEMMA StepEffects ==
    ASSUME TypeOK, [Next]_vars
    PROVE  \/ UNCHANGED <<setStatus, run, sheet, logs>>
           \/ \E p \in Procs, r \in Runs : Creates(p, r)
           \/ \E p \in Procs : Records(p)
           \/ \E r \in Runs : Closes(r)
           \/ \E r \in Runs : Drops(r)
           \/ \E s \in Sets, status \in {"live", "archived", "gone"} :
                 Retires(s, status)
<1>1. CASE UNCHANGED vars
  BY <1>1 DEF vars
<1>2. ASSUME NEW p \in Procs, Start(p)
      PROVE  \/ UNCHANGED <<setStatus, run, sheet, logs>>
             \/ \E r \in Runs : Creates(p, r)
  <2>1. CASE StartCreate(p)
    BY <2>1 DEF StartCreate, Creates, OpenRunIndexed
  <2>2. CASE ~ StartCreate(p)
    BY <1>2, <2>2 DEF Start, StartReadSet, StartReadOpen, StartDraw, StartBacks,
                      StartPool, StartWiden, StartDetail
  <2> QED BY <2>1, <2>2
<1>3. ASSUME NEW p \in Procs, Answer(p)
      PROVE  UNCHANGED <<setStatus, run, sheet, logs>> \/ Records(p)
  <2>1. CASE AnswerInsert(p)
    BY <2>1 DEF AnswerInsert, Records, Conflicts
  <2>2. CASE ~ AnswerInsert(p)
    BY <1>3, <2>2 DEF Answer, AnswerReadRun, AnswerReadQuestion
  <2> QED BY <2>1, <2>2
<1>4. ASSUME NEW p \in Procs, Finish(p)
      PROVE  \/ UNCHANGED <<setStatus, run, sheet, logs>>
             \/ \E r \in Runs : Closes(r)
  <2>1. ASSUME FinishUpdate(p)
        PROVE  \/ UNCHANGED <<setStatus, run, sheet, logs>>
               \/ \E r \in Runs : Closes(r)
    <3> DEFINE r == req[p].run
    <3>1. r \in Runs
      BY <2>1, RequestFields DEF FinishUpdate, TypeOK
    <3>2. CASE Unfinished(r)
      BY <2>1, <3>1, <3>2 DEF FinishUpdate, Closes, Unfinished
    <3>3. CASE ~ Unfinished(r)
      BY <2>1, <3>3 DEF FinishUpdate
    <3> QED BY <3>2, <3>3
  <2> QED BY <1>4, <2>1 DEF Finish, FinishReadRun
<1>5. ASSUME NEW p \in Procs, Discard(p)
      PROVE  \/ UNCHANGED <<setStatus, run, sheet, logs>>
             \/ \E r \in Runs : Drops(r)
  BY <1>5 DEF Discard, Known, DiscardRun, Drops, WithoutSnapshot
<1>6. ASSUME NEW p \in Procs, Abort(p)
      PROVE  UNCHANGED <<setStatus, run, sheet, logs>>
  BY <1>6 DEF Abort
<1>7. CASE Elsewhere
  BY <1>7 DEF Elsewhere, ArchiveSet, UnarchiveSet, DeleteSet, DeleteCard,
              RestoreCard, EditBack, Retires
<1> QED BY <1>1, <1>2, <1>3, <1>4, <1>5, <1>6, <1>7 DEF Next

(* The right answers of a run are to different questions of it, so there   *)
(* are at most as many as it asks.                                         *)
LEMMA RightAnswersBounded ==
    ASSUME TypeOK, AnswersFitTheirRun, NEW r \in Runs
    PROVE  Cardinality(RightAnswers(r)) <= Cardinality(AskedIn(sheet[r]))
<1> DEFINE right == RightAnswers(r)
           asked == AskedIn(sheet[r])
           cardOf == [i \in right |-> logs[i].card]
<1>1. \A i \in right : i \in LogIds /\ logs[i] \in LogRow /\ logs[i].run = r
  BY DEF RightAnswers, TypeOK, LogIds
<1>2. r # Null
  BY NullAssumption
<1>3. \A i \in right : logs[i].card \in asked
  BY <1>1, <1>2 DEF AnswersFitTheirRun
<1>4. \A i, j \in right : logs[i].card = logs[j].card => i = j
  BY <1>1, <1>2 DEF AnswersFitTheirRun, AnswersTo
<1>5. cardOf \in Injection(right, asked)
  BY <1>3, <1>4 DEF Injection, IsInjective
<1>6. IsFiniteSet(asked)
  BY CardCount DEF AskedIn
<1> QED BY <1>5, <1>6, FS_Injection

-----------------------------------------------------------------------------
(* Each way of changing the rows keeps RowsInv.                            *)

LEMMA CreatesKeeps ==
    ASSUME TypeOK, RowsInv, RequestsFit, TypeOK',
           NEW p \in Procs, NEW r \in Runs, Creates(p, r)
    PROVE  RowsInv'
<1> DEFINE s == req[p].set
<1>1. s \in Sets /\ req[p].sheet \in Sheet
  BY RequestFields DEF Creates, TypeOK
<1>2. \A x \in Runs : x # r => run'[x] = run[x] /\ sheet'[x] = sheet[x]
  BY DEF Creates, TypeOK
<1>3. /\ run'[r] = [status |-> "open", set |-> s, total |-> 0, correct |-> 0]
      /\ sheet'[r] = req[p].sheet
  BY DEF Creates, TypeOK
<1>4. run[r].status = "none" /\ logs' = logs /\ setStatus' = setStatus
  BY DEF Creates
<1>5. OneOpenRun'
  <2>1. \A x \in Runs : run[x].status = "open" => run[x].set # s
    BY DEF Creates, OpenRuns
  <2> QED BY <1>2, <1>3, <2>1 DEF RowsInv, OneOpenRun
<1>6. RunsKeepTheirSet'
  BY <1>1, <1>2, <1>3, <1>4 DEF RowsInv, RunsKeepTheirSet, RunExists, Creates
<1>7. NoEmptyRun'
  <2>1. AskedIn(req[p].sheet) # {}
    BY DEF RequestsFit, Creates
  <2> QED BY <1>2, <1>3, <2>1 DEF RowsInv, NoEmptyRun, RunExists
<1>8. AnswersFitTheirRun'
  <2>1. LogIds' = LogIds
    BY <1>4 DEF LogIds
  <2>2. \A i \in LogIds : logs[i] \in LogRow
    BY DEF TypeOK, LogIds
  <2>3. \A i \in LogIds : logs[i].run # Null =>
          logs[i].run \in Runs /\ logs[i].run # r
    BY <1>4, <2>2 DEF RowsInv, AnswersFitTheirRun, RunExists, LogRow
  <2> QED BY <1>2, <1>4, <2>1, <2>3
          DEF RowsInv, AnswersFitTheirRun, RunExists, AnswersTo
<1>9. ScoreBounded'
  BY <1>2, <1>3 DEF RowsInv, ScoreBounded
<1>10. ScoreIsEvidenced'
  BY <1>2, <1>3, <1>4 DEF RowsInv, ScoreIsEvidenced, RightAnswers, LogIds
<1> QED BY <1>5, <1>6, <1>7, <1>8, <1>9, <1>10 DEF RowsInv

LEMMA RecordsKeeps ==
    ASSUME TypeOK, RowsInv, RequestsFit, TypeOK', NEW p \in Procs, Records(p)
    PROVE  RowsInv'
<1> DEFINE r == req[p].run
           c == req[p].card
           row == [run |-> r, card |-> c, rating |-> req[p].rating,
                   format |-> req[p].format]
           new == Len(logs) + 1
<1>1. r \in Runs /\ c \in Cards /\ row \in LogRow
  BY RequestFields DEF Records, TypeOK, LogRow
<1>2. Len(logs) \in Nat /\ LogIds = 1..Len(logs)
  BY DEF TypeOK, LogIds
<1>3. /\ LogIds' = 1..new
      /\ \A i \in LogIds : i # new /\ logs'[i] = logs[i]
      /\ logs'[new] = row
  BY <1>1, <1>2 DEF Records, TypeOK, LogIds
<1>4. run' = run /\ sheet' = sheet /\ setStatus' = setStatus
  BY DEF Records
<1>5. OneOpenRun' /\ RunsKeepTheirSet' /\ NoEmptyRun' /\ ScoreBounded'
  BY <1>4 DEF RowsInv, OneOpenRun, RunsKeepTheirSet, NoEmptyRun, ScoreBounded,
              RunExists
<1>6. AnswersFitTheirRun'
  <2>1. /\ RunExists(r) /\ c \in AskedIn(sheet[r])
        /\ req[p].format = IF IsChoice(sheet[r][c]) THEN "choice" ELSE "recall"
        /\ \A i \in LogIds : ~ (logs[i].run = r /\ logs[i].card = c)
    BY DEF Records, RequestsFit, AnswersTo
  <2> SUFFICES ASSUME NEW i \in LogIds', (logs[i].run # Null)'
               PROVE  (/\ RunExists(logs[i].run)
                       /\ logs[i].card \in AskedIn(sheet[logs[i].run])
                       /\ logs[i].format =
                            IF IsChoice(sheet[logs[i].run][logs[i].card])
                            THEN "choice" ELSE "recall"
                       /\ \A j \in AnswersTo(logs[i].run, logs[i].card) : j = i)'
    BY DEF AnswersFitTheirRun
  <2>2. CASE i = new
    <3>1. \A j \in LogIds' : logs'[j].run = r /\ logs'[j].card = c => j = new
      BY <1>2, <1>3, <2>1
    <3> QED BY <1>3, <1>4, <2>1, <2>2, <3>1 DEF RunExists, AnswersTo
  <2>3. CASE i # new
    <3>1. i \in LogIds /\ logs'[i] = logs[i]
      BY <1>2, <1>3, <2>3
    <3>2. \A j \in LogIds' :
            logs'[j].run = logs[i].run /\ logs'[j].card = logs[i].card => j = i
      <4> SUFFICES ASSUME NEW j \in LogIds', logs'[j].run = logs[i].run,
                          logs'[j].card = logs[i].card
                   PROVE  j = i
        OBVIOUS
      <4>1. j # new
        BY <1>3, <2>1, <3>1
      <4>2. j \in LogIds /\ logs'[j] = logs[j]
        BY <1>2, <1>3, <4>1
      <4> QED BY <3>1, <4>2 DEF RowsInv, AnswersFitTheirRun, AnswersTo
    <3> QED BY <1>4, <3>1, <3>2
            DEF RowsInv, AnswersFitTheirRun, RunExists, AnswersTo
  <2> QED BY <2>2, <2>3
<1>7. ScoreIsEvidenced'
  <2> SUFFICES ASSUME NEW x \in Runs, run'[x].status = "finished"
               PROVE  run'[x].correct <= Cardinality(RightAnswers(x)')
    BY DEF ScoreIsEvidenced
  <2>1. RightAnswers(x) \subseteq RightAnswers(x)'
    BY <1>2, <1>3 DEF RightAnswers
  <2>2. IsFiniteSet(RightAnswers(x)')
    <3>1. new \in Nat
      BY <1>2
    <3>2. RightAnswers(x)' \in SUBSET (1..new)
      BY <1>3 DEF RightAnswers
    <3> HIDE DEF new
    <3>3. IsFiniteSet(1..new)
      BY <3>1, FS_Interval
    <3> QED BY <3>2, <3>3, FS_Subset
  <2>3. Cardinality(RightAnswers(x)) <= Cardinality(RightAnswers(x)')
    BY <2>1, <2>2, FS_Subset
  <2>4. /\ Cardinality(RightAnswers(x)) \in Nat
        /\ Cardinality(RightAnswers(x)') \in Nat
        /\ run[x].correct \in Nat
    BY <2>2, LogIdsFinite, FS_CardinalityType DEF RightAnswers, TypeOK, RunRow
  <2> QED BY <1>4, <2>3, <2>4 DEF RowsInv, ScoreIsEvidenced
<1> QED BY <1>5, <1>6, <1>7 DEF RowsInv

LEMMA ClosesKeeps ==
    ASSUME TypeOK, RowsInv, TypeOK', NEW r \in Runs, Closes(r)
    PROVE  RowsInv'
<1>1. \A x \in Runs : x # r => run'[x] = run[x]
  BY DEF Closes, TypeOK
<1>2. run'[r] = [status |-> "finished", set |-> run[r].set,
                 total |-> TotalCount(r), correct |-> CorrectCount(r)]
  BY DEF Closes, TypeOK
<1>3. /\ run[r].status = "open"
      /\ setStatus' = setStatus /\ sheet' = sheet /\ logs' = logs
  BY DEF Closes
<1>4. \A x \in Runs : RunExists(x)' = RunExists(x) /\ run'[x].set = run[x].set
  BY <1>1, <1>2, <1>3 DEF RunExists
<1>5. OneOpenRun'
  BY <1>1, <1>2 DEF RowsInv, OneOpenRun
<1>6. RunsKeepTheirSet' /\ NoEmptyRun'
  BY <1>3, <1>4 DEF RowsInv, RunsKeepTheirSet, NoEmptyRun
<1>7. AnswersFitTheirRun'
  <2>1. \A i \in LogIds : logs[i].run # Null => logs[i].run \in Runs
    <3>1. \A i \in LogIds : logs[i] \in LogRow
      BY DEF TypeOK, LogIds
    <3> QED BY <3>1 DEF LogRow
  <2> QED BY <1>3, <1>4, <2>1 DEF RowsInv, AnswersFitTheirRun, AnswersTo, LogIds
<1>8. ScoreBounded'
  <2>1. CorrectCount(r) <= TotalCount(r)
    BY RightAnswersBounded DEF CorrectCount, TotalCount, RowsInv
  <2> QED BY <1>1, <1>2, <1>3, <2>1 DEF RowsInv, ScoreBounded, TotalCount
<1>9. ScoreIsEvidenced'
  <2>1. CorrectCount(r) \in Nat
    BY LogIdsFinite DEF CorrectCount, RightAnswers
  <2>2. \A x \in Runs : RightAnswers(x)' = RightAnswers(x)
    BY <1>3 DEF RightAnswers, LogIds
  <2> QED BY <1>1, <1>2, <2>1, <2>2 DEF RowsInv, ScoreIsEvidenced, CorrectCount
<1> QED BY <1>5, <1>6, <1>7, <1>8, <1>9 DEF RowsInv

LEMMA DropsKeeps ==
    ASSUME TypeOK, RowsInv, TypeOK', NEW r \in Runs, Drops(r)
    PROVE  RowsInv'
<1>1. \A x \in Runs : x # r => run'[x] = run[x] /\ sheet'[x] = sheet[x]
  BY DEF Drops, TypeOK
<1>2. run'[r].status = "deleted"
  BY DEF Drops, TypeOK, Absent
<1>3. setStatus' = setStatus /\ logs' = Detached(r)
  BY DEF Drops
<1>4. \A i \in LogIds : logs[i] \in LogRow
  BY DEF TypeOK, LogIds
<1>5. /\ LogIds' = LogIds
      /\ \A i \in LogIds :
            /\ logs[i].run # r => logs'[i] = logs[i]
            /\ logs[i].run = r => logs'[i].run = Null
  BY <1>3, <1>4 DEF Detached, LogIds, LogRow
<1>6. r # Null
  BY NullAssumption
<1>7. OneOpenRun' /\ RunsKeepTheirSet' /\ NoEmptyRun'
  BY <1>1, <1>2, <1>3
  DEF RowsInv, OneOpenRun, RunsKeepTheirSet, NoEmptyRun, RunExists
<1>8. AnswersFitTheirRun'
  <2>1. \A i \in LogIds : logs'[i].run # Null =>
          /\ logs'[i] = logs[i]
          /\ logs[i].run \in Runs
          /\ logs[i].run # r
    BY <1>4, <1>5 DEF LogRow
  <2> QED BY <1>1, <1>5, <2>1
          DEF RowsInv, AnswersFitTheirRun, RunExists, AnswersTo
<1>9. ScoreBounded'
  BY <1>1, <1>2 DEF RowsInv, ScoreBounded
<1>10. ScoreIsEvidenced'
  <2> SUFFICES ASSUME NEW x \in Runs, run'[x].status = "finished"
               PROVE  run'[x].correct <= Cardinality(RightAnswers(x)')
    BY DEF ScoreIsEvidenced
  <2>1. x # r /\ x # Null
    BY <1>2, NullAssumption
  <2>2. RightAnswers(x)' = RightAnswers(x)
    BY <1>5, <2>1 DEF RightAnswers
  <2> QED BY <1>1, <2>1, <2>2 DEF RowsInv, ScoreIsEvidenced
<1> QED BY <1>7, <1>8, <1>9, <1>10 DEF RowsInv

LEMMA RetiresKeeps ==
    ASSUME TypeOK, RowsInv, NEW s \in Sets,
           NEW status \in {"live", "archived", "gone"}, Retires(s, status)
    PROVE  RowsInv'
<1>1. run' = run /\ sheet' = sheet /\ logs' = logs
  BY DEF Retires
<1>2. RunsKeepTheirSet'
  <2> SUFFICES ASSUME NEW r \in Runs, RunExists(r)'
               PROVE  run'[r].set \in Sets /\ setStatus'[run'[r].set] # "gone"
    BY DEF RunsKeepTheirSet
  <2>1. RunExists(r)
    BY <1>1 DEF RunExists
  <2>2. run[r].set \in Sets /\ setStatus[run[r].set] # "gone"
    BY <2>1 DEF RowsInv, RunsKeepTheirSet
  <2>3. run[r].set = s => status # "gone"
    BY <2>1 DEF Retires, HasRuns
  <2> QED BY <1>1, <2>2, <2>3 DEF Retires, TypeOK
<1>3. OneOpenRun' /\ NoEmptyRun' /\ AnswersFitTheirRun' /\ ScoreBounded'
        /\ ScoreIsEvidenced'
  BY <1>1 DEF RowsInv, OneOpenRun, NoEmptyRun, AnswersFitTheirRun, ScoreBounded,
              ScoreIsEvidenced, RunExists, LogIds, AnswersTo, RightAnswers
<1> QED BY <1>2, <1>3 DEF RowsInv

LEMMA RowsStep ==
    ASSUME IInv, [Next]_vars
    PROVE  RowsInv'
<1>1. TypeOK'
  BY TypeStep DEF IInv
<1>2. CASE UNCHANGED <<setStatus, run, sheet, logs>>
  BY <1>2 DEF IInv, RowsInv, OneOpenRun, RunsKeepTheirSet, NoEmptyRun,
              AnswersFitTheirRun, ScoreBounded, ScoreIsEvidenced, RunExists,
              LogIds, AnswersTo, RightAnswers
<1> QED BY <1>1, <1>2, StepEffects, CreatesKeeps, RecordsKeeps, ClosesKeeps,
           DropsKeeps, RetiresKeeps DEF IInv

-----------------------------------------------------------------------------
(* What the requests remember.                                             *)

LEMMA GotoOne ==
    ASSUME TypeOK, NEW p \in Procs, NEW next, Goto(p, next)
    PROVE  /\ req'[p] = next
           /\ \A q \in Procs : q # p => req'[q] = req[q]
  BY DEF TypeOK, Goto

(* A run that was once created stays known, and its questions stay as they *)
(* are while it exists.                                                    *)
LEMMA RunsStayKnown ==
    ASSUME IInv, [Next]_vars, NEW r \in Runs, run[r].status # "none"
    PROVE  /\ run'[r].status # "none"
           /\ RunExists(r)' => RunExists(r) /\ sheet'[r] = sheet[r]
<1> USE DEF IInv
<1>1. CASE UNCHANGED <<setStatus, run, sheet, logs>>
  BY <1>1 DEF RunExists
<1>2. ASSUME NEW p \in Procs, NEW x \in Runs, Creates(p, x)
      PROVE  run'[r] = run[r] /\ sheet'[r] = sheet[r]
  BY <1>2 DEF Creates, TypeOK
<1>3. ASSUME NEW p \in Procs, Records(p)
      PROVE  run'[r] = run[r] /\ sheet'[r] = sheet[r]
  BY <1>3 DEF Records
<1>4. ASSUME NEW x \in Runs, Closes(x)
      PROVE  /\ run'[r].status # "none"
             /\ RunExists(r)' => RunExists(r) /\ sheet'[r] = sheet[r]
  BY <1>4 DEF Closes, TypeOK, RunExists
<1>5. ASSUME NEW x \in Runs, Drops(x)
      PROVE  /\ run'[r].status # "none"
             /\ RunExists(r)' => RunExists(r) /\ sheet'[r] = sheet[r]
  BY <1>5 DEF Drops, TypeOK, RunExists, Absent
<1>6. ASSUME NEW s, NEW status, Retires(s, status)
      PROVE  run'[r] = run[r] /\ sheet'[r] = sheet[r]
  BY <1>6 DEF Retires
<1> QED BY <1>1, <1>2, <1>3, <1>4, <1>5, <1>6, StepEffects DEF RunExists

(* One request's part of RequestsFit.                                      *)
Fits(q) ==
    /\ q.pc \in {"backs", "pool", "widen"} => Drawn(q.draw) # {}
    /\ q.pc = "create" => AskedIn(q.sheet) # {}
    /\ q.pc \in {"question", "insert", "answered"} => run[q.run].status # "none"
    /\ q.pc = "insert" /\ RunExists(q.run) =>
          /\ q.card \in AskedIn(sheet[q.run])
          /\ q.format = IF IsChoice(sheet[q.run][q.card]) THEN "choice"
                        ELSE "recall"

LEMMA StillFits ==
    ASSUME IInv, [Next]_vars, NEW q \in Request, Fits(q)
    PROVE  Fits(q)'
<1>1. q.pc \in {"question", "insert", "answered"} => q.run \in Runs
  BY RequestFields
<1>2. q.pc \in {"question", "insert", "answered"} => run'[q.run].status # "none"
  BY <1>1, RunsStayKnown DEF Fits
<1>3. q.pc = "insert" /\ RunExists(q.run)' =>
          /\ q.card \in AskedIn(sheet'[q.run])
          /\ q.format = IF IsChoice(sheet'[q.run][q.card]) THEN "choice"
                        ELSE "recall"
  BY <1>1, RunsStayKnown DEF Fits
<1> QED BY <1>2, <1>3 DEF Fits, Drawn, AskedIn, IsChoice

(* Places where a request remembers nothing that could stop fitting.       *)
Unburdened == {"idle", "readOpen", "draw", "detail", "finish", "started",
               "ended", "refused"}

LEMMA UnburdenedFits ==
    ASSUME NEW q, q.pc \in Unburdened
    PROVE  Fits(q)
  BY DEF Unburdened, Fits

LEMMA RecallSheetAsks ==
    ASSUME NEW draw \in Draw, ~ DrewNothing(draw)
    PROVE  AskedIn(RecallSheet(draw)) # {}
<1>1. PICK c \in Cards : draw[c] > 0
  BY DEF DrewNothing, Drawn
<1>2. RecallSheet(draw)[c].position = draw[c]
  BY <1>1 DEF RecallSheet, Recall, Draw
<1> QED BY <1>1, <1>2 DEF AskedIn

LEMMA ChoiceSheetAsks ==
    ASSUME NEW draw \in Draw, Drawn(draw) # {}, NEW backs, NEW pool,
           NEW sh \in ChoiceSheets(draw, backs, pool)
    PROVE  AskedIn(sh) # {}
<1>1. PICK c \in Cards : draw[c] > 0
  BY DEF Drawn
<1>2. sh[c] \in QuestionRows(draw[c], backs[c], pool)
  BY DEF ChoiceSheets
<1>3. sh[c].position = draw[c]
  BY <1>1, <1>2 DEF QuestionRows, Recall, Draw
<1> QED BY <1>1, <1>3 DEF AskedIn

LEMMA StartFits ==
    ASSUME IInv, NEW p \in Procs, Start(p)
    PROVE  Fits(req[p])' /\ \A q \in Procs : q # p => req'[q] = req[q]
<1> USE DEF IInv
<1>1. ASSUME NEW next, Goto(p, next), next.pc \in Unburdened
      PROVE  Fits(req[p])' /\ \A q \in Procs : q # p => req'[q] = req[q]
  BY <1>1, GotoOne, UnburdenedFits DEF Unburdened, Fits
<1>2. ASSUME NEW op, NEW code, NEW id, Refuse(p, op, code, id)
      PROVE  Fits(req[p])' /\ \A q \in Procs : q # p => req'[q] = req[q]
  BY <1>1, <1>2 DEF Refuse, Unburdened
<1>3. CASE \E s \in Sets : StartReadSet(p, s)
  BY <1>1, <1>2, <1>3 DEF StartReadSet, Unburdened
<1>4. CASE StartReadOpen(p)
  BY <1>1, <1>4 DEF StartReadOpen, Unburdened
<1>5. CASE StartDraw(p)
  <2> DEFINE s == req[p].set
  <2>1. s \in Sets
    BY <1>5, RequestFields DEF StartDraw, TypeOK
  <2>2. PICK draw \in Draws(s) :
          \/ Refuse(p, "start", 400, s)
          \/ /\ ~ DrewNothing(draw)
             /\ Goto(p, [pc |-> "create", set |-> s,
                         sheet |-> RecallSheet(draw)])
          \/ /\ ~ DrewNothing(draw)
             /\ Goto(p, [pc |-> "backs", set |-> s, draw |-> draw])
    BY <1>5 DEF StartDraw
  <2>3. draw \in Draw
    BY <2>1, DrawType DEF TypeOK
  <2>4. CASE /\ ~ DrewNothing(draw)
             /\ Goto(p, [pc |-> "create", set |-> s, sheet |-> RecallSheet(draw)])
    <3>1. AskedIn(RecallSheet(draw)) # {}
      BY <2>3, <2>4, RecallSheetAsks
    <3> QED BY <2>4, <3>1, GotoOne DEF Fits, AskedIn
  <2>5. CASE /\ ~ DrewNothing(draw)
             /\ Goto(p, [pc |-> "backs", set |-> s, draw |-> draw])
    BY <2>5, GotoOne DEF Fits, Drawn, DrewNothing
  <2> QED BY <1>2, <2>2, <2>4, <2>5
<1>6. CASE StartBacks(p)
  <2>1. Drawn(req[p].draw) # {}
    BY <1>6 DEF StartBacks, RequestsFit
  <2> QED BY <1>6, <2>1, GotoOne DEF StartBacks, Fits, Drawn
<1>7. ASSUME NEW pool, TakePool(p, pool), req[p].pc \in {"pool", "widen"}
      PROVE  Fits(req[p])' /\ \A q \in Procs : q # p => req'[q] = req[q]
  <2>1. Drawn(req[p].draw) # {} /\ req[p].draw \in Draw
    BY <1>7, RequestFields DEF RequestsFit, TypeOK
  <2>2. PICK sh \in ChoiceSheets(req[p].draw, req[p].backs, pool) :
          Goto(p, [pc |-> "create", set |-> req[p].set, sheet |-> sh])
    BY <1>7 DEF TakePool
  <2>3. AskedIn(sh) # {}
    BY <2>1, ChoiceSheetAsks
  <2> QED BY <2>2, <2>3, GotoOne DEF Fits, AskedIn
<1>8. CASE StartPool(p)
  <2>1. CASE TakePool(p, DistractorPool(Config[req[p].set].filter))
    BY <1>7, <1>8, <2>1 DEF StartPool
  <2>2. CASE Goto(p, [req[p] EXCEPT !.pc = "widen"])
    <3>1. Drawn(req[p].draw) # {}
      BY <1>8 DEF StartPool, RequestsFit
    <3>2. req[p] = [pc |-> req[p].pc, set |-> req[p].set, draw |-> req[p].draw,
                    backs |-> req[p].backs]
      BY <1>8, RequestFields DEF StartPool, TypeOK
    <3>3. /\ [req[p] EXCEPT !.pc = "widen"].pc = "widen"
          /\ [req[p] EXCEPT !.pc = "widen"].draw = req[p].draw
      BY <3>2
    <3> QED BY <2>2, <3>1, <3>3, GotoOne DEF Fits, Drawn
  <2> QED BY <1>8, <2>1, <2>2 DEF StartPool
<1>9. CASE StartWiden(p)
  BY <1>7, <1>9 DEF StartWiden
<1>10. CASE StartCreate(p)
  BY <1>1, <1>2, <1>10 DEF StartCreate, Unburdened
<1>11. CASE StartDetail(p)
  BY <1>1, <1>11 DEF StartDetail, Unburdened
<1> QED BY <1>3, <1>4, <1>5, <1>6, <1>8, <1>9, <1>10, <1>11 DEF Start

LEMMA AnswerFits ==
    ASSUME IInv, NEW p \in Procs, Answer(p)
    PROVE  Fits(req[p])' /\ \A q \in Procs : q # p => req'[q] = req[q]
<1> USE DEF IInv
<1>1. ASSUME NEW op, NEW code, NEW id, Refuse(p, op, code, id)
      PROVE  Fits(req[p])' /\ \A q \in Procs : q # p => req'[q] = req[q]
  BY <1>1, GotoOne DEF Refuse, Fits
<1>2. ASSUME NEW r \in Runs, NEW c \in Cards, AnswerReadRun(p, r, c)
      PROVE  Fits(req[p])' /\ \A q \in Procs : q # p => req'[q] = req[q]
  <2>1. CASE run[r].status = "open"
    <3>1. Goto(p, [pc |-> "question", run |-> r, card |-> c]) /\ run' = run
      BY <1>2, <2>1 DEF AnswerReadRun
    <3> QED BY <2>1, <3>1, GotoOne DEF Fits
  <2>2. CASE run[r].status # "open"
    BY <1>1, <1>2, <2>2 DEF AnswerReadRun
  <2> QED BY <2>1, <2>2
<1>3. ASSUME NEW rating, NEW choice, AnswerReadQuestion(p, rating, choice)
      PROVE  Fits(req[p])' /\ \A q \in Procs : q # p => req'[q] = req[q]
  <2> DEFINE r == req[p].run
             c == req[p].card
             To(graded) == [pc |-> "insert", run |-> r, card |-> c,
                            rating |-> graded,
                            format |-> AnsweredFormat(r, sheet[r][c])]
  <2>1. /\ run[r].status # "none"
        /\ run' = run /\ sheet' = sheet
    BY <1>3 DEF AnswerReadQuestion, RequestsFit
  <2>2. \/ \E code \in {400, 404} : Refuse(p, "answer", code, r)
        \/ /\ c \in AskedIn(sheet[r])
           /\ \E graded : Goto(p, To(graded))
    BY <1>3 DEF AnswerReadQuestion
  <2>3. CASE \E code \in {400, 404} : Refuse(p, "answer", code, r)
    <3>1. PICK code \in {400, 404} : Refuse(p, "answer", code, r)
      BY <2>3
    <3> QED BY <1>1, <3>1
  <2>4. CASE c \in AskedIn(sheet[r]) /\ \E graded : Goto(p, To(graded))
    <3>1. PICK graded : Goto(p, To(graded))
      BY <2>4
    <3>2. /\ req'[p] = To(graded)
          /\ \A q \in Procs : q # p => req'[q] = req[q]
      BY <3>1, GotoOne
    <3>3. /\ req'[p].pc = "insert" /\ req'[p].run = r /\ req'[p].card = c
          /\ req'[p].format = AnsweredFormat(r, sheet[r][c])
      BY <3>2
    <3>4. c \in AskedIn(sheet'[r])
      BY <2>1, <2>4
    <3>5. req'[p].format = IF IsChoice(sheet'[r][c]) THEN "choice" ELSE "recall"
      BY <2>1, <3>3 DEF AnsweredFormat
    <3> QED BY <2>1, <3>2, <3>3, <3>4, <3>5 DEF Fits
  <2> QED BY <2>2, <2>3, <2>4
<1>4. CASE AnswerInsert(p)
  <2>1. run' = run /\ run[req[p].run].status # "none"
    BY <1>4 DEF AnswerInsert, RequestsFit
  <2>2. \/ Refuse(p, "answer", 500, req[p].run)
        \/ Goto(p, [pc |-> "answered", run |-> req[p].run, card |-> req[p].card,
                    rating |-> req[p].rating])
    BY <1>4 DEF AnswerInsert
  <2> QED BY <1>1, <2>1, <2>2, GotoOne DEF Fits
<1> QED BY <1>2, <1>3, <1>4 DEF Answer, Known

LEMMA RestFits ==
    ASSUME IInv, NEW p \in Procs, Finish(p) \/ Discard(p) \/ Abort(p)
    PROVE  Fits(req[p])' /\ \A q \in Procs : q # p => req'[q] = req[q]
<1> USE DEF IInv
<1>1. ASSUME NEW next, Goto(p, next), next.pc \in Unburdened
      PROVE  Fits(req[p])' /\ \A q \in Procs : q # p => req'[q] = req[q]
  BY <1>1, GotoOne DEF Unburdened, Fits
<1>2. ASSUME NEW r \in Runs, FinishReadRun(p, r)
      PROVE  Fits(req[p])' /\ \A q \in Procs : q # p => req'[q] = req[q]
  BY <1>1, <1>2 DEF FinishReadRun, Refuse, Unburdened
<1>3. CASE FinishUpdate(p)
  BY <1>1, <1>3 DEF FinishUpdate, Unburdened
<1>4. ASSUME NEW r \in Runs, DiscardRun(p, r)
      PROVE  Fits(req[p])' /\ \A q \in Procs : q # p => req'[q] = req[q]
  BY <1>1, <1>4 DEF DiscardRun, Refuse, Unburdened
<1>5. CASE Abort(p)
  BY <1>1, <1>5 DEF Abort, Unburdened
<1> QED BY <1>2, <1>3, <1>4, <1>5 DEF Finish, Discard, Known

LEMMA RequestsFitStep ==
    ASSUME IInv, [Next]_vars
    PROVE  RequestsFit'
<1>1. \A q \in Procs : req[q] \in Request /\ Fits(req[q])
  BY DEF IInv, TypeOK, RequestsFit, Fits
<1>2. SUFFICES ASSUME NEW q \in Procs
               PROVE  Fits(req[q])'
  BY DEF RequestsFit, Fits
<1>3. ASSUME req'[q] = req[q]
      PROVE  Fits(req[q])'
  <2>1. PICK before : before = req[q]
    OBVIOUS
  <2>2. Fits(before)'
    BY <1>1, <2>1, StillFits
  <2>3. req'[q] = before
    BY <1>3, <2>1
  <2> QED BY <2>2, <2>3 DEF Fits
<1>4. ASSUME NEW p \in Procs,
             Start(p) \/ Answer(p) \/ Finish(p) \/ Discard(p) \/ Abort(p)
      PROVE  Fits(req[q])'
  BY <1>3, <1>4, StartFits, AnswerFits, RestFits
<1>5. CASE Elsewhere
  <2>1. req' = req
    BY <1>5 DEF Elsewhere, ArchiveSet, UnarchiveSet, DeleteSet, DeleteCard,
                RestoreCard, EditBack
  <2> QED BY <1>3, <2>1
<1>6. CASE UNCHANGED vars
  BY <1>3, <1>6 DEF vars
<1> QED BY <1>4, <1>5, <1>6 DEF Next

-----------------------------------------------------------------------------
(* An acknowledged answer stays in the log.                                *)

Kept(r, c) ==
    \E i \in LogIds :
        /\ logs[i].card = c
        /\ logs[i].run = IF RunExists(r) THEN r ELSE Null

LEMMA StillKept ==
    ASSUME IInv, [Next]_vars, NEW r \in Runs, NEW c \in Cards,
           run[r].status # "none", Kept(r, c)
    PROVE  Kept(r, c)'
<1> USE DEF IInv
<1>1. PICK i \in LogIds : /\ logs[i].card = c
                          /\ logs[i].run = IF RunExists(r) THEN r ELSE Null
  BY DEF Kept
<1>2. logs[i] \in LogRow /\ r # Null
  BY NullAssumption DEF TypeOK, LogIds
<1>3. CASE UNCHANGED <<setStatus, run, sheet, logs>>
  BY <1>1, <1>3 DEF Kept, RunExists, LogIds
<1>4. ASSUME NEW p \in Procs, NEW x \in Runs, Creates(p, x)
      PROVE  Kept(r, c)'
  <2>1. run'[r] = run[r] /\ logs' = logs
    BY <1>4 DEF Creates, TypeOK
  <2> QED BY <1>1, <2>1 DEF Kept, RunExists, LogIds
<1>5. ASSUME NEW p \in Procs, Records(p)
      PROVE  Kept(r, c)'
  <2> DEFINE row == [run |-> req[p].run, card |-> req[p].card,
                     rating |-> req[p].rating, format |-> req[p].format]
  <2>1. row \in LogRow
    BY <1>5, RequestFields DEF Records, TypeOK, LogRow
  <2>2. i \in LogIds' /\ logs'[i] = logs[i] /\ run' = run
    BY <1>1, <1>5, <2>1 DEF Records, TypeOK, LogIds
  <2> QED BY <1>1, <2>2 DEF Kept, RunExists
<1>6. ASSUME NEW x \in Runs, Closes(x)
      PROVE  Kept(r, c)'
  <2>1. RunExists(r)' = RunExists(r) /\ logs' = logs
    BY <1>6 DEF Closes, TypeOK, RunExists
  <2> QED BY <1>1, <2>1 DEF Kept, LogIds
<1>7. ASSUME NEW x \in Runs, Drops(x)
      PROVE  Kept(r, c)'
  <2>1. /\ i \in LogIds'
        /\ logs'[i] = IF logs[i].run = x THEN [logs[i] EXCEPT !.run = Null]
                      ELSE logs[i]
    BY <1>1, <1>7 DEF Drops, Detached, LogIds
  <2>2. logs'[i].card = c
    BY <1>1, <1>2, <2>1 DEF LogRow
  <2>3. CASE x = r
    BY <1>1, <1>2, <1>7, <2>1, <2>2, <2>3
    DEF Drops, Kept, RunExists, LogRow, TypeOK, Absent
  <2>4. CASE x # r
    <3>1. run'[r] = run[r] /\ x # Null
      BY <1>7, <2>4, NullAssumption DEF Drops, TypeOK
    <3>2. logs'[i] = logs[i]
      BY <1>1, <2>1, <2>4, <3>1
    <3> QED BY <1>1, <2>1, <3>1, <3>2 DEF Kept, RunExists
  <2> QED BY <2>3, <2>4
<1>8. ASSUME NEW s, NEW status, Retires(s, status)
      PROVE  Kept(r, c)'
  BY <1>1, <1>8 DEF Retires, Kept, RunExists, LogIds
<1> QED BY <1>3, <1>4, <1>5, <1>6, <1>7, <1>8, StepEffects

(* The step that acknowledges an answer leaves it in the log.              *)
LEMMA InsertKeeps ==
    ASSUME IInv, NEW p \in Procs, AnswerInsert(p), req'[p].pc = "answered"
    PROVE  /\ req'[p].run = req[p].run /\ req'[p].card = req[p].card
           /\ Kept(req[p].run, req[p].card)'
<1> USE DEF IInv
<1> DEFINE r == req[p].run
           c == req[p].card
           row == [run |-> r, card |-> c, rating |-> req[p].rating,
                   format |-> req[p].format]
<1>1. row \in LogRow
  BY RequestFields DEF AnswerInsert, TypeOK, LogRow
<1>2. /\ RunExists(r) /\ run' = run
      /\ logs' = IF Conflicts(r, c) THEN logs ELSE Append(logs, row)
      /\ Goto(p, [pc |-> "answered", run |-> r, card |-> c,
                  rating |-> req[p].rating])
  BY GotoOne DEF AnswerInsert, Refuse
<1>3. req'[p].run = r /\ req'[p].card = c
  BY <1>2, GotoOne
<1>4. \E i \in LogIds' : logs'[i].run = r /\ logs'[i].card = c
  <2>1. CASE Conflicts(r, c)
    BY <1>2, <2>1 DEF Conflicts, AnswersTo, LogIds
  <2>2. CASE ~ Conflicts(r, c)
    <3>1. logs' = Append(logs, row) /\ logs \in Seq(LogRow)
      BY <1>2, <2>2 DEF TypeOK
    <3>2. Len(logs) + 1 \in LogIds' /\ logs'[Len(logs) + 1] = row
      BY <1>1, <3>1 DEF LogIds
    <3> QED BY <3>2
  <2> QED BY <2>1, <2>2
<1> QED BY <1>2, <1>3, <1>4 DEF Kept, RunExists

LEMMA AcknowledgedStep ==
    ASSUME IInv, [Next]_vars
    PROVE  AcknowledgedAnswersKept'
<1> USE DEF IInv
<1>1. SUFFICES ASSUME NEW q \in Procs, req'[q].pc = "answered"
               PROVE  Kept(req[q].run, req[q].card)'
  BY DEF AcknowledgedAnswersKept, Kept
<1>2. ASSUME req'[q] = req[q]
      PROVE  Kept(req[q].run, req[q].card)'
  <2>1. PICK r, c : r = req[q].run /\ c = req[q].card
    OBVIOUS
  <2>2. r \in Runs /\ c \in Cards /\ run[r].status # "none" /\ Kept(r, c)
    BY <1>1, <1>2, <2>1, RequestFields
    DEF TypeOK, RequestsFit, AcknowledgedAnswersKept, Kept
  <2>3. Kept(r, c)'
    BY <2>2, StillKept
  <2> QED BY <1>2, <2>1, <2>3 DEF Kept
<1>3. ASSUME NEW p \in Procs, AnswerInsert(p)
      PROVE  Kept(req[q].run, req[q].card)'
  <2>1. CASE q = p
    BY <1>1, <1>3, <2>1, InsertKeeps DEF Kept
  <2>2. CASE q # p
    BY <1>2, <1>3, <2>2, GotoOne DEF AnswerInsert, Refuse
  <2> QED BY <2>1, <2>2
<1>4. ASSUME req'[q] # req[q], [Next]_vars
      PROVE  AnswerInsert(q)
  <2>1. ASSUME NEW p \in Procs, NEW next, Goto(p, next), next.pc # "answered"
        PROVE  FALSE
    BY <1>1, <1>4, <2>1, GotoOne
  <2>2. ASSUME NEW p \in Procs, Start(p)
        PROVE  FALSE
    <3>1. CASE StartPool(p)
      <4>1. req[p] = [pc |-> req[p].pc, set |-> req[p].set,
                      draw |-> req[p].draw, backs |-> req[p].backs]
        BY <3>1, RequestFields DEF StartPool, TypeOK
      <4>2. [req[p] EXCEPT !.pc = "widen"].pc = "widen"
        BY <4>1
      <4> QED BY <2>1, <3>1, <4>2 DEF StartPool, TakePool
    <3>2. CASE ~ StartPool(p)
      BY <2>1, <2>2, <3>2
      DEF Start, StartReadSet, StartReadOpen, StartDraw, StartBacks,
          StartWiden, StartCreate, StartDetail, TakePool, Refuse
    <3> QED BY <3>1, <3>2
  <2>3. ASSUME NEW p \in Procs, Answer(p)
        PROVE  AnswerInsert(q)
    <3>1. CASE AnswerInsert(p)
      BY <1>4, <3>1, GotoOne DEF AnswerInsert, Refuse
    <3>2. CASE ~ AnswerInsert(p)
      BY <2>1, <2>3, <3>2 DEF Answer, AnswerReadRun, AnswerReadQuestion, Refuse
    <3> QED BY <3>1, <3>2
  <2>4. ASSUME NEW p \in Procs, Finish(p) \/ Discard(p) \/ Abort(p)
        PROVE  FALSE
    BY <2>1, <2>4 DEF Finish, FinishReadRun, FinishUpdate, Discard, DiscardRun,
                      Abort, Refuse
  <2>5. ~ Elsewhere /\ ~ UNCHANGED vars
    BY <1>4 DEF Elsewhere, ArchiveSet, UnarchiveSet, DeleteSet, DeleteCard,
                RestoreCard, EditBack, vars
  <2> QED BY <1>4, <2>2, <2>3, <2>4, <2>5 DEF Next
<1> QED BY <1>2, <1>3, <1>4

-----------------------------------------------------------------------------
(* The questions of a run, from the draw to the row: numbered without a    *)
(* gap, and with one right option each.                                    *)

Numbered(draw) ==
    {draw[c] : c \in Drawn(draw)} = 1..Cardinality(Drawn(draw))

OneRightOption(question) ==
    IsChoice(question) =>
        \A i \in 1..ChoiceCount :
            i # question.correct =>
            question.options[i] # question.options[question.correct]

Sound(sh) ==
    /\ {sh[c].position : c \in AskedIn(sh)} = 1..Cardinality(AskedIn(sh))
    /\ \A c \in AskedIn(sh) : OneRightOption(sh[c])

(* What a start holds in memory is sound before its rows are.              *)
HoldsSound(q) ==
    /\ q.pc \in {"backs", "pool", "widen"} => Numbered(q.draw)
    /\ q.pc = "create" => Sound(q.sheet)

SheetInv ==
    /\ \A r \in Runs : Sound(sheet[r])
    /\ \A p \in Procs : HoldsSound(req[p])

(* A listing of n cards gives out every position from 1 to n.              *)
LEMMA OrdersNumbered ==
    ASSUME NEW S \in SUBSET Cards, NEW d \in Orders(S)
    PROVE  Numbered(d)
<1> DEFINE n == Cardinality(S)
           f == [c \in S |-> d[c]]
<1>1. IsFiniteSet(S) /\ n \in Nat
  BY CardCount
<1>2. Drawn(d) = S
  BY DEF Orders, Drawn
<1>3. \A c \in S : d[c] \in 1..n
  BY <1>1 DEF Orders
<1>4. \A c, e \in S : d[c] = d[e] => c = e
  BY DEF Orders
<1>5. f \in Injection(S, 1..n)
  BY <1>3, <1>4 DEF Injection, IsInjective
<1>6. IsFiniteSet(1..n) /\ Cardinality(1..n) = n
  <2>1. n \in Int /\ ~ (1 > n) => n - 1 + 1 = n
    BY <1>1
  <2> HIDE DEF n
  <2> QED BY <1>1, <2>1, FS_Interval
<1>7. f \in Surjection(S, 1..n)
  BY <1>5, <1>6, FS_Injection
<1>8. \A k \in 1..n : \E c \in S : d[c] = k
  BY <1>7 DEF Surjection
<1> QED BY <1>2, <1>3, <1>8 DEF Numbered

LEMMA DrawNumbered ==
    ASSUME NEW s \in Sets, live \subseteq Cards, NEW d \in Draws(s)
    PROVE  Numbered(d)
<1>1. PICK S \in SUBSET Cards : d \in Orders(S)
  BY DEF Draws, PinnedDraws, RandomDraws
<1> QED BY <1>1, OrdersNumbered

(* Questions that take their positions from a numbered draw are numbered.  *)
LEMMA SoundFromDraw ==
    ASSUME NEW draw \in Draw, Numbered(draw), NEW sh,
           \A c \in Cards : sh[c].position = draw[c] /\ OneRightOption(sh[c])
    PROVE  Sound(sh)
<1>1. AskedIn(sh) = Drawn(draw)
  BY DEF AskedIn, Drawn
<1>2. {sh[c].position : c \in AskedIn(sh)} = {draw[c] : c \in Drawn(draw)}
  BY <1>1 DEF Drawn
<1>3. \A c \in AskedIn(sh) : OneRightOption(sh[c])
  BY DEF AskedIn
<1> QED BY <1>1, <1>2, <1>3 DEF Sound, Numbered

LEMMA RecallSheetSound ==
    ASSUME NEW draw \in Draw, Numbered(draw)
    PROVE  Sound(RecallSheet(draw))
<1>1. ASSUME NEW c \in Cards
      PROVE  /\ RecallSheet(draw)[c].position = draw[c]
             /\ RecallSheet(draw)[c].correct = 0
  BY DEF RecallSheet, NotAsked, Recall, Draw
<1>2. \A c \in Cards : OneRightOption(RecallSheet(draw)[c])
  BY <1>1 DEF OneRightOption, IsChoice
<1> QED BY <1>1, <1>2, SoundFromDraw

(* makeChoice puts the answer among distinct options and finds it there.   *)
LEMMA ChoiceRowSound ==
    ASSUME NEW n \in Nat, NEW correct, NEW pool,
           NEW row \in QuestionRows(n, correct, pool)
    PROVE  row.position = n /\ OneRightOption(row)
<1> DEFINE lists == IF correct = Null THEN {} ELSE ChoiceOptions(correct, pool)
<1>1. CASE row = NotAsked /\ n = 0
  BY <1>1 DEF NotAsked, OneRightOption, IsChoice
<1>2. CASE row = Recall(n)
  BY <1>2 DEF Recall, OneRightOption, IsChoice
<1>3. ASSUME NEW o \in lists,
             row = [position |-> n, options |-> o,
                    correct |-> CHOOSE i \in 1..ChoiceCount : o[i] = correct]
      PROVE  row.position = n /\ OneRightOption(row)
  <2>1. o \in Injection(1..ChoiceCount, pool \cup {correct}) /\ correct \in Range(o)
    BY <1>3 DEF ChoiceOptions
  <2>2. \A i, j \in 1..ChoiceCount : o[i] = o[j] => i = j
    BY <2>1 DEF Injection, IsInjective
  <2>3. \E i \in 1..ChoiceCount : o[i] = correct
    BY <2>1 DEF Range, Injection
  <2>4. row.correct \in 1..ChoiceCount /\ row.options = o /\ row.position = n
    BY <1>3, <2>3
  <2> QED BY <2>2, <2>4 DEF OneRightOption
<1> QED BY <1>1, <1>2, <1>3 DEF QuestionRows

LEMMA ChoiceSheetSound ==
    ASSUME NEW draw \in Draw, Numbered(draw), NEW backs, NEW pool,
           NEW sh \in ChoiceSheets(draw, backs, pool)
    PROVE  Sound(sh)
<1>1. ASSUME NEW c \in Cards
      PROVE  sh[c].position = draw[c] /\ OneRightOption(sh[c])
  <2>1. sh[c] \in QuestionRows(draw[c], backs[c], pool) /\ draw[c] \in Nat
    BY DEF ChoiceSheets, Draw
  <2> QED BY <2>1, ChoiceRowSound
<1> QED BY <1>1, SoundFromDraw

(* A statement that leaves its request no questions.                       *)
LEMMA HoldsNothing ==
    ASSUME NEW q, q.pc \notin {"backs", "pool", "widen", "create"}
    PROVE  HoldsSound(q)
  BY DEF HoldsSound

LEMMA StartSound ==
    ASSUME TypeOK, SheetInv, NEW p \in Procs, Start(p)
    PROVE  /\ HoldsSound(req'[p])
           /\ \A q \in Procs : q # p => req'[q] = req[q]
<1>1. ASSUME NEW next, Goto(p, next), HoldsSound(next)
      PROVE  /\ HoldsSound(req'[p])
           /\ \A q \in Procs : q # p => req'[q] = req[q]
  BY <1>1, GotoOne
<1>2. ASSUME NEW next, Goto(p, next),
             next.pc \notin {"backs", "pool", "widen", "create"}
      PROVE  /\ HoldsSound(req'[p])
           /\ \A q \in Procs : q # p => req'[q] = req[q]
  BY <1>1, <1>2, HoldsNothing
<1>3. CASE \E s \in Sets : StartReadSet(p, s)
  BY <1>2, <1>3 DEF StartReadSet, Refuse
<1>4. CASE StartReadOpen(p) \/ StartCreate(p) \/ StartDetail(p)
  BY <1>2, <1>4 DEF StartReadOpen, StartCreate, StartDetail, Refuse
<1>5. CASE StartDraw(p)
  <2> DEFINE s == req[p].set
  <2>1. s \in Sets
    BY <1>5, RequestFields DEF StartDraw, TypeOK
  <2>2. PICK draw \in Draws(s) :
          \/ Refuse(p, "start", 400, s)
          \/ Goto(p, [pc |-> "create", set |-> s, sheet |-> RecallSheet(draw)])
          \/ Goto(p, [pc |-> "backs", set |-> s, draw |-> draw])
    BY <1>5 DEF StartDraw
  <2>3. draw \in Draw /\ Numbered(draw)
    BY <2>1, DrawType, DrawNumbered DEF TypeOK
  <2>4. HoldsSound([pc |-> "backs", set |-> s, draw |-> draw])
    BY <2>3 DEF HoldsSound
  <2>5. HoldsSound([pc |-> "create", set |-> s, sheet |-> RecallSheet(draw)])
    BY <2>3, RecallSheetSound DEF HoldsSound
  <2> QED BY <1>1, <1>2, <2>2, <2>4, <2>5 DEF Refuse
<1>6. CASE StartBacks(p)
  <2> DEFINE next == [pc |-> "pool", set |-> req[p].set, draw |-> req[p].draw,
                      backs |-> [c \in Cards |->
                          IF c \in live \cap Drawn(req[p].draw)
                          THEN back[c] ELSE Null]]
  <2>1. Numbered(req[p].draw) /\ Goto(p, next)
    BY <1>6 DEF StartBacks, SheetInv, HoldsSound
  <2>2. HoldsSound(next)
    BY <2>1 DEF HoldsSound
  <2> HIDE DEF next
  <2> QED BY <1>1, <2>1, <2>2
<1>7. ASSUME NEW pool, TakePool(p, pool), req[p].pc \in {"pool", "widen"}
      PROVE  /\ HoldsSound(req'[p])
           /\ \A q \in Procs : q # p => req'[q] = req[q]
  <2>1. Numbered(req[p].draw) /\ req[p].draw \in Draw
    BY <1>7, RequestFields DEF SheetInv, HoldsSound, TypeOK
  <2>2. PICK sh \in ChoiceSheets(req[p].draw, req[p].backs, pool) :
          Goto(p, [pc |-> "create", set |-> req[p].set, sheet |-> sh])
    BY <1>7 DEF TakePool
  <2>3. HoldsSound([pc |-> "create", set |-> req[p].set, sheet |-> sh])
    BY <2>1, ChoiceSheetSound DEF HoldsSound
  <2> QED BY <1>1, <2>2, <2>3
<1>8. CASE StartPool(p)
  <2>1. CASE TakePool(p, DistractorPool(Config[req[p].set].filter))
    BY <1>7, <1>8, <2>1 DEF StartPool
  <2>2. CASE Goto(p, [req[p] EXCEPT !.pc = "widen"])
    <3>1. Numbered(req[p].draw)
      BY <1>8 DEF StartPool, SheetInv, HoldsSound
    <3>2. req[p] = [pc |-> req[p].pc, set |-> req[p].set, draw |-> req[p].draw,
                    backs |-> req[p].backs]
      BY <1>8, RequestFields DEF StartPool, TypeOK
    <3>3. /\ [req[p] EXCEPT !.pc = "widen"].pc = "widen"
          /\ [req[p] EXCEPT !.pc = "widen"].draw = req[p].draw
      BY <3>2
    <3>4. HoldsSound([req[p] EXCEPT !.pc = "widen"])
      BY <3>1, <3>3 DEF HoldsSound
    <3> QED BY <1>1, <2>2, <3>4
  <2> QED BY <1>8, <2>1, <2>2 DEF StartPool
<1>9. CASE StartWiden(p)
  BY <1>7, <1>9 DEF StartWiden
<1> QED BY <1>3, <1>4, <1>5, <1>6, <1>8, <1>9 DEF Start

(* The other requests hold no questions.                                   *)
LEMMA RestSound ==
    ASSUME TypeOK, NEW p \in Procs,
           Answer(p) \/ Finish(p) \/ Discard(p) \/ Abort(p)
    PROVE  /\ HoldsSound(req'[p])
           /\ \A q \in Procs : q # p => req'[q] = req[q]
<1>1. ASSUME NEW next, Goto(p, next),
             next.pc \notin {"backs", "pool", "widen", "create"}
      PROVE  /\ HoldsSound(req'[p])
             /\ \A q \in Procs : q # p => req'[q] = req[q]
  BY <1>1, GotoOne, HoldsNothing
<1>2. CASE Answer(p)
  BY <1>1, <1>2 DEF Answer, AnswerReadRun, AnswerReadQuestion, AnswerInsert, Refuse
<1>3. CASE Finish(p) \/ Discard(p) \/ Abort(p)
  BY <1>1, <1>3 DEF Finish, FinishReadRun, FinishUpdate, Discard, DiscardRun,
                    Abort, Refuse
<1> QED BY <1>2, <1>3

LEMMA SheetStep ==
    ASSUME TypeOK, SheetInv, [Next]_vars
    PROVE  SheetInv'
<1>1. ASSUME NEW r \in Runs
      PROVE  Sound(sheet[r])'
  <2>1. Sound(sheet[r])
    BY DEF SheetInv
  <2>2. Sound(NoQuestions)
    <3>1. AskedIn(NoQuestions) = {}
      BY DEF AskedIn, NoQuestions, NotAsked
    <3>2. Cardinality({}) = 0 /\ 1..0 = {}
      BY FS_EmptySet
    <3> QED BY <3>1, <3>2 DEF Sound
  <2>3. \/ sheet'[r] = sheet[r]
        \/ sheet'[r] = NoQuestions
        \/ \E p \in Procs : req[p].pc = "create" /\ sheet'[r] = req[p].sheet
    BY StepEffects DEF TypeOK, Creates, Records, Closes, Drops, Retires
  <2>4. Sound(sheet'[r])
    BY <2>1, <2>2, <2>3 DEF SheetInv, HoldsSound
  <2> QED BY <2>4 DEF Sound, AskedIn
<1>2. ASSUME NEW q \in Procs
      PROVE  HoldsSound(req[q])'
  <2>1. HoldsSound(req[q])
    BY DEF SheetInv
  <2>2. CASE \E p \in Procs : Start(p)
    BY <2>1, <2>2, StartSound DEF HoldsSound
  <2>3. CASE \E p \in Procs : Answer(p) \/ Finish(p) \/ Discard(p) \/ Abort(p)
    BY <2>1, <2>3, RestSound DEF HoldsSound
  <2>4. CASE Elsewhere \/ UNCHANGED vars
    <3>1. req' = req
      BY <2>4 DEF Elsewhere, ArchiveSet, UnarchiveSet, DeleteSet, DeleteCard,
                  RestoreCard, EditBack, vars
    <3> QED BY <2>1, <3>1
  <2> QED BY <2>2, <2>3, <2>4 DEF Next
<1> QED BY <1>1, <1>2 DEF SheetInv

LEMMA SheetInit == Init => SheetInv
<1> SUFFICES ASSUME Init PROVE SheetInv
  OBVIOUS
<1>1. AskedIn(NoQuestions) = {}
  BY DEF AskedIn, NoQuestions, NotAsked
<1>2. Cardinality({}) = 0 /\ 1..0 = {}
  BY FS_EmptySet
<1> QED BY <1>1, <1>2 DEF Init, SheetInv, Sound, HoldsSound

-----------------------------------------------------------------------------
LEMMA IInvInit == Init => IInv
<1> SUFFICES ASSUME Init PROVE IInv
  OBVIOUS
<1>1. TypeOK
  BY TypeInit
<1>2. \A r \in Runs : run[r].status = "none"
  BY DEF Init, Absent
<1>3. LogIds = {}
  BY DEF Init, LogIds
<1>4. \A p \in Procs : req[p].pc = "idle"
  BY DEF Init
<1>5. RowsInv
  BY <1>2, <1>3 DEF RowsInv, OneOpenRun, RunsKeepTheirSet, NoEmptyRun, RunExists,
                    AnswersFitTheirRun, ScoreBounded, ScoreIsEvidenced
<1>6. RequestsFit /\ AcknowledgedAnswersKept
  BY <1>4 DEF RequestsFit, AcknowledgedAnswersKept
<1> QED BY <1>1, <1>5, <1>6 DEF IInv

LEMMA IInvStep == IInv /\ [Next]_vars => IInv'
  BY TypeStep, RowsStep, RequestsFitStep, AcknowledgedStep DEF IInv

THEOREM IInvHolds == Spec => []IInv
  BY IInvInit, IInvStep, PTL DEF Spec

(* A set never has two unfinished runs, however many starts overlap.       *)
THEOREM OneOpenRunHolds == Spec => []OneOpenRun
<1>1. IInv => OneOpenRun
  BY DEF IInv, RowsInv
<1> QED BY <1>1, IInvHolds, PTL

(* A run's set cannot be deleted from under it.                            *)
THEOREM RunsKeepTheirSetHolds == Spec => []RunsKeepTheirSet
<1>1. IInv => RunsKeepTheirSet
  BY DEF IInv, RowsInv
<1> QED BY <1>1, IInvHolds, PTL

(* No interleaving leaves a run without questions.                         *)
THEOREM NoEmptyRunHolds == Spec => []NoEmptyRun
<1>1. IInv => NoEmptyRun
  BY DEF IInv, RowsInv
<1> QED BY <1>1, IInvHolds, PTL

(* An answer in a run answers a question of it, once, with its format.     *)
THEOREM AnswersFitTheirRunHolds == Spec => []AnswersFitTheirRun
<1>1. IInv => AnswersFitTheirRun
  BY DEF IInv, RowsInv
<1> QED BY <1>1, IInvHolds, PTL

(* The score never exceeds the questions asked, so the CHECK constraint on *)
(* review_runs never fails.                                                *)
THEOREM ScoreBoundedHolds == Spec => []ScoreBounded
<1>1. IInv => ScoreBounded
  BY DEF IInv, RowsInv
<1> QED BY <1>1, IInvHolds, PTL

(* The questions of a run are numbered without a gap, and no choice shows  *)
(* the right answer twice, whatever is drawn and whatever was edited or    *)
(* deleted between the statements of the start.                            *)
THEOREM SheetsAreSoundHolds == Spec => []SheetsAreSound
<1>1. TypeOK /\ SheetInv /\ [Next]_vars => SheetInv'
  BY SheetStep
<1>2. SheetInv => SheetsAreSound
  BY DEF SheetInv, SheetsAreSound, Sound, OneRightOption
<1> QED BY <1>1, <1>2, SheetInit, TypeCorrect, PTL DEF Spec

(* The score never exceeds the right answers in the log.                   *)
THEOREM ScoreIsEvidencedHolds == Spec => []ScoreIsEvidenced
<1>1. IInv => ScoreIsEvidenced
  BY DEF IInv, RowsInv
<1> QED BY <1>1, IInvHolds, PTL

(* An answer that was acknowledged stays in the log, with or without its   *)
(* run.                                                                    *)
THEOREM AcknowledgedAnswersKeptHolds == Spec => []AcknowledgedAnswersKept
<1>1. IInv => AcknowledgedAnswersKept
  BY DEF IInv
<1> QED BY <1>1, IInvHolds, PTL

(* The questions and options of a run never change while it exists.        *)
THEOREM SheetFrozenHolds == Spec => SheetFrozen
<1>1. IInv /\ [Next]_vars =>
        [\A r \in Runs : RunExists(r) /\ RunExists(r)'
            => sheet'[r] = sheet[r]]_vars
  BY RunsStayKnown DEF RunExists
<1> QED BY <1>1, IInvHolds, PTL DEF Spec, SheetFrozen

(* A finished run keeps its score until it is discarded.                   *)
THEOREM ScoreFrozenHolds == Spec => ScoreFrozen
<1>1. ASSUME IInv, [Next]_vars
      PROVE  \A r \in Runs : run[r].status = "finished" =>
                run'[r] \in {run[r], Absent("deleted")}
  BY <1>1, StepEffects
  DEF IInv, TypeOK, Creates, Records, Closes, Drops, Retires
<1>2. IInv /\ [Next]_vars =>
        [\A r \in Runs : run[r].status = "finished" =>
            run'[r] \in {run[r], Absent("deleted")}]_vars
  BY <1>1
<1> QED BY <1>2, IInvHolds, PTL DEF Spec, ScoreFrozen

(* No step removes or rewrites an answer; it only loses a discarded run.   *)
THEOREM EvidenceSurvivesHolds == Spec => EvidenceSurvives
<1> DEFINE Survives ==
       \A i \in LogIds :
          /\ i \in LogIds'
          /\ \/ logs'[i] = logs[i]
             \/ /\ logs'[i] = [logs[i] EXCEPT !.run = Null]
                /\ run'[logs[i].run].status = "deleted"
<1>1. ASSUME IInv, [Next]_vars
      PROVE  Survives
  <2> USE <1>1 DEF IInv
  <2>1. CASE logs' = logs
    BY <2>1 DEF LogIds
  <2>2. ASSUME NEW p \in Procs, Records(p)
        PROVE  Survives
    <3> DEFINE row == [run |-> req[p].run, card |-> req[p].card,
                       rating |-> req[p].rating, format |-> req[p].format]
    <3>1. row \in LogRow
      BY <2>2, RequestFields DEF Records, TypeOK, LogRow
    <3>2. logs' = Append(logs, row) /\ logs \in Seq(LogRow)
      BY <2>2 DEF Records, TypeOK
    <3> QED BY <3>1, <3>2 DEF LogIds
  <2>3. ASSUME NEW r \in Runs, Drops(r)
        PROVE  Survives
    <3>1. run'[r].status = "deleted"
      BY <2>3 DEF Drops, TypeOK, Absent
    <3> QED BY <2>3, <3>1 DEF Drops, Detached, LogIds
  <2> QED BY <2>1, <2>2, <2>3, StepEffects DEF Creates, Closes, Retires
<1>2. IInv /\ [Next]_vars => [Survives]_vars
  BY <1>1
<1> QED BY <1>2, IInvHolds, PTL DEF Spec, EvidenceSurvives
=============================================================================
