--------------------- MODULE ReviewRunsRefinementProofs ---------------------
(* Every step of ReviewRuns is a step of Sittings or changes nothing there,*)
(* for any number of requests, sets, runs and cards.                       *)
EXTENDS ReviewRunsRefinement, ReviewRunsProofs, SequenceTheorems

Entry == [card: Cards, rating: Ratings, format: Formats]

-----------------------------------------------------------------------------
(* How the mapping reads the rows.                                         *)

(* The log without its run ids is a sequence as long as the log.           *)
LEMMA EvidenceType ==
    ASSUME logs \in Seq(LogRow)
    PROVE  /\ Evidence \in Seq(Entry)
           /\ Len(Evidence) = Len(logs)
           /\ \A i \in 1..Len(logs) :
                 Evidence[i] = [card |-> logs[i].card, rating |-> logs[i].rating,
                                format |-> logs[i].format]
<1>1. LogIds = 1..Len(logs) /\ Len(logs) \in Nat
  BY DEF LogIds
<1>2. \A i \in LogIds : logs[i] \in LogRow
  BY DEF LogIds
<1>3. Evidence \in [1..Len(logs) -> Entry]
  BY <1>1, <1>2 DEF Evidence, LogRow, Entry
<1>4. Evidence \in Seq(Entry)
  BY <1>1, <1>3, SeqDef
<1> QED BY <1>1, <1>3, <1>4 DEF Evidence

(* A card is asked in a sitting exactly when it has a row in its run.      *)
LEMMA AskedIsAsked ==
    ASSUME NEW sh \in Sheet
    PROVE  Promised!Asked([c \in Cards |-> QuestionOf(sh[c])]) = AskedIn(sh)
<1>1. ASSUME NEW c \in Cards
      PROVE  QuestionOf(sh[c]).format # "none" <=> sh[c].position > 0
  <2>1. sh[c].position \in Nat
    BY DEF Sheet, Question
  <2> QED BY <2>1 DEF QuestionOf
<1> QED BY <1>1 DEF Promised!Asked, AskedIn

(* The score is counted over log ids in the code and over answers in the   *)
(* promise: one answer per question makes them the same number.            *)
LEMMA RightIsCounted ==
    ASSUME TypeOK, AnswersFitTheirRun, NEW r \in Runs
    PROVE  Cardinality(Promised!Right(r)) = CorrectCount(r)
<1> DEFINE ids == RightAnswers(r)
           right == Promised!Right(r)
           answer == [i \in ids |->
                        [card |-> logs[i].card, rating |-> logs[i].rating]]
<1>1. \A i \in ids : i \in LogIds /\ logs[i].run = r /\ logs[i].rating = "ingat"
  BY DEF RightAnswers
<1>2. right = {answer[i] : i \in ids}
  <2>1. Given[r] = GivenTo(r)
    BY DEF Given
  <2>2. ASSUME NEW a \in right
        PROVE  \E i \in ids : a = answer[i]
    <3>1. a \in GivenTo(r) /\ a.rating = "ingat"
      BY <2>1 DEF Promised!Right
    <3>2. PICK i \in LogIds : /\ logs[i].run = r
                             /\ a = [card |-> logs[i].card, rating |-> logs[i].rating]
      BY <3>1 DEF GivenTo
    <3>3. i \in ids
      BY <3>1, <3>2 DEF RightAnswers
    <3> QED BY <3>2, <3>3
  <2>3. ASSUME NEW i \in ids
        PROVE  answer[i] \in right
    BY <1>1, <2>1 DEF Promised!Right, GivenTo
  <2> QED BY <2>2, <2>3
<1>3. \A i, j \in ids : logs[i].card = logs[j].card => i = j
  BY <1>1, NullAssumption DEF AnswersFitTheirRun, AnswersTo
<1>4. answer \in Bijection(ids, right)
  <2>1. answer \in [ids -> right]
    BY <1>2
  <2>2. \A i, j \in ids : answer[i] = answer[j] => i = j
    BY <1>3
  <2>3. \A a \in right : \E i \in ids : answer[i] = a
    BY <1>2
  <2> QED BY <2>1, <2>2, <2>3 DEF Bijection, Injection, IsInjective, Surjection
<1>5. IsFiniteSet(ids)
  BY LogIdsFinite DEF RightAnswers
<1> QED BY <1>4, <1>5, FS_Bijection DEF ExistsBijection, CorrectCount

-----------------------------------------------------------------------------
(* Each way of changing the rows is a promised step.                       *)

LEMMA CreatesBegins ==
    ASSUME TypeOK, TypeOK', RequestsFit, NEW p \in Procs, NEW r \in Runs,
           Creates(p, r)
    PROVE  \E s \in Sets : Promised!Begin(r, s)
<1> DEFINE s == req[p].set
<1>1. s \in Sets /\ req[p].sheet \in Sheet
  BY RequestFields DEF Creates, TypeOK
<1>2. /\ run'[r] = [status |-> "open", set |-> s, total |-> 0, correct |-> 0]
      /\ sheet'[r] = req[p].sheet
      /\ \A x \in Runs : x # r => run'[x] = run[x] /\ sheet'[x] = sheet[x]
  BY DEF Creates, TypeOK
<1>3. logs' = logs /\ setStatus' = setStatus
  BY DEF Creates
<1>4. Sitting[r].status = "none"
  BY DEF Creates, Sitting, SittingOf
<1>5. s \notin RemovedSets
  BY DEF Creates, RemovedSets
<1>6. \A x \in Runs : Sitting[x].status = "open" => Sitting[x].set # s
  BY DEF Creates, OpenRuns, Sitting, SittingOf, TypeOK, RunRow
<1>7. Sitting' = [Sitting EXCEPT ![r] = Promised!Sat(s)]
  <2>1. SittingOf(r)' = Promised!Sat(s)
    BY <1>2 DEF SittingOf, Promised!Sat
  <2>2. \A x \in Runs : x # r => SittingOf(x)' = SittingOf(x)
    BY <1>2 DEF SittingOf
  <2> QED BY <2>1, <2>2 DEF Sitting
<1>8. Questions' \in [Runs -> [Cards -> Promised!Question]]
  BY DEF TypeOK, Sheet, Questions, QuestionOf, Promised!Question
<1>9. Promised!Asked(Questions'[r]) # {}
  <2>1. Questions'[r] = [c \in Cards |-> QuestionOf(req[p].sheet[c])]
    BY <1>2 DEF Questions
  <2>2. AskedIn(req[p].sheet) # {}
    BY DEF RequestsFit, Creates
  <2> QED BY <1>1, <2>1, <2>2, AskedIsAsked
<1>10. \A x \in Runs \ {r} : Questions'[x] = Questions[x]
  BY <1>2 DEF Questions
<1>11. UNCHANGED <<RemovedSets, Given, Evidence>>
  BY <1>3 DEF RemovedSets, Given, GivenTo, Evidence, LogIds
<1> QED BY <1>1, <1>4, <1>5, <1>6, <1>7, <1>8, <1>9, <1>10, <1>11
        DEF Promised!Begin

LEMMA AnswerGives ==
    ASSUME TypeOK, NEW r \in Runs, NEW c \in Cards, NEW rating \in Ratings,
           NEW format \in Formats, RunExists(r), c \in AskedIn(sheet[r]),
           format = IF IsChoice(sheet[r][c]) THEN "choice" ELSE "recall",
           AnswersTo(r, c) = {}, UNCHANGED <<setStatus, run, sheet>>,
           logs' = Append(logs, [run |-> r, card |-> c, rating |-> rating,
                                 format |-> format])
    PROVE  Promised!Give(r, c, rating)
<1> DEFINE row == [run |-> r, card |-> c, rating |-> rating, format |-> format]
           answer == [card |-> c, rating |-> rating]
           entry == [card |-> c, rating |-> rating, format |-> format]
           new == Len(logs) + 1
<1>1. row \in LogRow /\ entry \in Entry
  BY DEF LogRow, Entry
<1>4. Len(logs) \in Nat /\ LogIds = 1..Len(logs) /\ logs \in Seq(LogRow)
  BY DEF TypeOK, LogIds
<1>5. /\ logs' \in Seq(LogRow) /\ Len(logs') = new
      /\ LogIds' = 1..new
      /\ \A i \in LogIds : i \in 1..new /\ i # new /\ logs'[i] = logs[i]
      /\ new \in 1..new /\ logs'[new] = row
  BY <1>1, <1>4 DEF LogIds
<1>6. Promised!Exists(r)
  BY DEF RunExists, Promised!Exists, Sitting, SittingOf
<1>7. c \in Promised!Asked(Questions[r]) /\ Questions[r][c].format = format
  <2>1. Questions[r] = [d \in Cards |-> QuestionOf(sheet[r][d])]
    BY DEF Questions
  <2>2. sheet[r] \in Sheet /\ sheet[r][c].position > 0
    BY DEF TypeOK, AskedIn
  <2> QED BY <2>1, <2>2, AskedIsAsked DEF QuestionOf
<1>8. \A a \in Given[r] : a.card # c
  BY DEF Given, GivenTo, AnswersTo
<1>9. Given' = [Given EXCEPT ![r] = Given[r] \cup {answer}]
  <2>1. ASSUME NEW x \in Runs, x # r
        PROVE  GivenTo(x)' = GivenTo(x)
    <3>1. {j \in LogIds : logs[j].run = x}' = {j \in LogIds : logs[j].run = x}
      BY <1>4, <1>5, <2>1
    <3> QED BY <1>5, <3>1 DEF GivenTo
  <2>2. GivenTo(r)' = GivenTo(r) \cup {answer}
    <3>1. /\ logs'[new].run = r
          /\ answer = [card |-> logs'[new].card, rating |-> logs'[new].rating]
      BY <1>5
    <3>2. \A j : j \in LogIds' <=> j \in LogIds \/ j = new
      BY <1>4, <1>5
    <3> HIDE DEF answer, new
    <3>3. {j \in LogIds : logs[j].run = r}'
            = {j \in LogIds : logs[j].run = r} \cup {new}
      BY <1>5, <3>1, <3>2
    <3> QED BY <1>5, <3>1, <3>3 DEF GivenTo
  <2> HIDE DEF answer
  <2> QED BY <2>1, <2>2 DEF Given
<1>10. Evidence' = Append(Evidence, entry)
  <2>1. Evidence \in Seq(Entry) /\ Len(Evidence) = Len(logs)
    BY <1>4, EvidenceType
  <2>2. /\ Evidence' \in Seq(Entry) /\ Len(Evidence') = new
        /\ Evidence'[new] = entry
        /\ \A i \in 1..Len(logs) : Evidence'[i] = Evidence[i]
    <3>1. /\ Evidence' = [i \in 1..new |->
                [card |-> logs'[i].card, rating |-> logs'[i].rating,
                 format |-> logs'[i].format]]
      BY <1>5 DEF Evidence
    <3>2. \A i \in 1..new : logs'[i] \in LogRow
      BY <1>5
    <3>3. Evidence' \in [1..new -> Entry]
      BY <3>1, <3>2 DEF LogRow, Entry
    <3>4. Evidence' \in Seq(Entry) /\ Len(Evidence') = new
      BY <1>4, <3>3, SeqDef
    <3> QED BY <1>4, <1>5, <3>1, <3>4, EvidenceType
  <2>3. /\ Append(Evidence, entry) \in Seq(Entry)
        /\ Len(Append(Evidence, entry)) = new
        /\ Append(Evidence, entry)[new] = entry
        /\ \A i \in 1..Len(logs) : Append(Evidence, entry)[i] = Evidence[i]
    BY <1>1, <1>4, <2>1
  <2>4. \A i \in 1..new : i = new \/ i \in 1..Len(logs)
    BY <1>4
  <2> HIDE DEF new, entry
  <2> QED BY <2>2, <2>3, <2>4, SeqEqual
<1>11. UNCHANGED <<RemovedSets, Sitting, Questions>>
  BY DEF RemovedSets, Sitting, SittingOf, Questions
<1> QED BY <1>6, <1>7, <1>8, <1>9, <1>10, <1>11 DEF Promised!Give

LEMMA RecordsGives ==
    ASSUME TypeOK, RequestsFit, NEW p \in Procs, Records(p)
    PROVE  \E r \in Runs, c \in Cards, rating \in Ratings :
              Promised!Give(r, c, rating)
<1>1. /\ req[p].run \in Runs /\ req[p].card \in Cards
      /\ req[p].rating \in Ratings /\ req[p].format \in Formats
  BY RequestFields DEF Records, TypeOK
<1>2. PICK r \in Runs, c \in Cards, rating \in Ratings, format \in Formats :
         /\ r = req[p].run /\ c = req[p].card
         /\ rating = req[p].rating /\ format = req[p].format
  BY <1>1
<1>3. /\ RunExists(r) /\ c \in AskedIn(sheet[r])
      /\ format = IF IsChoice(sheet[r][c]) THEN "choice" ELSE "recall"
      /\ AnswersTo(r, c) = {}
  BY <1>2 DEF Records, RequestsFit
<1>4. /\ UNCHANGED <<setStatus, run, sheet>>
      /\ logs' = Append(logs, [run |-> r, card |-> c, rating |-> rating,
                               format |-> format])
  BY <1>2 DEF Records
<1> QED BY <1>3, <1>4, AnswerGives

LEMMA ClosesCloses ==
    ASSUME TypeOK, AnswersFitTheirRun, NEW r \in Runs, Closes(r)
    PROVE  Promised!Close(r)
<1>1. UNCHANGED <<setStatus, sheet, logs>>
  BY DEF Closes
<1>2. /\ run'[r] = [status |-> "finished", set |-> run[r].set,
                    total |-> TotalCount(r), correct |-> CorrectCount(r)]
      /\ \A x \in Runs : x # r => run'[x] = run[x]
  BY DEF Closes, TypeOK
<1>3. Sitting[r] = [status |-> "open", set |-> run[r].set]
  BY DEF Closes, Sitting, SittingOf
<1>4. Cardinality(Promised!Asked(Questions[r])) = TotalCount(r)
  BY AskedIsAsked DEF Questions, TypeOK, TotalCount
<1>5. Cardinality(Promised!Right(r)) = CorrectCount(r)
  BY RightIsCounted
<1>6. Sitting' = [Sitting EXCEPT ![r] =
          Promised!Closed(Sitting[r].set, Cardinality(Promised!Right(r)),
                          Cardinality(Promised!Asked(Questions[r])))]
  <2>1. SittingOf(r)' = Promised!Closed(run[r].set, CorrectCount(r), TotalCount(r))
    BY <1>2 DEF SittingOf, Promised!Closed
  <2>2. \A x \in Runs : x # r => SittingOf(x)' = SittingOf(x)
    BY <1>2 DEF SittingOf
  <2>3. Sitting[r].set = run[r].set
    BY <1>3
  <2> QED BY <1>4, <1>5, <2>1, <2>2, <2>3 DEF Sitting
<1>7. UNCHANGED <<RemovedSets, Questions, Given, Evidence>>
  BY <1>1 DEF RemovedSets, Questions, Given, GivenTo, Evidence, LogIds
<1>8. Sitting[r].status = "open"
  BY <1>3
<1> HIDE DEF Sitting, RemovedSets, Questions, Given, Evidence
<1>9. \A S : Promised!Cardinality(S) = Cardinality(S)
  BY DEF Promised!Cardinality, Cardinality
<1> QED BY <1>6, <1>7, <1>8, <1>9 DEF Promised!Close

LEMMA DropsDiscards ==
    ASSUME TypeOK, NEW r \in Runs, Drops(r)
    PROVE  Promised!Discard(r)
<1>1. /\ run'[r] = Absent("deleted") /\ sheet'[r] = NoQuestions
      /\ \A x \in Runs : x # r => run'[x] = run[x] /\ sheet'[x] = sheet[x]
      /\ setStatus' = setStatus
  BY DEF Drops, TypeOK
<1>2. \A i \in LogIds : logs[i] \in LogRow
  BY DEF TypeOK, LogIds
<1>3. /\ LogIds' = LogIds
      /\ \A i \in LogIds :
            /\ logs[i].run # r => logs'[i] = logs[i]
            /\ logs[i].run = r => logs'[i] = [logs[i] EXCEPT !.run = Null]
  BY DEF Drops, Detached, LogIds
<1>4. \A x \in Runs : x # Null
  BY NullAssumption
<1>5. /\ \A i \in LogIds : /\ logs'[i].card = logs[i].card
                             /\ logs'[i].rating = logs[i].rating
                             /\ logs'[i].format = logs[i].format
                             /\ logs'[i].run # r
                             /\ \A x \in Runs \ {r} :
                                   logs'[i].run = x <=> logs[i].run = x
  BY <1>2, <1>3, <1>4 DEF LogRow
<1>6. Promised!Exists(r)
  BY DEF Drops, RunExists, Promised!Exists, Sitting, SittingOf
<1>7. Sitting' = [Sitting EXCEPT ![r] = Promised!Discarded]
  <2>1. SittingOf(r)' = Promised!Discarded
    BY <1>1 DEF SittingOf, Absent, Promised!Discarded
  <2>2. \A x \in Runs : x # r => SittingOf(x)' = SittingOf(x)
    BY <1>1 DEF SittingOf
  <2> QED BY <2>1, <2>2 DEF Sitting
<1>8. Questions' = [Questions EXCEPT ![r] = Promised!Nothing]
  <2>1. [c \in Cards |-> QuestionOf(sheet'[r][c])] = Promised!Nothing
    BY <1>1 DEF QuestionOf, NoQuestions, NotAsked, Promised!Nothing
  <2> QED BY <1>1, <2>1 DEF Questions
<1>9. Given' = [Given EXCEPT ![r] = {}]
  <2>1. GivenTo(r)' = {}
    BY <1>3, <1>5 DEF GivenTo
  <2>2. ASSUME NEW x \in Runs, x # r
        PROVE  GivenTo(x)' = GivenTo(x)
    <3>1. {j \in LogIds : logs[j].run = x}' = {j \in LogIds : logs[j].run = x}
      BY <1>3, <1>5, <2>2
    <3> QED BY <1>5, <3>1 DEF GivenTo
  <2> QED BY <2>1, <2>2 DEF Given
<1>10. UNCHANGED <<RemovedSets, Evidence>>
  BY <1>1, <1>3, <1>5 DEF RemovedSets, Evidence
<1> QED BY <1>6, <1>7, <1>8, <1>9, <1>10 DEF Promised!Discard

LEMMA RetiresRemoves ==
    ASSUME TypeOK, RowsInv, NEW s \in Sets,
           NEW status \in {"live", "archived", "gone"}, Retires(s, status)
    PROVE  Promised!Remove(s) \/ UNCHANGED Promised!vars
<1>1. UNCHANGED <<Sitting, Questions, Given, Evidence>>
  BY DEF Retires, Sitting, SittingOf, Questions, Given, GivenTo, Evidence, LogIds
<1>2. s \notin RemovedSets
  BY DEF Retires, RemovedSets
<1>3. CASE status = "gone"
  <2>1. RemovedSets' = RemovedSets \cup {s}
    BY <1>3 DEF Retires, RemovedSets, TypeOK
  <2>2. \A r \in Runs : Promised!Exists(r) => Sitting[r].set # s
    BY <1>3 DEF Retires, HasRuns, RunExists, Promised!Exists, Sitting, SittingOf
  <2> QED BY <1>1, <1>2, <2>1, <2>2 DEF Promised!Remove
<1>4. CASE status # "gone"
  <2>1. RemovedSets' = RemovedSets
    BY <1>2, <1>4 DEF Retires, RemovedSets, TypeOK
  <2> QED BY <1>1, <2>1 DEF Promised!vars
<1> QED BY <1>3, <1>4

-----------------------------------------------------------------------------
LEMMA InitPromised == Init => Promised!Init
<1> SUFFICES ASSUME Init PROVE Promised!Init
  OBVIOUS
<1>1. RemovedSets = {}
  BY DEF Init, RemovedSets
<1>2. Sitting = [r \in Runs |-> Promised!NotBegun]
  BY DEF Init, Absent, Sitting, SittingOf, Promised!NotBegun
<1>3. Questions = [r \in Runs |-> Promised!Nothing]
  BY DEF Init, NoQuestions, NotAsked, Questions, QuestionOf, Promised!Nothing
<1>4. LogIds = {}
  BY DEF Init, LogIds
<1>5. Given = [r \in Runs |-> {}]
  BY <1>4 DEF Given, GivenTo
<1>6. Evidence = <<>>
  <2>1. logs \in Seq(LogRow) /\ Len(logs) = 0
    BY DEF Init
  <2>2. Evidence \in Seq(Entry) /\ Len(Evidence) = 0
    BY <2>1, EvidenceType
  <2> QED BY <2>2, EmptySeq
<1> QED BY <1>1, <1>2, <1>3, <1>5, <1>6 DEF Promised!Init

LEMMA StepPromised == IInv /\ [Next]_vars => [Promised!Next]_(Promised!vars)
<1> SUFFICES ASSUME IInv, [Next]_vars
             PROVE  [Promised!Next]_(Promised!vars)
  OBVIOUS
<1>1. TypeOK /\ TypeOK' /\ RowsInv /\ RequestsFit /\ AnswersFitTheirRun
  BY TypeStep DEF IInv, RowsInv
<1>2. CASE UNCHANGED <<setStatus, run, sheet, logs>>
  BY <1>2 DEF Promised!vars, RemovedSets, Sitting, SittingOf, Questions, Given,
              GivenTo, Evidence, LogIds
<1>3. ASSUME NEW p \in Procs, NEW r \in Runs, Creates(p, r)
      PROVE  Promised!Next
  BY <1>1, <1>3, CreatesBegins DEF Promised!Next
<1>4. ASSUME NEW p \in Procs, Records(p)
      PROVE  Promised!Next
  BY <1>1, <1>4, RecordsGives DEF Promised!Next, Promised!Ratings, Ratings
<1>5. ASSUME NEW r \in Runs, Closes(r)
      PROVE  Promised!Next
  BY <1>1, <1>5, ClosesCloses DEF Promised!Next
<1>6. ASSUME NEW r \in Runs, Drops(r)
      PROVE  Promised!Next
  BY <1>1, <1>6, DropsDiscards DEF Promised!Next
<1>7. ASSUME NEW s \in Sets, NEW status \in {"live", "archived", "gone"},
             Retires(s, status)
      PROVE  [Promised!Next]_(Promised!vars)
  BY <1>1, <1>7, RetiresRemoves DEF Promised!Next
<1> QED BY <1>2, <1>3, <1>4, <1>5, <1>6, <1>7, StepEffects, <1>1

(* The handlers, statement by statement, implement the promise.            *)
THEOREM ImplementsSittingsHolds == Spec => ImplementsSittings
  BY InitPromised, StepPromised, IInvHolds, PTL
  DEF Spec, ImplementsSittings, Promised!Spec
=============================================================================
