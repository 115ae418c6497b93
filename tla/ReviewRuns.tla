----------------------------- MODULE ReviewRuns -----------------------------
(***************************************************************************)
(* Review runs: the sittings of a review set, as the HTTP handlers of      *)
(* internal/api/reviewsets.go and the store of internal/store/reviewsets.go*)
(* execute them against Postgres.                                          *)
(*                                                                         *)
(* Procs are requests of one account being served at the same time: two    *)
(* tabs, a double click, a retry.  A handler is a control state req[p],    *)
(* and one action is one SQL statement that reads or writes shared rows.   *)
(* Every transaction runs at READ COMMITTED, so a statement sees what is   *)
(* committed when it starts and nothing protects a value between two       *)
(* statements.  The inserts of StartRun are one action, StartCreate: its   *)
(* rows are invisible until it commits, a second insert for the same set   *)
(* waits on the partial unique index until then, and a DELETE of the set   *)
(* waits on the foreign key.                                               *)
(***************************************************************************)
EXTENDS Naturals, Sequences, FiniteSets, Functions

CONSTANTS
    Procs,        \* requests served concurrently
    Sets,         \* ids of review sets
    Runs,         \* ids gen_random_uuid() may hand out to runs
    Cards,        \* ids of the account's cards
    Backs,        \* answer texts
    ChoiceCount,  \* options of a multiple-choice question (4 in the code)
    Config,       \* per set: selection, format, want, pinned, filter
    InitialBack,  \* the answer text of each card at the start
    Null          \* a NULL column; also a card with no answer to read

(* question_count and the pinned rows exist for one selection each; a      *)
(* pinned row is a positive position, 0 is "not in review_set_cards".      *)
Configuration ==
    [selection: {"fixed", "random"}, format: {"recall", "choice"},
     want: Nat, pinned: [Cards -> Nat], filter: SUBSET Cards]

ASSUME FiniteAssumption == IsFiniteSet(Cards)
ASSUME ChoiceAssumption == ChoiceCount \in Nat /\ ChoiceCount >= 2
ASSUME ConfigAssumption == Config \in [Sets -> Configuration]
ASSUME BackAssumption == InitialBack \in [Cards -> Backs]
ASSUME NullAssumption == Null \notin Backs \cup Runs \cup Sets

VARIABLES
    setStatus,  \* review_sets: is the row there, and is archived_at set
    run,        \* review_runs rows
    sheet,      \* review_run_cards rows of each run, one question per card
    logs,       \* review_logs rows with source = 'set', in id order
    live,       \* cards whose deleted_at IS NULL
    back,       \* cards.back
    req         \* where each request stands, and what it holds in memory

vars == <<setStatus, run, sheet, logs, live, back, req>>

-----------------------------------------------------------------------------
(* Rows.                                                                   *)

Ratings == {"ingat", "lupa"}
Formats == {"recall", "choice"}

OptionLists == {<<>>} \cup [1..ChoiceCount -> Backs]

(* position 0 is a card without a row in the run's snapshot; options <<>>  *)
(* and correct 0 are the two NULLs of a recall question.                   *)
Question == [position: Nat, options: OptionLists, correct: 0..ChoiceCount]
NotAsked == [position |-> 0, options |-> <<>>, correct |-> 0]
NoQuestions == [c \in Cards |-> NotAsked]
Sheet == [Cards -> Question]

RunRow == [status: {"none", "open", "finished", "deleted"},
           set: Sets \cup {Null}, total: Nat, correct: Nat]
Absent(status) == [status |-> status, set |-> Null, total |-> 0, correct |-> 0]

LogRow == [run: Runs \cup {Null}, card: Cards,
           rating: Ratings, format: Formats]

AskedIn(sh) == {c \in Cards : sh[c].position > 0}
IsChoice(question) == question.correct > 0 /\ question.options # <<>>

RunExists(r) == run[r].status \in {"open", "finished"}
OpenRuns(s) == {r \in Runs : run[r].status = "open" /\ run[r].set = s}
LogIds == DOMAIN logs
AnswersTo(r, c) == {i \in LogIds : logs[i].run = r /\ logs[i].card = c}
RightAnswers(r) == {i \in LogIds : logs[i].run = r /\ logs[i].rating = "ingat"}

-----------------------------------------------------------------------------
(* Requests.  One record type per place a handler can stand at; the last   *)
(* four are requests that have been answered.                              *)

Draw == [Cards -> Nat]
HeldBacks == [Cards -> Backs \cup {Null}]

Request ==
    [pc: {"idle"}]
    \cup [pc: {"readOpen", "draw"}, set: Sets]
    \cup [pc: {"backs"}, set: Sets, draw: Draw]
    \cup [pc: {"pool", "widen"}, set: Sets, draw: Draw, backs: HeldBacks]
    \cup [pc: {"create"}, set: Sets, sheet: Sheet]
    \cup [pc: {"detail"}, run: Runs, code: {200, 201}]
    \cup [pc: {"question"}, run: Runs, card: Cards]
    \cup [pc: {"insert"}, run: Runs, card: Cards, rating: Ratings,
          format: Formats]
    \cup [pc: {"finish"}, run: Runs, finished: BOOLEAN]
    \cup [pc: {"started"}, run: Runs, code: {200, 201}]
    \cup [pc: {"answered"}, run: Runs, card: Cards, rating: Ratings]
    \cup [pc: {"ended"}, run: Runs, finished: BOOLEAN]
    \cup [pc: {"refused"}, op: {"start", "answer", "finish", "discard"},
          code: {400, 404, 409, 500}, id: Sets \cup Runs]

AtRest == {"idle", "started", "answered", "ended", "refused"}
Free(p) == req[p].pc \in AtRest

Goto(p, next) == req' = [req EXCEPT ![p] = next]
Refuse(p, op, code, id) ==
    Goto(p, [pc |-> "refused", op |-> op, code |-> code, id |-> id])

TypeOK ==
    /\ setStatus \in [Sets -> {"live", "archived", "gone"}]
    /\ run \in [Runs -> RunRow]
    /\ sheet \in [Runs -> Sheet]
    /\ logs \in Seq(LogRow)
    /\ live \subseteq Cards
    /\ back \in [Cards -> Backs]
    /\ req \in [Procs -> Request]

Init ==
    /\ setStatus = [s \in Sets |-> "live"]
    /\ run = [r \in Runs |-> Absent("none")]
    /\ sheet = [r \in Runs |-> NoQuestions]
    /\ logs = <<>>
    /\ live = Cards
    /\ back = InitialBack
    /\ req = [p \in Procs |-> [pc |-> "idle"]]

-----------------------------------------------------------------------------
(* POST /review/sets/{id}/runs: handleStartRun, StartRun.                  *)

(* GetReviewSet and the archived check.                                    *)
StartReadSet(p, s) ==
    /\ Free(p)
    /\ IF setStatus[s] = "live"
       THEN Goto(p, [pc |-> "readOpen", set |-> s])
       ELSE Refuse(p, "start", 404, s)
    /\ UNCHANGED <<setStatus, run, sheet, logs, live, back>>

(* GetOpenRun: an unfinished run is handed back instead of a new one.      *)
StartReadOpen(p) ==
    /\ req[p].pc = "readOpen"
    /\ LET s == req[p].set IN
       \/ /\ OpenRuns(s) = {}
          /\ Goto(p, [pc |-> "draw", set |-> s])
       \/ \E r \in OpenRuns(s) :
             Goto(p, [pc |-> "detail", run |-> r, code |-> 200])
    /\ UNCHANGED <<setStatus, run, sheet, logs, live, back>>

(* The ways to list the cards of S, as the position of each card; 0 is a   *)
(* card that is not listed.                                                *)
Orders(S) ==
    {d \in [Cards -> 0..Cardinality(S)] :
        /\ \A c \in Cards : d[c] > 0 <=> c \in S
        /\ \A c, e \in S : d[c] = d[e] => c = e}

(* ListSetCards: the pinned cards that are still live, ORDER BY position.  *)
PinnedDraws(s) ==
    LET pinned == Config[s].pinned
        listed == {c \in live : pinned[c] > 0}
    IN  {d \in Orders(listed) : \A c, e \in listed :
            pinned[c] < pinned[e] => d[c] < d[e]}

(* DrawRandomCards: ORDER BY random() LIMIT want, over the live cards that *)
(* pass the set's filters.                                                 *)
RandomDraws(s) ==
    LET eligible == live \cap Config[s].filter
        want == Config[s].want
        fits(S) == \/ S = eligible /\ Cardinality(S) <= want
                   \/ Cardinality(S) = want
    IN  UNION {Orders(S) : S \in {T \in SUBSET eligible : fits(T)}}

Draws(s) ==
    IF Config[s].selection = "fixed" THEN PinnedDraws(s) ELSE RandomDraws(s)

Drawn(draw) == {c \in Cards : draw[c] > 0}

Recall(n) == [position |-> n, options |-> <<>>, correct |-> 0]
RecallSheet(draw) ==
    [c \in Cards |-> IF draw[c] = 0 THEN NotAsked ELSE Recall(draw[c])]

(* len(questions) == 0.  The slip: no check before the run row is created. *)
NeverEmpty(draw) == FALSE
DrewNothing(draw) == Drawn(draw) = {}

(* drawQuestions, and the empty draw that is refused before a run exists.  *)
StartDraw(p) ==
    /\ req[p].pc = "draw"
    /\ LET s == req[p].set IN
       \E draw \in Draws(s) :
          \/ /\ DrewNothing(draw)
             /\ Refuse(p, "start", 400, s)
          \/ /\ ~ DrewNothing(draw) /\ Config[s].format = "recall"
             /\ Goto(p, [pc |-> "create", set |-> s,
                         sheet |-> RecallSheet(draw)])
          \/ /\ ~ DrewNothing(draw) /\ Config[s].format = "choice"
             /\ Goto(p, [pc |-> "backs", set |-> s, draw |-> draw])
    /\ UNCHANGED <<setStatus, run, sheet, logs, live, back>>

(* buildChoices, ListCardBacks: a card deleted since the draw has no row.  *)
StartBacks(p) ==
    /\ req[p].pc = "backs"
    /\ Goto(p, [pc |-> "pool", set |-> req[p].set, draw |-> req[p].draw,
                backs |-> [c \in Cards |->
                    IF c \in live \cap Drawn(req[p].draw)
                    THEN back[c] ELSE Null]])
    /\ UNCHANGED <<setStatus, run, sheet, logs, live, back>>

(* makeChoice: the answer and ChoiceCount - 1 other texts of the pool, all *)
(* distinct, in any order.                                                 *)
(* The slip: the seen map forgotten, so a text may appear twice.           *)
RepeatedOptions(correct, pool) ==
    {o \in [1..ChoiceCount -> pool \cup {correct}] : correct \in Range(o)}
ChoiceOptions(correct, pool) ==
    {o \in Injection(1..ChoiceCount, pool \cup {correct}) :
        correct \in Range(o)}

(* The row a drawn card may get: a choice when the pool allows one, else   *)
(* plain recall.                                                           *)
QuestionRows(n, correct, pool) ==
    LET lists == IF correct = Null THEN {} ELSE ChoiceOptions(correct, pool)
    IN  IF n = 0 THEN {NotAsked}
        ELSE IF lists = {} THEN {Recall(n)}
        ELSE {[position |-> n, options |-> o,
               correct |-> CHOOSE i \in 1..ChoiceCount : o[i] = correct]
                 : o \in lists}

ChoiceSheets(draw, backs, pool) ==
    LET rows == [c \in Cards |-> QuestionRows(draw[c], backs[c], pool)]
    IN  {sh \in [Cards -> UNION {rows[c] : c \in Cards}] :
            \A c \in Cards : sh[c] \in rows[c]}

DistractorPool(from) == {back[c] : c \in live \cap from}

TakePool(p, pool) ==
    \E sh \in ChoiceSheets(req[p].draw, req[p].backs, pool) :
        Goto(p, [pc |-> "create", set |-> req[p].set, sheet |-> sh])

(* ListDistractorPool inside the set's filters; too few texts there sends  *)
(* the request back for the whole account's.                               *)
StartPool(p) ==
    /\ req[p].pc = "pool"
    /\ LET pool == DistractorPool(Config[req[p].set].filter) IN
       IF Cardinality(pool) < ChoiceCount
       THEN Goto(p, [req[p] EXCEPT !.pc = "widen"])
       ELSE TakePool(p, pool)
    /\ UNCHANGED <<setStatus, run, sheet, logs, live, back>>

StartWiden(p) ==
    /\ req[p].pc = "widen"
    /\ TakePool(p, DistractorPool(Cards))
    /\ UNCHANGED <<setStatus, run, sheet, logs, live, back>>

(* review_runs_one_open_idx.  The slip: no such index.                     *)
NotIndexed(s) == FALSE
OpenRunIndexed(s) == OpenRuns(s) # {}

(* CreateRun, SnapshotRunCard for every question, COMMIT.  The foreign key *)
(* refuses a set that is gone and the partial unique index a second open   *)
(* run; both errors leave the handler as a 500.                            *)
StartCreate(p) ==
    /\ req[p].pc = "create"
    /\ LET s == req[p].set IN
       \/ /\ setStatus[s] = "gone" \/ OpenRunIndexed(s)
          /\ Refuse(p, "start", 500, s)
          /\ UNCHANGED <<run, sheet>>
       \/ /\ setStatus[s] # "gone" /\ ~ OpenRunIndexed(s)
          /\ \E r \in Runs :
                /\ run[r].status = "none"
                /\ run' = [run EXCEPT ![r] =
                     [status |-> "open", set |-> s, total |-> 0, correct |-> 0]]
                /\ sheet' = [sheet EXCEPT ![r] = req[p].sheet]
                /\ Goto(p, [pc |-> "detail", run |-> r, code |-> 201])
    /\ UNCHANGED <<setStatus, logs, live, back>>

(* runDetailFor: the questions are read in a transaction of their own.     *)
StartDetail(p) ==
    /\ req[p].pc = "detail"
    /\ Goto(p, [pc |-> "started", run |-> req[p].run, code |-> req[p].code])
    /\ UNCHANGED <<setStatus, run, sheet, logs, live, back>>

-----------------------------------------------------------------------------
(* POST /review/runs/{runID}/{cardID}: handleAnswerQuestion.               *)

(* runOr404, and the check that the run is still open.                     *)
AnswerReadRun(p, r, c) ==
    /\ Free(p)
    /\ CASE run[r].status = "open" ->
              Goto(p, [pc |-> "question", run |-> r, card |-> c])
         [] run[r].status = "finished" -> Refuse(p, "answer", 409, r)
         [] OTHER -> Refuse(p, "answer", 404, r)
    /\ UNCHANGED <<setStatus, run, sheet, logs, live, back>>

(* What the client sent.  A self-rating or an option index, each possibly  *)
(* missing or out of range ("other", 0).                                   *)
SentRatings == Ratings \cup {"other"}
SentChoices == 0..ChoiceCount

(* The rating check.  The slip: the body is trusted.                       *)
AnyRating(rating) == TRUE
GoodRating(rating) == rating \in Ratings

(* The format an answer is tagged with is its question's.  The slip: the   *)
(* set's format, which a question without enough options does not have.    *)
SetsFormat(r, question) == Config[run[r].set].format
AnsweredFormat(r, question) == IF IsChoice(question) THEN "choice" ELSE "recall"

(* runQuestionOr404, then grading: which body is required is decided by    *)
(* the question, not by the client.                                        *)
AnswerReadQuestion(p, rating, choice) ==
    /\ req[p].pc = "question"
    /\ LET r == req[p].run
           c == req[p].card
           question == sheet[r][c]
           Insert(graded) ==
               Goto(p, [pc |-> "insert", run |-> r, card |-> c,
                        rating |-> graded,
                        format |-> AnsweredFormat(r, question)])
       IN  IF c \notin AskedIn(sheet[r]) THEN Refuse(p, "answer", 404, r)
           ELSE IF IsChoice(question)
           THEN IF choice = 0 THEN Refuse(p, "answer", 400, r)
                ELSE Insert(IF choice = question.correct
                            THEN "ingat" ELSE "lupa")
           ELSE IF ~ GoodRating(rating) THEN Refuse(p, "answer", 400, r)
                ELSE Insert(rating)
    /\ UNCHANGED <<setStatus, run, sheet, logs, live, back>>

(* review_logs_one_answer_per_run_idx, the target of ON CONFLICT.  The     *)
(* slips: no such index; an index on the card alone.                       *)
NoConflict(r, c) == FALSE
ConflictAcrossRuns(r, c) == \E i \in LogIds : logs[i].card = c
Conflicts(r, c) == AnswersTo(r, c) # {}

(* InsertSetAnswer.  The foreign key needs the run row; ON CONFLICT DO     *)
(* NOTHING keeps the first answer, and the response carries this one's.    *)
AnswerInsert(p) ==
    /\ req[p].pc = "insert"
    /\ LET r == req[p].run
           c == req[p].card
       IN  \/ /\ ~ RunExists(r)
              /\ Refuse(p, "answer", 500, r)
              /\ UNCHANGED logs
           \/ /\ RunExists(r)
              /\ logs' = IF Conflicts(r, c) THEN logs
                         ELSE Append(logs, [run |-> r, card |-> c,
                                            rating |-> req[p].rating,
                                            format |-> req[p].format])
              /\ Goto(p, [pc |-> "answered", run |-> r, card |-> c,
                          rating |-> req[p].rating])
    /\ UNCHANGED <<setStatus, run, sheet, live, back>>

-----------------------------------------------------------------------------
(* POST /review/runs/{runID}/finish: handleFinishRun.                      *)

(* runOr404 keeps the row it read.                                         *)
FinishReadRun(p, r) ==
    /\ Free(p)
    /\ IF RunExists(r)
       THEN Goto(p, [pc |-> "finish", run |-> r,
                     finished |-> run[r].status = "finished"])
       ELSE Refuse(p, "finish", 404, r)
    /\ UNCHANGED <<setStatus, run, sheet, logs, live, back>>

(* The two counts of FinishRun.  The slips: the questions answered instead *)
(* of the questions asked, every answer instead of the right ones.         *)
AnsweredCount(r) == Cardinality({logs[i].card : i \in {j \in LogIds : logs[j].run = r}})
TotalCount(r) == Cardinality(AskedIn(sheet[r]))
EveryAnswer(r) == Cardinality({i \in LogIds : logs[i].run = r})
CorrectCount(r) == Cardinality(RightAnswers(r))

(* WHERE finished_at IS NULL.  The slip: any row that exists.              *)
Matches(r) == RunExists(r)
Unfinished(r) == run[r].status = "open"

(* FinishRun: the score is counted by the statement that closes the run.   *)
(* When it matches no row the handler answers with the row it read first.  *)
FinishUpdate(p) ==
    /\ req[p].pc = "finish"
    /\ LET r == req[p].run IN
       \/ /\ Unfinished(r)
          /\ run' = [run EXCEPT ![r] =
                       [status |-> "finished", set |-> run[r].set,
                        total |-> TotalCount(r), correct |-> CorrectCount(r)]]
          /\ Goto(p, [pc |-> "ended", run |-> r, finished |-> TRUE])
       \/ /\ ~ Unfinished(r)
          /\ Goto(p, [pc |-> "ended", run |-> r,
                      finished |-> req[p].finished])
          /\ UNCHANGED run
    /\ UNCHANGED <<setStatus, sheet, logs, live, back>>

-----------------------------------------------------------------------------
(* DELETE /review/runs/{runID}: handleDeleteRun.  One transaction: the     *)
(* snapshot goes with the run (CASCADE), the answers stay with a NULL run  *)
(* id (SET NULL).                                                          *)

(* The slips: ON DELETE CASCADE on the answers; the snapshot rows of every *)
(* run of the set.                                                         *)
Erased(r) == LET keep(row) == row.run # r IN SelectSeq(logs, keep)
Detached(r) == [i \in LogIds |-> IF logs[i].run = r
                                 THEN [logs[i] EXCEPT !.run = Null]
                                 ELSE logs[i]]

OfItsSet(r) == [x \in Runs |-> IF run[x].set = run[r].set THEN NoQuestions
                               ELSE sheet[x]]
WithoutSnapshot(r) == [sheet EXCEPT ![r] = NoQuestions]

DiscardRun(p, r) ==
    /\ Free(p)
    /\ \/ /\ ~ RunExists(r)
          /\ Refuse(p, "discard", 404, r)
          /\ UNCHANGED <<run, sheet, logs>>
       \/ /\ RunExists(r)
          /\ run' = [run EXCEPT ![r] = Absent("deleted")]
          /\ sheet' = WithoutSnapshot(r)
          /\ logs' = Detached(r)
          /\ Goto(p, [pc |-> "idle"])
    /\ UNCHANGED <<setStatus, live, back>>

-----------------------------------------------------------------------------
(* The sets and cards the runs are made of.  Each of these handlers is one *)
(* committed statement here; a refused one (404, 409) changes nothing.     *)

ArchiveSet(s) ==
    /\ setStatus[s] = "live"
    /\ setStatus' = [setStatus EXCEPT ![s] = "archived"]
    /\ UNCHANGED <<run, sheet, logs, live, back, req>>

UnarchiveSet(s) ==
    /\ setStatus[s] = "archived"
    /\ setStatus' = [setStatus EXCEPT ![s] = "live"]
    /\ UNCHANGED <<run, sheet, logs, live, back, req>>

(* review_runs is ON DELETE NO ACTION: a set with runs answers 409.  The   *)
(* slip: only the finished runs that run_count shows.                      *)
HasFinishedRuns(s) == \E r \in Runs : run[r].status = "finished" /\ run[r].set = s
HasRuns(s) == \E r \in Runs : RunExists(r) /\ run[r].set = s

DeleteSet(s) ==
    /\ setStatus[s] # "gone"
    /\ ~ HasRuns(s)
    /\ setStatus' = [setStatus EXCEPT ![s] = "gone"]
    /\ UNCHANGED <<run, sheet, logs, live, back, req>>

DeleteCard(c) ==
    /\ c \in live
    /\ live' = live \ {c}
    /\ UNCHANGED <<setStatus, run, sheet, logs, back, req>>

RestoreCard(c) ==
    /\ c \notin live
    /\ live' = live \cup {c}
    /\ UNCHANGED <<setStatus, run, sheet, logs, back, req>>

(* The slip: options that follow the cards instead of a copied text.       *)
EditShownOptions(c, b) ==
    /\ c \in live
    /\ b # back[c]
    /\ back' = [back EXCEPT ![c] = b]
    /\ sheet' = [r \in Runs |-> IF ~ IsChoice(sheet[r][c]) THEN sheet[r]
                    ELSE [sheet[r] EXCEPT ![c].options[sheet[r][c].correct] = b]]
    /\ UNCHANGED <<setStatus, run, logs, live, req>>

EditBack(c, b) ==
    /\ c \in live
    /\ b # back[c]
    /\ back' = [back EXCEPT ![c] = b]
    /\ UNCHANGED <<setStatus, run, sheet, logs, live, req>>

(* The client disconnects or the process dies between two statements: an   *)
(* open transaction rolls back, what is committed stays.                   *)
Abort(p) ==
    /\ ~ Free(p)
    /\ Goto(p, [pc |-> "idle"])
    /\ UNCHANGED <<setStatus, run, sheet, logs, live, back>>

-----------------------------------------------------------------------------
Start(p) ==
    \/ \E s \in Sets : StartReadSet(p, s)
    \/ StartReadOpen(p)
    \/ StartDraw(p)
    \/ StartBacks(p)
    \/ StartPool(p)
    \/ StartWiden(p)
    \/ StartCreate(p)
    \/ StartDetail(p)

(* A client holds the ids of runs that were created at some time.          *)
Known == {r \in Runs : run[r].status # "none"}

Answer(p) ==
    \/ \E r \in Known, c \in Cards : AnswerReadRun(p, r, c)
    \/ \E rating \in SentRatings, choice \in SentChoices :
          AnswerReadQuestion(p, rating, choice)
    \/ AnswerInsert(p)

Finish(p) == (\E r \in Known : FinishReadRun(p, r)) \/ FinishUpdate(p)

Discard(p) == \E r \in Known : DiscardRun(p, r)

Elsewhere ==
    \/ \E s \in Sets : ArchiveSet(s) \/ UnarchiveSet(s) \/ DeleteSet(s)
    \/ \E c \in Cards : DeleteCard(c) \/ RestoreCard(c)
    \/ \E c \in Cards, b \in Backs : EditBack(c, b)

Next ==
    \/ \E p \in Procs : Start(p) \/ Answer(p) \/ Finish(p) \/ Discard(p)
                        \/ Abort(p)
    \/ Elsewhere

Spec == Init /\ [][Next]_vars

-----------------------------------------------------------------------------
(* Safety: what one reachable state must satisfy.                          *)

(* However starts, finishes and discards overlap, a set has at most one    *)
(* unfinished run: "mulai" can only lead back to one place.                *)
OneOpenRun ==
    \A r1, r2 \in Runs :
        /\ run[r1].status = "open"
        /\ run[r2].status = "open"
        /\ run[r1].set = run[r2].set
        => r1 = r2

(* A run refers to a set that is still there, whatever was archived or     *)
(* deleted between reading the set and committing the run.                 *)
RunsKeepTheirSet ==
    \A r \in Runs : RunExists(r) =>
        run[r].set \in Sets /\ setStatus[run[r].set] # "gone"

(* A run that exists asks at least one question: no card that is deleted   *)
(* while the run starts can leave an empty sitting behind.                 *)
NoEmptyRun == \A r \in Runs : RunExists(r) => AskedIn(sheet[r]) # {}

(* The questions of a run are numbered 1, 2, ... without a gap.  A choice  *)
(* question has exactly one option equal to the text it marks as right, so *)
(* a guess is graded the same way however often it is shown.               *)
SheetsAreSound ==
    \A r \in Runs :
        LET asked == AskedIn(sheet[r]) IN
        /\ {sheet[r][c].position : c \in asked} = 1..Cardinality(asked)
        /\ \A c \in asked : IsChoice(sheet[r][c]) =>
              \A i \in 1..ChoiceCount :
                  i # sheet[r][c].correct =>
                  sheet[r][c].options[i] # sheet[r][c].options[sheet[r][c].correct]

(* An answer that belongs to a run answers a question of that run, once,   *)
(* and is tagged with the format the question was asked in: what lets the  *)
(* retention metric tell recall from recognition.                          *)
AnswersFitTheirRun ==
    \A i \in LogIds : logs[i].run # Null =>
        LET r == logs[i].run
            c == logs[i].card
        IN  /\ RunExists(r)
            /\ c \in AskedIn(sheet[r])
            /\ logs[i].format = IF IsChoice(sheet[r][c]) THEN "choice"
                                ELSE "recall"
            /\ \A j \in AnswersTo(r, c) : j = i

(* The score of a finished run is a fraction of the questions it asked:    *)
(* double clicks never make it 11/10, and the CHECK on review_runs that    *)
(* says so never turns a finish into an error.                             *)
ScoreBounded ==
    \A r \in Runs : run[r].status = "finished" =>
        /\ run[r].total = Cardinality(AskedIn(sheet[r]))
        /\ run[r].correct <= run[r].total

(* A finished score counts only answers that are in the log: a late or     *)
(* repeated answer can never leave it above the evidence.                  *)
ScoreIsEvidenced ==
    \A r \in Runs : run[r].status = "finished" =>
        run[r].correct <= Cardinality(RightAnswers(r))

(* An answer the client was told is recorded is in the log: under its run  *)
(* while the run exists, without a run after the run was discarded.        *)
AcknowledgedAnswersKept ==
    \A p \in Procs : req[p].pc = "answered" =>
        \E i \in LogIds :
            /\ logs[i].card = req[p].card
            /\ logs[i].run = IF RunExists(req[p].run) THEN req[p].run ELSE Null

(* What a request still holds in memory fits the rows it is about to write *)
(* to, although other requests have committed since it was read: a start   *)
(* carries questions, and an answer aims at a question of its run or at a  *)
(* run that is gone.                                                       *)
RequestsFit ==
    \A p \in Procs :
        LET q == req[p] IN
        /\ q.pc \in {"backs", "pool", "widen"} => Drawn(q.draw) # {}
        /\ q.pc = "create" => AskedIn(q.sheet) # {}
        /\ q.pc \in {"question", "insert", "answered"} =>
              run[q.run].status # "none"
        /\ q.pc = "insert" /\ RunExists(q.run) =>
              /\ q.card \in AskedIn(sheet[q.run])
              /\ q.format = IF IsChoice(sheet[q.run][q.card]) THEN "choice"
                            ELSE "recall"

-----------------------------------------------------------------------------
(* Safety: what a step may never do.                                       *)

(* The draw and its options never change under a run: resuming asks the    *)
(* questions, in the order, with the options, that the start committed.    *)
SheetFrozen ==
    [][\A r \in Runs : RunExists(r) /\ RunExists(r)' => sheet'[r] = sheet[r]]_vars

(* Once finished, a run keeps its score until it is discarded; late        *)
(* answers and second finishes leave it alone.                             *)
ScoreFrozen ==
    [][\A r \in Runs : run[r].status = "finished" =>
          run'[r] \in {run[r], Absent("deleted")}]_vars

(* Retention evidence outlives the run it was given in: no step removes an *)
(* answer or rewrites its card, rating or format, and an answer only loses *)
(* its run when that run is discarded.                                     *)
EvidenceSurvives ==
    [][\A i \in LogIds :
          /\ i \in LogIds'
          /\ \/ logs'[i] = logs[i]
             \/ /\ logs'[i] = [logs[i] EXCEPT !.run = Null]
                /\ run'[logs[i].run].status = "deleted"]_vars

-----------------------------------------------------------------------------
(* What a comment promises and an interleaving breaks: a run of its own    *)
(* expects TLC to violate it (store/reviewsets.go:61-64).                  *)

(* "it should return them to where they were rather than fail": a start    *)
(* is only ever an internal error because its set is gone.                 *)
StartNeverFails ==
    \A p \in Procs :
        req[p].pc = "refused" /\ req[p].op = "start" /\ req[p].code = 500
        => setStatus[req[p].id] = "gone"
=============================================================================
