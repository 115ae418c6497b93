----------------------------- MODULE RunScreen -----------------------------
(***************************************************************************)
(* The screen of one sitting, web/src/features/review/RunPage.tsx, with    *)
(* the run in the query cache (setQueries.ts) and what the handlers of     *)
(* internal/api/reviewsets.go do with its answers; module ReviewRuns has   *)
(* those handlers in full.                                                 *)
(*                                                                         *)
(* The run is fetched once and held still: what the screen asks comes from *)
(* that copy and a position of its own, what has been answered is in the   *)
(* log.  Another tab may answer or finish the same run, and cards may be   *)
(* deleted under it.                                                       *)
(***************************************************************************)
EXTENDS Naturals, FiniteSets

CONSTANTS
    Total,      \* questions of the run
    Choices,    \* the questions asked as multiple choice
    Marks,      \* a rating or an option, whichever is given
    None,       \* no answer; also no run in the cache
    Requests,   \* answers on their way at once
    Nobody      \* no answer is awaited

Questions == 1..Total

ASSUME TotalAssumption == Total \in Nat \ {0} /\ Choices \subseteq Questions
ASSUME NullAssumption == None \notin Marks /\ Nobody \notin Requests

VARIABLES
    answers, finished, gone,    \* review_logs, finished_at, deleted cards
    cached, invalid,            \* the run query, and whether it is invalidated
    index,                      \* the position on the screen; 0: not mounted
    step, result,               \* of the question shown, and what it was told
    awaited, request,           \* the mutation it observes; answers on their way
    finishing,                  \* the finish mutation
    submitted, rivals,          \* observers: questions answered; more than once
    before, gaps                \* observers: answered before this visit; it
                                \* began with an old copy, or they have gaps

server == <<answers, finished, gone>>
cache == <<cached, invalid>>
question == <<step, result, awaited>>
screen == <<index, question, gaps, before>>
vars == <<server, cache, screen, request, finishing, submitted, rivals>>

-----------------------------------------------------------------------------
Copy == [rated: SUBSET Questions, missing: SUBSET Questions, finished: BOOLEAN]

ASSUME NoCopyAssumption == None \notin Copy

Answered == {q \in Questions : answers[q] # None}
Detail == [rated |-> Answered, missing |-> gone, finished |-> finished]

Free == [pc |-> "free"]
Request == {Free}
    \cup [pc: {"sent"}, q: Questions, mark: Marks, heard: BOOLEAN]
    \cup [pc: {"stored"}, q: Questions, mark: Marks]

TypeOK ==
    /\ answers \in [Questions -> Marks \cup {None}]
    /\ finished \in BOOLEAN /\ gone \subseteq Questions
    /\ cached \in Copy \cup {None} /\ invalid \in BOOLEAN
    /\ index \in 0..(Total + 1)
    /\ step \in {"front", "revealing", "revealed", "refused", "result"}
    /\ result \in Marks \cup {None}
    /\ awaited \in Requests \cup {Nobody} /\ request \in [Requests -> Request]
    /\ finishing \in {"idle", "sent", "stored"}
    /\ submitted \subseteq Questions /\ rivals \subseteq submitted
    /\ before \subseteq Questions /\ gaps \in BOOLEAN

Init ==
    /\ answers = [q \in Questions |-> None] /\ finished = FALSE /\ gone = {}
    /\ cached = None /\ invalid = FALSE
    /\ index = 0 /\ step = "front" /\ result = None /\ awaited = Nobody
    /\ request = [r \in Requests |-> Free] /\ finishing = "idle"
    /\ submitted = {} /\ rivals = {} /\ before = {} /\ gaps = FALSE

-----------------------------------------------------------------------------
(* What is on the screen.                                                  *)

(* The slip: a run is resumed at its first question.                       *)
FirstQuestion(copy) == 1
FirstUnanswered(copy) ==
    IF copy.rated = Questions THEN 1
    ELSE CHOOSE q \in Questions \ copy.rated : 1..(q - 1) \subseteq copy.rated

Sitting == index > 0 /\ ~ cached.finished
OffersFinish == Sitting /\ (cached.rated = Questions \/ index > Total)
Asks(q) == Sitting /\ ~ OffersFinish /\ index = q
(* A question whose card was gone when the run was fetched.  The slips: on *)
(* any page; never.                                                        *)
SkippableAnywhere(q) == Sitting /\ q \in cached.missing
NeverSkippable(q) == FALSE
Skippable(q) == Asks(q) /\ q \in cached.missing
Asking(q) == Asks(q) /\ q \notin cached.missing
Recalling(q) == Asking(q) /\ q \notin Choices
Choosing(q) == Asking(q) /\ q \in Choices

(* Each question is mounted anew.  The slip: what the last one was told    *)
(* stays.                                                                  *)
Kept == UNCHANGED <<step, result>> /\ awaited' = Nobody
Remounted == step' = "front" /\ result' = None /\ awaited' = Nobody

Unheard == [r \in Requests |->
    CASE request[r].pc = "sent" -> [request[r] EXCEPT !.heard = FALSE]
      [] OTHER -> Free]

Mount(copy) ==
    /\ cached' = copy
    /\ index' = FirstUnanswered(copy)
    /\ step' = "front" /\ result' = None /\ awaited' = Nobody
    /\ before' = Answered
    /\ gaps' = (copy.rated # Answered \/ \A n \in 0..Total : Answered # 1..n)

(* The button of the set: the run in progress is handed back, and its      *)
(* detail replaces the copy.                                               *)
Begin ==
    /\ index = 0 /\ ~ finished
    /\ Mount(Detail) /\ invalid' = FALSE
    /\ UNCHANGED <<server, request, finishing, submitted, rivals>>

(* Back to the run's address: the copy is used if there is one.            *)
Return ==
    /\ index = 0
    /\ \/ cached # None /\ Mount(cached) /\ UNCHANGED invalid
       \/ cached = None /\ Mount(Detail) /\ invalid' = FALSE
    /\ UNCHANGED <<server, request, finishing, submitted, rivals>>

Refetch ==
    /\ index > 0 /\ invalid
    /\ cached' = Detail /\ invalid' = FALSE
    /\ UNCHANGED <<server, screen, request, finishing, submitted, rivals>>

Leave ==
    /\ index > 0
    /\ index' = 0 /\ Remounted
    /\ request' = Unheard
    /\ UNCHANGED <<server, cache, finishing, before, gaps, submitted, rivals>>

(* The copy is dropped some time after, or with the page.                  *)
Forget ==
    /\ index = 0 /\ cached # None
    /\ cached' = None /\ invalid' = FALSE
    /\ UNCHANGED <<server, screen, request, finishing, submitted, rivals>>

Advance == index' = index + 1 /\ Remounted

Skip(q) ==
    /\ Skippable(q)
    /\ index' = index + 1 /\ Remounted
    /\ UNCHANGED <<server, cache, before, gaps, request, finishing, submitted, rivals>>

-----------------------------------------------------------------------------
(* Answering.                                                              *)

Reveal(q) ==
    /\ Recalling(q) /\ step = "front" /\ step' = "revealing"
    /\ UNCHANGED <<server, cache, index, result, awaited, before, gaps,
                   request, finishing, submitted, rivals>>

(* The back of a deleted card is a 404.                                    *)
RevealLands(q) ==
    /\ Recalling(q) /\ step = "revealing"
    /\ step' = IF q \in gone THEN "refused" ELSE "revealed"
    /\ UNCHANGED <<server, cache, index, result, awaited, before, gaps,
                   request, finishing, submitted, rivals>>

(* A failed reveal is fetched again when the browser comes back online.    *)
RevealAgain(q) ==
    /\ Recalling(q) /\ step = "refused" /\ step' = "revealing"
    /\ UNCHANGED <<server, cache, index, result, awaited, before, gaps,
                   request, finishing, submitted, rivals>>

Counted(q) == submitted' = submitted \cup {q}
              /\ rivals' = rivals \cup (submitted \cap {q})

Submit(q) ==
    /\ \/ Recalling(q) /\ step = "revealed"
       \/ Choosing(q) /\ step = "front"
    /\ awaited = Nobody
    /\ \E r \in Requests, mark \in Marks :
          /\ request[r] = Free
          /\ request' = [request EXCEPT ![r] =
                 [pc |-> "sent", q |-> q, mark |-> mark, heard |-> TRUE]]
          /\ awaited' = r
    /\ Counted(q)
    /\ UNCHANGED <<server, cache, index, step, result, before, gaps, finishing>>

(* The first answer of a question stays; every one is told that it is the  *)
(* answer.  A finished run takes none.                                     *)
Insert(r) ==
    /\ request[r].pc = "sent" /\ ~ finished
    /\ answers' = [answers EXCEPT ![request[r].q] = IF @ = None THEN request[r].mark ELSE @]
    /\ request' = [request EXCEPT ![r] =
           IF @.heard THEN [pc |-> "stored", q |-> @.q, mark |-> @.mark] ELSE Free]
    /\ UNCHANGED <<finished, gone, cache, screen, finishing, submitted, rivals>>

(* The screen moves on only now.                                           *)
Succeeds(r) ==
    /\ request[r].pc = "stored" /\ awaited = r
    /\ request' = [request EXCEPT ![r] = Free]
    /\ IF request[r].q \in Choices
       THEN step' = "result" /\ result' = request[r].mark /\ awaited' = Nobody
            /\ UNCHANGED index
       ELSE Advance
    /\ UNCHANGED <<server, cache, before, gaps, finishing, submitted, rivals>>

ShowNext(q) ==
    /\ Choosing(q) /\ step = "result"
    /\ Advance
    /\ UNCHANGED <<server, cache, before, gaps, request, finishing, submitted, rivals>>

(* Refused, unreachable, or the answer lost; nothing moves.  The slip: the *)
(* screen moves on.                                                        *)
MovesOn(q) == Advance
StaysPut(q) == UNCHANGED <<index, step, result>> /\ awaited' = Nobody

Fails(r) ==
    /\ request[r] # Free
    /\ request' = [request EXCEPT ![r] = Free]
    /\ IF awaited = r THEN StaysPut(request[r].q)
       ELSE UNCHANGED <<index, question>>
    /\ UNCHANGED <<server, cache, before, gaps, finishing, submitted, rivals>>

-----------------------------------------------------------------------------
(* Finishing.                                                              *)

PressFinish ==
    /\ OffersFinish /\ finishing = "idle" /\ finishing' = "sent"
    /\ UNCHANGED <<server, cache, screen, request, submitted, rivals>>

Finish ==
    /\ finishing = "sent" /\ finishing' = "stored"
    /\ finished' = TRUE
    /\ UNCHANGED <<answers, gone, cache, screen, request, submitted, rivals>>

(* Also after the screen was left.                                         *)
FinishSucceeds ==
    /\ finishing = "stored" /\ finishing' = "idle"
    /\ invalid' = (cached # None)
    /\ UNCHANGED <<server, cached, screen, request, submitted, rivals>>

FinishFails ==
    /\ finishing # "idle" /\ finishing' = "idle"
    /\ UNCHANGED <<server, cache, screen, request, submitted, rivals>>

-----------------------------------------------------------------------------
(* Elsewhere.                                                              *)

OtherTabAnswers(q) ==
    /\ answers[q] = None /\ ~ finished
    /\ \E mark \in Marks : answers' = [answers EXCEPT ![q] = mark]
    /\ Counted(q)
    /\ UNCHANGED <<finished, gone, cache, screen, request, finishing>>

OtherTabFinishes ==
    /\ ~ finished /\ finished' = TRUE
    /\ UNCHANGED <<answers, gone, cache, screen, request, finishing, submitted, rivals>>

Delete(q) ==
    /\ q \notin gone /\ gone' = gone \cup {q}
    /\ UNCHANGED <<answers, finished, cache, screen, request, finishing, submitted, rivals>>

Restore(q) ==
    /\ q \in gone /\ gone' = gone \ {q}
    /\ UNCHANGED <<answers, finished, cache, screen, request, finishing, submitted, rivals>>

Next ==
    \/ Begin \/ Return \/ Refetch \/ Leave \/ Forget
    \/ PressFinish \/ Finish \/ FinishSucceeds \/ FinishFails \/ OtherTabFinishes
    \/ \E q \in Questions :
          \/ Skip(q) \/ Reveal(q) \/ RevealLands(q) \/ RevealAgain(q) \/ Submit(q)
          \/ ShowNext(q) \/ OtherTabAnswers(q) \/ Delete(q) \/ Restore(q)
    \/ \E r \in Requests : Insert(r) \/ Succeeds(r) \/ Fails(r)

Spec == Init /\ [][Next]_vars

(* Steps of the screen, the server and the person that lead on, leaving a  *)
(* question whose card is gone to begin again among them.                  *)
Onward ==
    \/ Begin \/ PressFinish \/ Finish
    \/ \E q \in Questions :
          \/ Skip(q) \/ Reveal(q) \/ RevealLands(q) \/ Submit(q) \/ ShowNext(q)
          \/ Recalling(q) /\ step = "refused" /\ Leave
    \/ \E r \in Requests : Insert(r) \/ Succeeds(r)

FairSpec == Spec /\ WF_vars(Onward)

-----------------------------------------------------------------------------
(* The finish is offered only when every question has its answer in the    *)
(* log or was found deleted, whatever was lost on the way there.           *)
NothingLeftToAnswer ==
    OffersFinish => Questions \ cached.missing \subseteq Answered

(* What the screen says of an answer is what the log holds for the         *)
(* question it asks, unless that was answered more than once: then the     *)
(* first stays and the last is told its own (RunPage.tsx:93-95,            *)
(* reviewsets.go:1074).                                                    *)
ResultIsRecorded ==
    index \in Questions \ rivals /\ result # None => answers[index] = result

(* What was answered before this visit is not asked again, unless it began *)
(* with an old copy, or a deleted card or another tab had left a gap       *)
(* between the answers (RunPage.tsx:49-52).                                *)
NotAskedAgain ==
    \A q \in Questions : Asks(q) /\ ~ gaps => q \notin before

(* A question on the screen leads on: it can be skipped, or its answer is   *)
(* on its way, or nothing is awaited and the step it stands at is one of   *)
(* its own kind, so that its buttons are the ones that answer it.  A back  *)
(* that was refused waits to be fetched again (RunPage.tsx:93-99, 142-276).*)
LeadsOn ==
    Sitting /\ ~ OffersFinish =>
        \/ Skippable(index)
        \/ awaited # Nobody /\ request[awaited] # Free /\ request[awaited].q = index
        \/ awaited = Nobody /\ Choosing(index) /\ step \in {"front", "result"}
        \/ awaited = Nobody /\ Recalling(index)
              /\ step \in {"front", "revealing", "revealed", "refused"}

(* Nothing a run has run into keeps it from being finished: not an answer  *)
(* lost, nor a card deleted under the question that asks for it.  From     *)
(* some time on answers get through, cards are not restored, and the       *)
(* person stays, begins with the set's button and does not wait for a      *)
(* refused answer to be fetched again.                                     *)
Disturbs ==
    \/ Return \/ FinishFails \/ (Leave /\ step # "refused")
    \/ \E q \in Questions : Restore(q) \/ RevealAgain(q)
    \/ \E r \in Requests : Fails(r)

RunGetsFinished == <>[][~ Disturbs]_vars => <>finished
=============================================================================
