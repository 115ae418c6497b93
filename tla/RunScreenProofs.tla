-------------------------- MODULE RunScreenProofs --------------------------
(* Proofs about RunScreen, for any number of questions, marks and answers  *)
(* on their way, and any choice of which questions are multiple choice.    *)
EXTENDS RunScreen, WellFoundedInduction, TLAPS

-----------------------------------------------------------------------------
(* The inductive invariant.                                                *)

(* A copy may be old: it knows no answer that the log does not hold.       *)
CopyIsOld == cached # None => cached.rated \subseteq Answered

(* Behind the position everything is answered, or was found deleted.       *)
PassedIsAnswered ==
    /\ index > 0 => cached # None
    /\ index > 0 /\ ~ cached.finished =>
          1..(index - 1) \subseteq Answered \cup cached.missing

(* A copy is fetched under an open screen only once the run is finished.   *)
InvalidIsFinished ==
    /\ invalid => finished
    /\ finishing = "stored" => finished

(* The answer that is awaited is one to the question on the screen.        *)
AwaitedIsShown ==
    awaited # Nobody =>
        /\ request[awaited] # Free /\ request[awaited].q = index
        /\ request[awaited].pc = "sent" => request[awaited].heard

ShownIsAnswered ==
    step = "result" => index \in Questions /\ index \in Answered

(* What an answer on its way is worth, unless its question was answered    *)
(* more than once.                                                         *)
Worth(r) ==
    LET this == request[r]
    IN  /\ this.q \in submitted
        /\ this.pc = "stored" => this.q \in Answered
        /\ this.q \notin rivals =>
              /\ this.pc = "sent" => answers[this.q] = None
              /\ this.pc = "stored" => answers[this.q] = this.mark
EachIsWorth == \A r \in Requests : request[r] # Free => Worth(r)

OneEach ==
    \A r, s \in Requests :
        request[r] # Free /\ request[s] # Free /\ r # s
          /\ request[r].q = request[s].q => request[r].q \in rivals

AnsweredWereSubmitted == Answered \subseteq submitted

(* What was answered before this visit is behind, unless all of it was.    *)
BeforeIsBehind ==
    index > 0 /\ ~ gaps /\ ~ cached.finished =>
        cached.rated = Questions \/ \A q \in before : q < index

(* A step belongs to the kind of question that is on the screen.           *)
StepFits ==
    /\ step = "result" => index \in Choices
    /\ step \in {"revealing", "revealed", "refused"} => index \notin Choices

ScreenInv ==
    /\ CopyIsOld /\ PassedIsAnswered /\ InvalidIsFinished
    /\ AwaitedIsShown /\ ShownIsAnswered
LogInv ==
    EachIsWorth /\ OneEach /\ AnsweredWereSubmitted /\ ResultIsRecorded

IInv == TypeOK /\ ScreenInv /\ BeforeIsBehind /\ LogInv /\ StepFits

-----------------------------------------------------------------------------
(* Shapes.                                                                 *)

LEMMA RequestShape ==
    ASSUME NEW x \in Request, x # Free
    PROVE  /\ x.pc \in {"sent", "stored"}
           /\ x.q \in Questions /\ x.mark \in Marks
           /\ x.pc = "sent" =>
                 /\ x = [pc |-> "sent", q |-> x.q, mark |-> x.mark, heard |-> x.heard]
                 /\ x.heard \in BOOLEAN
  BY DEF Request, Free

LEMMA DetailIsSound ==
    ASSUME TypeOK
    PROVE  Detail \in Copy /\ Detail # None /\ Detail.rated = Answered
           /\ Answered \subseteq Questions
<1>1. Answered \subseteq Questions /\ gone \subseteq Questions /\ finished \in BOOLEAN
  BY DEF TypeOK, Answered
<1>2. Detail \in Copy
  BY <1>1 DEF Detail, Copy
<1>. QED BY <1>1, <1>2, NoCopyAssumption DEF Detail

LEMMA LeastQuestion ==
    ASSUME NEW S, S \subseteq Questions, S # {}
    PROVE  \E q \in S : \A p \in S : ~ (p < q)
<1> DEFINE R == {ss \in Nat \X Nat : ss[1] < ss[2]}
<1>1. S \subseteq Nat
  BY TotalAssumption DEF Questions
<1>2. IsWellFoundedOn(R, Nat)
  BY NatLessThanWellFounded DEF OpToRel
<1>3. PICK q \in S : \A p \in S : ~ (<<p, q>> \in R)
  <2>1. IsWellFoundedOn(R, S)
    BY <1>1, <1>2, IsWellFoundedOnSubset, Zenon
  <2>. HIDE DEF R
  <2>. QED BY <2>1, WFMin, Zenon
<1>. QED BY <1>1, <1>3

(* A run is resumed at its first open question, or at its first when there *)
(* is none.                                                                *)
LEMMA FirstUnansweredIs ==
    ASSUME NEW copy \in Copy
    PROVE  /\ FirstUnanswered(copy) \in Questions
           /\ 1..(FirstUnanswered(copy) - 1) \subseteq copy.rated
           /\ copy.rated # Questions => FirstUnanswered(copy) \notin copy.rated
<1>1. CASE copy.rated = Questions
  BY <1>1, TotalAssumption DEF FirstUnanswered, Questions
<1>2. CASE copy.rated # Questions
  <2>1. copy.rated \subseteq Questions
    BY DEF Copy
  <2>2. \E q \in Questions \ copy.rated : 1..(q - 1) \subseteq copy.rated
    <3>1. PICK q \in Questions \ copy.rated :
              \A p \in Questions \ copy.rated : ~ (p < q)
      BY <1>2, <2>1, LeastQuestion
    <3>2. 1..(q - 1) \subseteq copy.rated
      BY <3>1, TotalAssumption DEF Questions
    <3>. QED BY <3>2
  <2>. QED BY <1>2, <2>2 DEF FirstUnanswered
<1>. QED BY <1>1, <1>2

-----------------------------------------------------------------------------
(* Type correctness.                                                       *)

LEMMA MountTyped ==
    ASSUME TypeOK, NEW copy \in Copy, Mount(copy)
    PROVE  /\ cached' = copy /\ index' \in Questions /\ step' = "front"
           /\ result' = None /\ awaited' = Nobody
           /\ before' \subseteq Questions /\ gaps' \in BOOLEAN
  BY FirstUnansweredIs, DetailIsSound DEF Mount, TypeOK

LEMMA TypeStep == TypeOK /\ AwaitedIsShown /\ [Next]_vars => TypeOK'
<1>. SUFFICES ASSUME TypeOK, AwaitedIsShown, [Next]_vars PROVE TypeOK'
  OBVIOUS
<1>. USE TotalAssumption DEF TypeOK
<1>1. CASE UNCHANGED vars
  BY <1>1 DEF vars, server, cache, screen, question
<1>2. CASE Begin
  <2>1. Mount(Detail) /\ UNCHANGED <<server, request, finishing, submitted, rivals>>
        /\ invalid' \in BOOLEAN
    BY <1>2 DEF Begin
  <2>2. /\ cached' \in Copy /\ index' \in Questions /\ step' = "front"
        /\ result' = None /\ awaited' = Nobody
        /\ before' \subseteq Questions /\ gaps' \in BOOLEAN
    BY <2>1, DetailIsSound, MountTyped
  <2>. QED BY <2>1, <2>2 DEF server, Questions
<1>3. CASE Return
  <2>1. cached' \in Copy /\ Mount(cached')
    BY <1>3, DetailIsSound DEF Return, Mount
  <2>2. /\ cached' \in Copy /\ index' \in Questions /\ step' = "front"
        /\ result' = None /\ awaited' = Nobody
        /\ before' \subseteq Questions /\ gaps' \in BOOLEAN
    BY <2>1, MountTyped
  <2>3. UNCHANGED <<server, request, finishing, submitted, rivals>>
        /\ invalid' \in BOOLEAN
    BY <1>3 DEF Return
  <2>. QED BY <2>2, <2>3 DEF server, Questions
<1>4. CASE Refetch
  BY <1>4, DetailIsSound DEF Refetch, server, screen, question
<1>5. CASE Leave
  <2>1. Unheard \in [Requests -> Request]
    <3>1. ASSUME NEW r \in Requests
          PROVE  Unheard[r] \in Request
      <4>1. CASE request[r].pc = "sent"
        <5>1. Unheard[r] = [request[r] EXCEPT !.heard = FALSE]
          BY <4>1 DEF Unheard
        <5>. QED BY <4>1, <5>1, RequestShape DEF Request, Free
      <4>2. CASE request[r].pc # "sent"
        BY <4>2 DEF Unheard, Request
      <4>. QED BY <4>1, <4>2
    <3>. QED BY <3>1 DEF Unheard
  <2>. QED BY <1>5, <2>1 DEF Leave, Remounted, server, cache
<1>6. CASE Forget
  BY <1>6 DEF Forget, server, screen, question
<1>7. CASE PressFinish \/ Finish \/ FinishSucceeds \/ FinishFails \/ OtherTabFinishes
  BY <1>7 DEF PressFinish, Finish, FinishSucceeds, FinishFails, OtherTabFinishes,
              server, cache, screen, question
<1>8. ASSUME NEW q \in Questions, Skip(q) \/ ShowNext(q)
      PROVE  TypeOK'
  <2>1. index = q /\ index' = index + 1 /\ Remounted
    BY <1>8 DEF Skip, ShowNext, Skippable, Choosing, Asking, Asks, Advance
  <2>2. index' \in 0..(Total + 1)
    BY <2>1 DEF Questions
  <2>3. UNCHANGED <<server, cache, before, gaps, request, finishing, submitted, rivals>>
    BY <1>8 DEF Skip, ShowNext
  <2>. QED BY <2>1, <2>2, <2>3 DEF Remounted, server, cache
<1>9. ASSUME NEW q \in Questions, Reveal(q) \/ RevealLands(q) \/ RevealAgain(q)
      PROVE  TypeOK'
  BY <1>9 DEF Reveal, RevealLands, RevealAgain, server, cache
<1>10. ASSUME NEW q \in Questions, Submit(q)
       PROVE  TypeOK'
  BY <1>10 DEF Submit, Counted, Request, server, cache
<1>11. ASSUME NEW q \in Questions, OtherTabAnswers(q)
       PROVE  TypeOK'
  BY <1>11 DEF OtherTabAnswers, Counted, cache, screen, question
<1>12. ASSUME NEW q \in Questions, Delete(q) \/ Restore(q)
       PROVE  TypeOK'
  BY <1>12 DEF Delete, Restore, cache, screen, question
<1>13. ASSUME NEW r \in Requests, Insert(r)
       PROVE  TypeOK'
  <2>1. request[r] # Free
    BY <1>13 DEF Insert, Free
  <2>2. request' \in [Requests -> Request]
    BY <1>13, <2>1, RequestShape DEF Insert, Request, Free
  <2>3. answers' \in [Questions -> Marks \cup {None}]
    BY <1>13, <2>1, RequestShape DEF Insert
  <2>. QED BY <1>13, <2>2, <2>3 DEF Insert, cache, screen, question
<1>14. ASSUME NEW r \in Requests, Succeeds(r)
       PROVE  TypeOK'
  <2>1. request[r] # Free /\ request[r].mark \in Marks
    BY <1>14, RequestShape DEF Succeeds, Free
  <2>2. request' \in [Requests -> Request]
    BY <1>14 DEF Succeeds, Request
  <2>3. index \in Questions /\ index + 1 \in 0..(Total + 1)
    BY <1>14, <2>1, RequestShape, NullAssumption DEF Succeeds, AwaitedIsShown, Questions
  <2>4. UNCHANGED <<server, cache, before, gaps, finishing, submitted, rivals>>
        /\ step' \in {"front", "result"} /\ result' \in Marks \cup {None}
        /\ awaited' = Nobody /\ index' \in {index, index + 1}
    BY <1>14, <2>1 DEF Succeeds, Advance, Remounted
  <2>. QED BY <2>2, <2>3, <2>4 DEF server, cache
<1>15. ASSUME NEW r \in Requests, Fails(r)
       PROVE  TypeOK'
  <2>1. request' \in [Requests -> Request]
    BY <1>15 DEF Fails, Request
  <2>. QED BY <1>15, <2>1 DEF Fails, StaysPut, question, server, cache
<1>. QED
  BY <1>1, <1>2, <1>3, <1>4, <1>5, <1>6, <1>7, <1>8, <1>9, <1>10, <1>11, <1>12,
     <1>13, <1>14, <1>15 DEF Next

-----------------------------------------------------------------------------
(* The screen.                                                             *)

LEMMA MountSound ==
    ASSUME TypeOK, NEW copy \in Copy, copy # None, copy.rated \subseteq Answered,
           Mount(copy), UNCHANGED <<server, request, finishing>>,
           invalid' => invalid \/ finished, InvalidIsFinished
    PROVE  ScreenInv'
<1>1. Answered' = Answered /\ finished' = finished
  BY DEF Answered, server
<1>2. cached' = copy /\ index' = FirstUnanswered(copy) /\ step' = "front"
      /\ awaited' = Nobody
  BY DEF Mount
<1>3. CopyIsOld' /\ PassedIsAnswered'
  BY <1>1, <1>2, FirstUnansweredIs DEF CopyIsOld, PassedIsAnswered
<1>4. InvalidIsFinished' /\ AwaitedIsShown' /\ ShownIsAnswered'
  BY <1>1, <1>2 DEF InvalidIsFinished, AwaitedIsShown, ShownIsAnswered
<1>. QED BY <1>3, <1>4 DEF ScreenInv

(* Answers are only ever added.                                            *)
LEMMA AnswersGrow ==
    ASSUME TypeOK, [Next]_vars
    PROVE  /\ Answered \subseteq Answered'
           /\ finished => finished'
<1>1. CASE \E r \in Requests : Insert(r)
  BY <1>1 DEF Insert, Answered, TypeOK
<1>2. CASE \E q \in Questions : OtherTabAnswers(q)
  BY <1>2, NullAssumption DEF OtherTabAnswers, Answered, TypeOK
<1>3. CASE Finish \/ OtherTabFinishes
  BY <1>3 DEF Finish, OtherTabFinishes, Answered
<1>4. CASE UNCHANGED <<answers, finished>>
  BY <1>4 DEF Answered
<1>5. UNCHANGED <<answers, finished>> \/ (\E r \in Requests : Insert(r))
      \/ (\E q \in Questions : OtherTabAnswers(q)) \/ Finish \/ OtherTabFinishes
  BY DEF Next, vars, server, Begin, Return, Refetch, Leave, Forget, PressFinish,
         FinishSucceeds, FinishFails, Skip, Reveal, RevealLands, RevealAgain, Submit,
         ShowNext, Delete, Restore, Succeeds, Fails
<1>. QED BY <1>1, <1>2, <1>3, <1>4, <1>5

(* Moving on from a question that is answered or was found deleted.        *)
LEMMA AdvanceSound ==
    ASSUME TypeOK, ScreenInv, [Next]_vars, index \in Questions,
           index \in Answered \cup cached.missing,
           Advance, UNCHANGED <<cache, finished, finishing>>
    PROVE  ScreenInv'
<1>1. index' = index + 1 /\ step' = "front" /\ awaited' = Nobody
  BY DEF Advance, Remounted
<1>2. UNCHANGED <<cached, invalid, finished, finishing>>
  BY DEF cache
<1>3. CopyIsOld'
  BY <1>2, AnswersGrow DEF ScreenInv, CopyIsOld
<1>4. PassedIsAnswered'
  <2>1. index \in Nat /\ index > 0 /\ 1..(index' - 1) = 1..(index - 1) \cup {index}
    BY <1>1, TotalAssumption DEF Questions
  <2>. QED BY <1>1, <1>2, <2>1, AnswersGrow DEF ScreenInv, PassedIsAnswered
<1>5. InvalidIsFinished' /\ AwaitedIsShown' /\ ShownIsAnswered'
  BY <1>1, <1>2 DEF ScreenInv, InvalidIsFinished, AwaitedIsShown, ShownIsAnswered
<1>. QED BY <1>3, <1>4, <1>5 DEF ScreenInv

LEMMA ScreenStep ==
    ASSUME TypeOK, ScreenInv, LogInv, [Next]_vars
    PROVE  ScreenInv'
<1>. USE DEF ScreenInv
<1>1. CASE UNCHANGED vars
  BY <1>1 DEF vars, server, cache, screen, question, CopyIsOld, PassedIsAnswered,
              InvalidIsFinished, AwaitedIsShown, ShownIsAnswered, Answered
<1>2. CASE Begin
  BY <1>2, DetailIsSound, MountSound DEF Begin
<1>3. CASE Return
  <2>1. CASE cached # None /\ Mount(cached) /\ UNCHANGED invalid
    BY <1>3, <2>1, MountSound DEF Return, TypeOK, CopyIsOld
  <2>2. CASE cached = None /\ Mount(Detail) /\ invalid' = FALSE
    BY <1>3, <2>2, DetailIsSound, MountSound DEF Return
  <2>. QED BY <1>3, <2>1, <2>2 DEF Return
<1>4. CASE Refetch
  <2>1. finished /\ cached' = Detail /\ Detail.finished
    BY <1>4 DEF Refetch, InvalidIsFinished, Detail
  <2>2. UNCHANGED <<answers, finished, finishing, index, step, awaited, request>>
        /\ invalid' = FALSE
    BY <1>4 DEF Refetch, server, screen, question
  <2>. QED BY <2>1, <2>2, DetailIsSound
           DEF CopyIsOld, PassedIsAnswered, InvalidIsFinished, AwaitedIsShown,
               ShownIsAnswered, Answered
<1>5. CASE Leave
  BY <1>5, AnswersGrow DEF Leave, Remounted, server, cache, CopyIsOld,
     PassedIsAnswered, InvalidIsFinished, AwaitedIsShown, ShownIsAnswered
<1>6. CASE Forget
  BY <1>6 DEF Forget, server, screen, question, CopyIsOld, PassedIsAnswered,
     InvalidIsFinished, AwaitedIsShown, ShownIsAnswered, Answered
<1>7. CASE PressFinish \/ Finish \/ FinishSucceeds \/ FinishFails \/ OtherTabFinishes
  <2>1. UNCHANGED <<answers, cached, index, step, awaited, request>>
    BY <1>7 DEF PressFinish, Finish, FinishSucceeds, FinishFails, OtherTabFinishes,
                server, cache, screen, question
  <2>2. InvalidIsFinished'
    BY <1>7 DEF PressFinish, Finish, FinishSucceeds, FinishFails, OtherTabFinishes,
                server, cache, InvalidIsFinished
  <2>. QED BY <2>1, <2>2 DEF CopyIsOld, PassedIsAnswered, AwaitedIsShown,
                             ShownIsAnswered, Answered
<1>8. ASSUME NEW q \in Questions, Skip(q) \/ ShowNext(q)
      PROVE  ScreenInv'
  <2>1. index = q /\ Advance /\ UNCHANGED <<cache, finished, finishing>>
    BY <1>8 DEF Skip, ShowNext, Skippable, Choosing, Asking, Asks, Advance, server
  <2>2. q \in Answered \cup cached.missing
    BY <1>8, <2>1 DEF Skip, ShowNext, Skippable, ShownIsAnswered
  <2>. QED BY <2>1, <2>2, AdvanceSound
<1>9. ASSUME NEW q \in Questions, Reveal(q) \/ RevealLands(q) \/ RevealAgain(q)
      PROVE  ScreenInv'
  BY <1>9 DEF Reveal, RevealLands, RevealAgain, server, cache, CopyIsOld,
     PassedIsAnswered, InvalidIsFinished, AwaitedIsShown, ShownIsAnswered, Answered
<1>10. ASSUME NEW q \in Questions, Submit(q)
       PROVE  ScreenInv'
  <2>1. UNCHANGED <<server, cache, index, step, finishing>> /\ index = q
    BY <1>10 DEF Submit, Recalling, Choosing, Asking, Asks
  <2>2. AwaitedIsShown'
    BY <1>10, <2>1 DEF Submit, AwaitedIsShown, Free, TypeOK
  <2>. QED BY <2>1, <2>2 DEF server, cache, CopyIsOld, PassedIsAnswered,
                             InvalidIsFinished, ShownIsAnswered, Answered
<1>11. ASSUME NEW q \in Questions, OtherTabAnswers(q) \/ Delete(q) \/ Restore(q)
       PROVE  ScreenInv'
  <2>1. UNCHANGED <<finished, cached, invalid, index, step, awaited, request, finishing>>
    BY <1>11 DEF OtherTabAnswers, Delete, Restore, cache, screen, question
  <2>. QED BY <2>1, AnswersGrow
           DEF CopyIsOld, PassedIsAnswered, InvalidIsFinished, AwaitedIsShown,
               ShownIsAnswered
<1>12. ASSUME NEW r \in Requests, Insert(r)
       PROVE  ScreenInv'
  <2>1. UNCHANGED <<finished, cached, invalid, index, step, awaited, finishing>>
    BY <1>12 DEF Insert, cache, screen, question
  <2>2. AwaitedIsShown'
    BY <1>12, <2>1 DEF Insert, AwaitedIsShown, Free, TypeOK
  <2>. QED BY <2>1, <2>2, AnswersGrow
           DEF CopyIsOld, PassedIsAnswered, InvalidIsFinished, ShownIsAnswered
<1>13. ASSUME NEW r \in Requests, Succeeds(r)
       PROVE  ScreenInv'
  <2>1. request[r].q = index /\ index \in Questions /\ index \in Answered
    BY <1>13, NullAssumption, RequestShape
       DEF Succeeds, AwaitedIsShown, LogInv, EachIsWorth, Worth, Free, TypeOK
  <2>2. UNCHANGED <<cache, finished, finishing, answers>>
    BY <1>13 DEF Succeeds, server
  <2>3. CASE request[r].q \in Choices
    BY <1>13, <2>1, <2>2, <2>3
       DEF Succeeds, cache, CopyIsOld, PassedIsAnswered, InvalidIsFinished,
           AwaitedIsShown, ShownIsAnswered, Answered
  <2>4. CASE request[r].q \notin Choices
    BY <1>13, <2>1, <2>2, <2>4, AdvanceSound DEF Succeeds
  <2>. QED BY <2>3, <2>4
<1>14. ASSUME NEW r \in Requests, Fails(r)
       PROVE  ScreenInv'
  <2>1. UNCHANGED <<server, cached, invalid, finishing, index, step>>
        /\ awaited' \in {Nobody, awaited} /\ awaited' # r
    BY <1>14, NullAssumption DEF Fails, StaysPut, question, cache
  <2>2. AwaitedIsShown'
    BY <1>14, <2>1 DEF Fails, AwaitedIsShown, TypeOK
  <2>. QED BY <2>1, <2>2 DEF server, CopyIsOld, PassedIsAnswered, InvalidIsFinished,
                             ShownIsAnswered, Answered
<1>. QED
  BY <1>1, <1>2, <1>3, <1>4, <1>5, <1>6, <1>7, <1>8, <1>9, <1>10, <1>11, <1>12,
     <1>13, <1>14 DEF Next

LEMMA MountBehind ==
    ASSUME TypeOK, NEW copy \in Copy, Mount(copy)
    PROVE  BeforeIsBehind'
<1>. SUFFICES ASSUME ~ gaps', copy.rated # Questions, NEW q \in before'
              PROVE  q < index'
  BY DEF Mount, BeforeIsBehind
<1>1. before' = Answered /\ copy.rated = Answered /\ index' = FirstUnanswered(copy)
  BY DEF Mount
<1>2. PICK n \in 0..Total : Answered = 1..n
  BY DEF Mount
<1>3. index' \in Questions /\ index' \notin 1..n
  BY <1>1, <1>2, FirstUnansweredIs
<1>. QED BY <1>1, <1>2, <1>3, TotalAssumption DEF Questions

LEMMA BehindStep ==
    ASSUME TypeOK, ScreenInv, BeforeIsBehind, [Next]_vars
    PROVE  BeforeIsBehind'
<1>1. CASE Begin \/ Return
  <2>1. Mount(Detail) \/ (cached \in Copy /\ Mount(cached))
    BY <1>1 DEF Begin, Return, TypeOK
  <2>. QED BY <2>1, DetailIsSound, MountBehind
<1>2. CASE Refetch
  BY <1>2 DEF Refetch, Detail, ScreenInv, InvalidIsFinished, BeforeIsBehind
<1>3. CASE Leave
  BY <1>3 DEF Leave, BeforeIsBehind
<1>4. CASE Forget
  BY <1>4 DEF Forget, screen, BeforeIsBehind
<1>5. CASE /\ UNCHANGED <<cached, gaps, before>>
           /\ index' \in {index, index + 1} /\ index > 0
  BY <1>5, TotalAssumption DEF BeforeIsBehind, TypeOK, Questions
<1>6. CASE UNCHANGED <<cached, gaps, before, index>>
  BY <1>6 DEF BeforeIsBehind
<1>7. ASSUME NEW r \in Requests, Succeeds(r)
      PROVE  BeforeIsBehind'
  <2>1. index > 0
    BY <1>7, NullAssumption, RequestShape, TotalAssumption
       DEF Succeeds, ScreenInv, AwaitedIsShown, TypeOK, Questions
  <2>. QED BY <1>5, <1>7, <2>1 DEF Succeeds, Advance, cache
<1>8. ASSUME NEW q \in Questions, Skip(q) \/ ShowNext(q)
      PROVE  BeforeIsBehind'
  BY <1>5, <1>8 DEF Skip, ShowNext, Skippable, Choosing, Asking, Asks, Sitting,
                    Advance, cache
<1>9. Begin \/ Return \/ Refetch \/ Leave \/ Forget
      \/ UNCHANGED <<cached, gaps, before, index>>
      \/ (\E r \in Requests : Succeeds(r))
      \/ (\E q \in Questions : Skip(q) \/ ShowNext(q))
  BY DEF Next, vars, cache, screen, question, PressFinish, Finish, FinishSucceeds,
         FinishFails, OtherTabFinishes, Reveal, RevealLands, RevealAgain, Submit,
         OtherTabAnswers, Delete, Restore, Insert, Fails, StaysPut
<1>. QED BY <1>1, <1>2, <1>3, <1>4, <1>6, <1>7, <1>8, <1>9

-----------------------------------------------------------------------------
(* The log.                                                                *)

(* Requests that end, and a screen that shows no result or the same one.   *)
LEMMA LogFrame ==
    ASSUME TypeOK, LogInv, UNCHANGED <<answers, submitted, rivals>>,
           result' = None \/ UNCHANGED <<result, index>>,
           \A r \in Requests :
              request'[r] # Free =>
                 /\ request[r] # Free
                 /\ request'[r].pc = request[r].pc /\ request'[r].q = request[r].q
                 /\ request'[r].mark = request[r].mark
    PROVE  LogInv'
<1>1. Answered' = Answered
  BY DEF Answered
<1>2. EachIsWorth'
  BY <1>1 DEF LogInv, EachIsWorth, Worth
<1>3. OneEach'
  BY DEF LogInv, OneEach
<1>4. AnsweredWereSubmitted' /\ ResultIsRecorded'
  BY <1>1 DEF LogInv, AnsweredWereSubmitted, ResultIsRecorded
<1>. QED BY <1>2, <1>3, <1>4 DEF LogInv

LEMMA LogStep ==
    ASSUME TypeOK, ScreenInv, LogInv, [Next]_vars
    PROVE  LogInv'
<1>1. CASE UNCHANGED vars
  BY <1>1, LogFrame DEF vars, server, screen, question
<1>2. CASE Begin \/ Return
  <2>1. result' = None /\ UNCHANGED <<answers, request, submitted, rivals>>
    BY <1>2 DEF Begin, Return, Mount, server
  <2>. QED BY <2>1, LogFrame
<1>3. CASE Refetch \/ Forget \/ PressFinish \/ Finish \/ FinishSucceeds
           \/ FinishFails \/ OtherTabFinishes
  <2>1. UNCHANGED <<answers, result, index, request, submitted, rivals>>
    BY <1>3 DEF Refetch, Forget, PressFinish, Finish, FinishSucceeds, FinishFails,
                OtherTabFinishes, server, screen, question
  <2>. QED BY <2>1, LogFrame
<1>4. CASE Leave
  <2>1. result' = None /\ UNCHANGED <<answers, submitted, rivals>> /\ request' = Unheard
    BY <1>4 DEF Leave, Remounted, server
  <2>2. ASSUME NEW r \in Requests, Unheard[r] # Free
        PROVE  /\ request[r] # Free
               /\ Unheard[r].pc = request[r].pc /\ Unheard[r].q = request[r].q
               /\ Unheard[r].mark = request[r].mark
    <3>1. request[r].pc = "sent" /\ Unheard[r] = [request[r] EXCEPT !.heard = FALSE]
      BY <2>2 DEF Unheard
    <3>2. request[r] # Free
      BY <3>1 DEF Free
    <3>. QED BY <3>1, <3>2, RequestShape DEF TypeOK
  <2>. QED BY <2>1, <2>2, LogFrame
<1>5. ASSUME NEW q \in Questions,
             Skip(q) \/ ShowNext(q) \/ Reveal(q) \/ RevealLands(q) \/ RevealAgain(q)
             \/ Delete(q) \/ Restore(q)
      PROVE  LogInv'
  <2>1. UNCHANGED <<answers, request, submitted, rivals>>
        /\ (result' = None \/ UNCHANGED <<result, index>>)
    BY <1>5 DEF Skip, ShowNext, Reveal, RevealLands, RevealAgain, Delete, Restore,
                Advance, Remounted, server, screen, question
  <2>. QED BY <2>1, LogFrame
<1>6. ASSUME NEW q \in Questions, Submit(q)
      PROVE  LogInv'
  <2>1. PICK n \in Requests, mark \in Marks :
           /\ request[n] = Free
           /\ request' = [request EXCEPT ![n] =
                  [pc |-> "sent", q |-> q, mark |-> mark, heard |-> TRUE]]
    BY <1>6 DEF Submit
  <2>2. /\ UNCHANGED <<answers, index, result>> /\ Answered' = Answered
        /\ submitted' = submitted \cup {q}
        /\ rivals' = rivals \cup (submitted \cap {q})
    BY <1>6 DEF Submit, Counted, server, Answered
  <2>3. q \notin rivals' => q \notin Answered /\ answers[q] = None
    BY <2>2 DEF LogInv, AnsweredWereSubmitted, Answered
  <2>4. ASSUME NEW r \in Requests, request[r] # Free, r # n
        PROVE  request[r].q = q => q \in rivals'
    BY <2>2, <2>4 DEF LogInv, EachIsWorth, Worth
  <2>5. EachIsWorth'
    <3>1. ASSUME NEW r \in Requests, request'[r] # Free
          PROVE  Worth(r)'
      <4>1. CASE r = n
        BY <2>1, <2>2, <2>3, <4>1 DEF Worth, TypeOK
      <4>2. CASE r # n
        <5>1. request'[r] = request[r] /\ Worth(r)
          BY <2>1, <3>1, <4>2 DEF LogInv, EachIsWorth, TypeOK
        <5>. QED BY <2>2, <5>1 DEF Worth
      <4>. QED BY <4>1, <4>2
    <3>. QED BY <3>1 DEF EachIsWorth
  <2>6. OneEach'
    <3>1. ASSUME NEW r \in Requests, NEW s \in Requests, r # s,
                 request'[r] # Free, request'[s] # Free, request'[r].q = request'[s].q
          PROVE  request'[r].q \in rivals'
      BY <2>1, <2>2, <2>4, <3>1 DEF LogInv, OneEach, TypeOK
    <3>. QED BY <3>1 DEF OneEach
  <2>7. AnsweredWereSubmitted' /\ ResultIsRecorded'
    BY <2>2 DEF LogInv, AnsweredWereSubmitted, ResultIsRecorded
  <2>. QED BY <2>5, <2>6, <2>7 DEF LogInv
<1>7. ASSUME NEW q \in Questions, OtherTabAnswers(q)
      PROVE  LogInv'
  <2>1. PICK mark \in Marks : answers' = [answers EXCEPT ![q] = mark]
    BY <1>7 DEF OtherTabAnswers
  <2>2. /\ UNCHANGED <<request, index, result>> /\ answers[q] = None
        /\ submitted' = submitted \cup {q}
        /\ rivals' = rivals \cup (submitted \cap {q})
    BY <1>7 DEF OtherTabAnswers, Counted, screen, question
  <2>3. Answered' = Answered \cup {q}
    BY <2>1, NullAssumption DEF Answered, TypeOK
  <2>4. ASSUME NEW r \in Requests, request[r] # Free
        PROVE  Worth(r)'
    <3>1. Worth(r)
      BY <2>4 DEF LogInv, EachIsWorth
    <3>2. CASE request[r].q = q
      BY <2>2, <2>3, <3>1, <3>2 DEF Worth
    <3>3. CASE request[r].q # q
      BY <2>1, <2>2, <2>3, <3>1, <3>3 DEF Worth, TypeOK
    <3>. QED BY <3>2, <3>3
  <2>5. EachIsWorth' /\ OneEach' /\ AnsweredWereSubmitted'
    BY <2>2, <2>3, <2>4 DEF LogInv, EachIsWorth, OneEach, AnsweredWereSubmitted
  <2>6. ResultIsRecorded'
    BY <2>1, <2>2 DEF LogInv, ResultIsRecorded, TypeOK
  <2>. QED BY <2>5, <2>6 DEF LogInv
<1>8. ASSUME NEW r \in Requests, Insert(r)
      PROVE  LogInv'
  <2> DEFINE this == request[r]
  <2>1. /\ this # Free /\ this.pc = "sent" /\ this.q \in Questions /\ this.mark \in Marks
        /\ UNCHANGED <<index, result, submitted, rivals>>
        /\ answers' = [answers EXCEPT ![this.q] = IF @ = None THEN this.mark ELSE @]
        /\ \A s \in Requests \ {r} : request'[s] = request[s]
        /\ request'[r] # Free =>
              request'[r] = [pc |-> "stored", q |-> this.q, mark |-> this.mark]
    BY <1>8, RequestShape DEF Insert, Free, screen, question, TypeOK
  <2>2. Worth(r)
    BY <2>1 DEF LogInv, EachIsWorth
  <2>3. Answered' = Answered \cup {this.q}
    BY <2>1, NullAssumption DEF Answered, TypeOK
  <2>4. ASSUME NEW s \in Requests, request'[s] # Free
        PROVE  Worth(s)'
    <3>1. CASE s = r
      BY <2>1, <2>2, <2>3, <2>4, <3>1 DEF Worth, TypeOK
    <3>2. CASE s # r
      <4>1. Worth(s) /\ request'[s] = request[s]
        BY <2>1, <2>4, <3>2 DEF LogInv, EachIsWorth
      <4>2. CASE request[s].q = this.q
        <5>1. request[s].q \in rivals
          BY <2>1, <2>4, <3>2, <4>1, <4>2 DEF LogInv, OneEach
        <5>. QED BY <2>1, <2>3, <4>1, <5>1 DEF Worth
      <4>3. CASE request[s].q # this.q
        BY <2>1, <2>3, <4>1, <4>3 DEF Worth, TypeOK
      <4>. QED BY <4>2, <4>3
    <3>. QED BY <3>1, <3>2
  <2>5. OneEach'
    <3>1. \A s \in Requests : request'[s] # Free =>
              request[s] # Free /\ request'[s].q = request[s].q
      BY <2>1
    <3>. QED BY <2>1, <3>1 DEF LogInv, OneEach
  <2>6. EachIsWorth' /\ AnsweredWereSubmitted'
    BY <2>1, <2>2, <2>3, <2>4 DEF LogInv, EachIsWorth, AnsweredWereSubmitted, Worth
  <2>7. ResultIsRecorded'
    BY <2>1 DEF LogInv, ResultIsRecorded, TypeOK
  <2>. QED BY <2>5, <2>6, <2>7 DEF LogInv
<1>9. ASSUME NEW r \in Requests, Succeeds(r)
      PROVE  LogInv'
  <2>1. /\ request[r] # Free /\ request[r].q = index /\ request[r].pc = "stored"
        /\ request' = [request EXCEPT ![r] = Free]
        /\ UNCHANGED <<answers, submitted, rivals>>
    BY <1>9, NullAssumption DEF Succeeds, ScreenInv, AwaitedIsShown, server
  <2>2. CASE request[r].q \in Choices
    <3>1. result' = request[r].mark /\ index' = index
      BY <1>9, <2>2 DEF Succeeds
    <3>2. EachIsWorth' /\ OneEach' /\ AnsweredWereSubmitted'
      BY <2>1 DEF LogInv, EachIsWorth, OneEach, AnsweredWereSubmitted, Worth,
                  Answered, TypeOK
    <3>3. ResultIsRecorded'
      BY <2>1, <3>1 DEF LogInv, EachIsWorth, Worth, ResultIsRecorded
    <3>. QED BY <3>2, <3>3 DEF LogInv
  <2>3. CASE request[r].q \notin Choices
    BY <1>9, <2>1, <2>3, LogFrame DEF Succeeds, Advance, Remounted, TypeOK
  <2>. QED BY <2>2, <2>3
<1>10. ASSUME NEW r \in Requests, Fails(r)
       PROVE  LogInv'
  <2>1. /\ request' = [request EXCEPT ![r] = Free]
        /\ UNCHANGED <<answers, submitted, rivals, result, index>>
    BY <1>10 DEF Fails, StaysPut, question, server
  <2>. QED BY <2>1, LogFrame DEF TypeOK
<1>. QED
  BY <1>1, <1>2, <1>3, <1>4, <1>5, <1>6, <1>7, <1>8, <1>9, <1>10 DEF Next

LEMMA StepFitsStep ==
    ASSUME TypeOK, ScreenInv, StepFits, [Next]_vars
    PROVE  StepFits'
<1>. USE DEF StepFits
<1>1. CASE UNCHANGED <<index, step>>
  BY <1>1
<1>2. CASE step' = "front"
  BY <1>2
<1>3. ASSUME NEW q \in Questions, Reveal(q) \/ RevealLands(q) \/ RevealAgain(q)
      PROVE  StepFits'
  BY <1>3 DEF Reveal, RevealLands, RevealAgain, Recalling, Asking, Asks
<1>4. ASSUME NEW r \in Requests, Succeeds(r)
      PROVE  StepFits'
  <2>1. request[r].q = index
    BY <1>4, NullAssumption DEF Succeeds, ScreenInv, AwaitedIsShown
  <2>. QED BY <1>4, <2>1 DEF Succeeds, Advance, Remounted
<1>5. CASE Begin \/ Return \/ Leave \/ \E q \in Questions : Skip(q) \/ ShowNext(q)
  BY <1>2, <1>5 DEF Begin, Return, Leave, Mount, Skip, ShowNext, Advance, Remounted
<1>6. CASE \/ Refetch \/ Forget \/ PressFinish \/ Finish \/ FinishSucceeds
           \/ FinishFails \/ OtherTabFinishes \/ UNCHANGED vars
           \/ \E q \in Questions :
                 Submit(q) \/ OtherTabAnswers(q) \/ Delete(q) \/ Restore(q)
           \/ \E r \in Requests : Insert(r) \/ Fails(r)
  <2>1. UNCHANGED <<index, step>>
    BY <1>6 DEF Refetch, Forget, PressFinish, Finish, FinishSucceeds, FinishFails,
                OtherTabFinishes, Submit, OtherTabAnswers, Delete, Restore, Insert,
                Fails, StaysPut, screen, question, vars
  <2>. QED BY <1>1, <2>1
<1>. QED BY <1>3, <1>4, <1>5, <1>6 DEF Next

-----------------------------------------------------------------------------
(* Theorems.                                                               *)

(* The invariant, of every reachable state.                                *)
THEOREM IInvHolds == Spec => []IInv
<1>1. Init => IInv
  <2>. SUFFICES ASSUME Init PROVE IInv
    OBVIOUS
  <2>. USE DEF Init
  <2>1. Answered = {}
    BY DEF Answered
  <2>2. TypeOK
    <3>1. Free \in Request /\ 0 \in 0..(Total + 1)
      BY TotalAssumption DEF Request
    <3>. QED BY <3>1 DEF TypeOK
  <2>3. ScreenInv
    BY <2>1 DEF ScreenInv, CopyIsOld, PassedIsAnswered, InvalidIsFinished,
                AwaitedIsShown, ShownIsAnswered
  <2>4. LogInv
    BY <2>1 DEF LogInv, EachIsWorth, OneEach, AnsweredWereSubmitted, ResultIsRecorded
  <2>5. BeforeIsBehind
    BY DEF BeforeIsBehind
  <2>6. StepFits
    BY DEF StepFits
  <2>. QED BY <2>2, <2>3, <2>4, <2>5, <2>6 DEF IInv
<1>2. IInv /\ [Next]_vars => IInv'
  BY TypeStep, ScreenStep, BehindStep, LogStep, StepFitsStep DEF IInv, ScreenInv
<1>. QED BY <1>1, <1>2, PTL DEF Spec

(* Every variable keeps its type: in particular the position stays within  *)
(* the run and its end, however late an answer comes.                      *)
THEOREM TypeCorrect == Spec => []TypeOK
<1>1. IInv => TypeOK
  BY DEF IInv
<1>. QED BY <1>1, IInvHolds, PTL

(* The finish is offered only when every question has its answer in the    *)
(* log or was found deleted (OffersFinish, RunPage.tsx).                   *)
THEOREM NothingLeftToAnswerHolds == Spec => []NothingLeftToAnswer
<1>1. IInv => NothingLeftToAnswer
  <2>. SUFFICES ASSUME IInv, OffersFinish
                PROVE  Questions \ cached.missing \subseteq Answered
    BY DEF NothingLeftToAnswer
  <2>1. index > 0 /\ ~ cached.finished /\ index \in 0..(Total + 1)
    BY DEF OffersFinish, Sitting, IInv, TypeOK
  <2>2. CASE cached.rated = Questions
    BY <2>1, <2>2 DEF IInv, ScreenInv, CopyIsOld, PassedIsAnswered
  <2>3. CASE index > Total
    <3>1. index - 1 = Total
      BY <2>1, <2>3, TotalAssumption
    <3>. QED BY <2>1, <3>1 DEF IInv, ScreenInv, PassedIsAnswered, Questions
  <2>. QED BY <2>2, <2>3 DEF OffersFinish
<1>. QED BY <1>1, IInvHolds, PTL

(* What the screen says of an answer is what the log holds, unless the     *)
(* question was answered more than once (handleAnswerQuestion and the      *)
(* result ChoiceQuestion shows).                                              *)
THEOREM ResultIsRecordedHolds == Spec => []ResultIsRecorded
<1>1. IInv => ResultIsRecorded
  BY DEF IInv, LogInv
<1>. QED BY <1>1, IInvHolds, PTL

(* What was answered before this visit is not asked again, unless it began *)
(* with an old copy or the answers had a gap (firstUnanswered of Sitting,   *)
(* RunPage.tsx:50).                                                         *)
THEOREM NotAskedAgainHolds == Spec => []NotAskedAgain
<1>1. IInv => NotAskedAgain
  <2>. SUFFICES ASSUME IInv, NEW q \in Questions, Asks(q), ~ gaps, q \in before
                PROVE  FALSE
    BY DEF NotAskedAgain
  <2>1. index = q /\ index > 0 /\ ~ cached.finished /\ cached.rated # Questions
    BY DEF Asks, Sitting, OffersFinish
  <2>2. q < index
    BY <2>1 DEF IInv, BeforeIsBehind
  <2>. QED BY <2>1, <2>2, TotalAssumption DEF Questions
<1>. QED BY <1>1, IInvHolds, PTL

(* A question on the screen leads on: it can be skipped, its answer is on  *)
(* its way, or nothing is awaited and the step it stands at is one of its  *)
(* own kind (RecallQuestion and ChoiceQuestion, keyed by the question).    *)
THEOREM LeadsOnHolds == Spec => []LeadsOn
<1>1. IInv => LeadsOn
  <2>. SUFFICES ASSUME IInv, Sitting, ~ OffersFinish, ~ Skippable(index)
                PROVE  LeadsOn
    BY DEF LeadsOn
  <2>1. index \in Questions
    BY TotalAssumption DEF IInv, TypeOK, Sitting, OffersFinish, Questions
  <2>2. Asking(index)
    BY DEF Asking, Asks, Skippable
  <2>3. CASE awaited # Nobody
    BY <2>3 DEF IInv, ScreenInv, AwaitedIsShown, LeadsOn
  <2>4. CASE awaited = Nobody
    <3>1. step \in {"front", "revealing", "revealed", "refused", "result"} /\ StepFits
      BY DEF IInv, TypeOK
    <3>2. Recalling(index) \/ Choosing(index)
      BY <2>2 DEF Recalling, Choosing
    <3>. QED BY <2>4, <3>1, <3>2 DEF StepFits, Recalling, Choosing, LeadsOn
  <2>. QED BY <2>3, <2>4
<1>. QED BY <1>1, IInvHolds, PTL
=============================================================================
