-------------------------- MODULE DueReviewProofs --------------------------
(* Proofs about DueReview, for any cards, any ladder, any cap and any      *)
(* number of ratings under way at once.                                    *)
EXTENDS DueReview, TLAPS, FiniteSetTheorems

(* What a schedule is at all times, whoever wrote it.                      *)
Sound(s) == s \in Schedule /\ FitsRung(s)

LEMMA LadderFacts ==
    /\ Top \in Nat
    /\ \A i \in 0..Top : Interval(i) \in Nat /\ Interval(i) >= 1
<1>1. Len(Ladder) \in Nat /\ Len(Ladder) >= 1
  BY LadderAssumption
<1>2. \A i \in 1..Len(Ladder) : Ladder[i] \in Nat \ {0}
  BY LadderAssumption
<1> QED BY <1>1, <1>2 DEF Top, Interval

(* srs.Next and srs.NewSchedule return sound schedules, dated tomorrow or  *)
(* later, from whatever stage was read.                                    *)
LEMMA NextIsSound ==
    ASSUME NEW stage \in 0..Top, NEW rating \in Ratings
    PROVE  /\ Sound(NextSchedule(stage, rating))
           /\ NextSchedule(stage, rating).due = NoDate
              \/ NextSchedule(stage, rating).due >= 1
<1>1. \A i \in 0..Top : Sound(Learning(i, Interval(i))) /\ Interval(i) >= 1
  BY LadderFacts, NullAssumption
  DEF Sound, Learning, Schedule, FitsRung
<1>2. Sound(Mastered)
  BY LadderFacts DEF Sound, Mastered, Schedule, FitsRung
<1>3. CASE rating = "lupa"
  BY <1>1, <1>3, LadderFacts DEF NextSchedule, Learning
<1>4. CASE rating # "lupa" /\ stage < Top
  <2>1. stage + 1 \in 0..Top
    BY <1>4, LadderFacts
  <2> QED BY <1>1, <1>4, <2>1 DEF NextSchedule, Learning
<1>5. CASE rating # "lupa" /\ ~ stage < Top
  BY <1>2, <1>5 DEF NextSchedule, Mastered
<1> QED BY <1>3, <1>4, <1>5

LEMMA NewIsSound == Sound(NewSchedule) /\ NewSchedule.due >= 1
  BY LadderFacts, NullAssumption
  DEF NewSchedule, Learning, Sound, Schedule, FitsRung

(* A midnight, and a commit that comes after it, keep a schedule sound.    *)
LEMMA LaterIsSound ==
    ASSUME NEW s, Sound(s), NEW n \in Nat
    PROVE  Sound(DaysLater(s, n))
<1>1. CASE s.due = NoDate
  BY <1>1 DEF DaysLater
<1>2. CASE s.due # NoDate
  <2>1. s.due \in Int /\ s.stage \in 0..Top /\ s.state = "learning"
    BY <1>2 DEF Sound, Schedule, FitsRung
  <2>2. s.due <= Interval(s.stage) /\ Interval(s.stage) \in Nat
    BY <2>1, LadderFacts DEF Sound, FitsRung
  <2>3. DaysLater(s, n) = [s EXCEPT !.due = s.due - n] /\ s.due - n \in Int
    BY <1>2, <2>1 DEF DaysLater
  <2>4. s.due - n # NoDate /\ s.due - n <= Interval(s.stage)
    BY <2>1, <2>2, NullAssumption
  <2>5. s \in Schedule
    BY DEF Sound
  <2>6. [s EXCEPT !.due = s.due - n] \in Schedule
    BY <2>3, <2>5 DEF Schedule
  <2> QED
    BY <2>1, <2>3, <2>4, <2>5, <2>6 DEF Sound, FitsRung, Schedule
<1> QED BY <1>1, <1>2

(* What is kept of dates in the past is their order.                       *)
Past(schedules) == {schedules[c].due : c \in {d \in Cards :
                       schedules[d].due # NoDate /\ schedules[d].due < 0}}
Rank(schedules, day) == - Cardinality({date \in Past(schedules) : date >= day})

LEMMA PastIsFinite ==
    ASSUME NEW schedules
    PROVE  IsFiniteSet(Past(schedules))
<1> DEFINE late == {d \in Cards : schedules[d].due # NoDate /\ schedules[d].due < 0}
           f == [c \in late |-> schedules[c].due]
<1>1. IsFiniteSet(late)
  BY CardsAssumption, FS_Subset
<1>2. f \in Surjection(late, Past(schedules))
  BY DEF Surjection, Past
<1> HIDE DEF late, f
<1> QED BY <1>1, <1>2, FS_Surjection

LEMMA RankOrders ==
    ASSUME NEW schedules \in [Cards -> Schedule],
           NEW a \in Past(schedules), NEW b \in Past(schedules)
    PROVE  /\ a \in Int /\ a < 0
           /\ Rank(schedules, a) \in Int /\ Rank(schedules, a) < 0
           /\ a < b => Rank(schedules, a) < Rank(schedules, b)
<1> DEFINE From(x) == {date \in Past(schedules) : date >= x}
<1>1. \A x \in Past(schedules) : x \in Int /\ x < 0
  BY DEF Past, Schedule
<1>2. ASSUME NEW x \in Past(schedules)
      PROVE  /\ IsFiniteSet(From(x)) /\ Cardinality(From(x)) \in Nat
             /\ Cardinality(From(x)) # 0
  <2>1. IsFiniteSet(From(x))
    BY PastIsFinite, FS_Subset
  <2>2. x \in From(x)
    BY <1>1
  <2> HIDE DEF From
  <2> QED BY <2>1, <2>2, FS_CardinalityType, FS_EmptySet
<1>3. ASSUME a < b
      PROVE  Cardinality(From(b)) < Cardinality(From(a))
  <2>1. From(b) \in SUBSET From(a) /\ a \in From(a) /\ a \notin From(b)
    BY <1>1, <1>3
  <2>2. From(b) # From(a)
    BY <2>1
  <2>3. /\ Cardinality(From(b)) <= Cardinality(From(a))
        /\ Cardinality(From(a)) = Cardinality(From(b)) => From(a) = From(b)
    <3> HIDE DEF From
    <3> QED BY <1>2, <2>1, FS_Subset
  <2> HIDE DEF From
  <2> QED BY <1>2, <2>2, <2>3
<1>4. /\ Rank(schedules, a) = - Cardinality(From(a))
      /\ Rank(schedules, b) = - Cardinality(From(b))
  BY DEF Rank
<1> HIDE DEF From
<1> QED BY <1>1, <1>2, <1>3, <1>4

LEMMA RankedIsSound ==
    ASSUME NEW schedules \in [Cards -> Schedule],
           \A c \in Cards : Sound(schedules[c])
    PROVE  /\ Ranked(schedules) \in [Cards -> Schedule]
           /\ \A c \in Cards : Sound(Ranked(schedules)[c])
<1>1. ASSUME NEW c \in Cards, schedules[c].due \in Past(schedules)
      PROVE  Sound([schedules[c] EXCEPT !.due = Rank(schedules, schedules[c].due)])
  <2>0. PICK day : day = Rank(schedules, schedules[c].due)
    OBVIOUS
  <2>1. schedules[c].due \in Int /\ schedules[c].due # NoDate
    BY <1>1, RankOrders, NullAssumption
  <2>2. /\ schedules[c] \in Schedule /\ schedules[c].state = "learning"
        /\ schedules[c].stage \in 0..Top
    BY <2>1 DEF Sound, Schedule, FitsRung
  <2>3. day \in Int /\ day <= 0 /\ day # NoDate
    BY <1>1, <2>0, RankOrders, NullAssumption
  <2>4. Interval(schedules[c].stage) \in Nat
    BY <2>2, LadderFacts
  <2> QED BY <2>0, <2>2, <2>3, <2>4 DEF Sound, Schedule, FitsRung
<1>2. Ranked(schedules) =
        [c \in Cards |-> IF schedules[c].due \in Past(schedules)
                         THEN [schedules[c] EXCEPT !.due = Rank(schedules, schedules[c].due)]
                         ELSE schedules[c]]
  BY DEF Ranked, Past, Rank
<1> QED BY <1>1, <1>2 DEF Sound
-----------------------------------------------------------------------------
(* The inductive invariant.  The type says what stage a rating under way   *)
(* read; that the schedules are sound and that the page awaits the card on *)
(* screen are inductive with it.                                           *)
IInv == TypeOK /\ ScheduleFitsRung /\ AwaitedIsOnScreen

LEMMA InitIInv == Init => IInv
<1> SUFFICES ASSUME Init PROVE IInv
  OBVIOUS
<1>1. Sound(NewSchedule)
  BY NewIsSound
<1>2. TypeOK
  BY <1>1 DEF Init, TypeOK, Sound, Request, Idle, Fetch, NoFetch
<1>3. ScheduleFitsRung
  BY <1>1 DEF Init, ScheduleFitsRung, Sound
<1>4. AwaitedIsOnScreen
  BY NullAssumption DEF Init, AwaitedIsOnScreen
<1> QED BY <1>2, <1>3, <1>4 DEF IInv

(* What a rating under way leaves in card_schedules, and when.             *)
LEMMA CommitEffect ==
    ASSUME TypeOK, NEW r \in Requests, RateCommit(r)
    PROVE  \E c \in Cards, s \in Schedule :
              /\ Sound(s) /\ c = request[r].card
              /\ sched' = [sched EXCEPT ![c] = s]
              /\ request[r].nights = 0 => s.due = NoDate \/ s.due >= 1
<1> DEFINE this == request[r]
           new == NextSchedule(this.stage, this.rating)
<1>1. /\ this.card \in Cards /\ this.rating \in Ratings
      /\ this.stage \in 0..Top /\ this.nights \in {0, 1}
  BY DEF RateCommit, TypeOK, Request
<1>2. Sound(new) /\ (new.due = NoDate \/ new.due >= 1)
  BY <1>1, NextIsSound
<1>3. Sound(DaysLater(new, this.nights))
  BY <1>1, <1>2, LaterIsSound
<1>4. ASSUME this.nights = 0
      PROVE  DaysLater(new, this.nights).due = new.due
  <2>1. new.due # NoDate => new.due \in Int /\ new.due - 0 = new.due
    BY <1>2 DEF Sound, Schedule
  <2> HIDE DEF new
  <2>2. new \in Schedule
    BY <1>2 DEF Sound
  <2> QED BY <1>4, <2>1, <2>2 DEF DaysLater, Schedule
<1>5. sched' = [sched EXCEPT ![this.card] = DaysLater(new, this.nights)]
  BY DEF RateCommit
<1>6. DaysLater(new, this.nights) \in Schedule
  BY <1>3 DEF Sound
<1> HIDE DEF new
<1> QED BY <1>1, <1>2, <1>3, <1>4, <1>5, <1>6

LEMMA MidnightSound ==
    ASSUME TypeOK, ScheduleFitsRung, Midnight
    PROVE  sched' \in [Cards -> Schedule] /\ \A c \in Cards : Sound(sched'[c])
<1> DEFINE later == [c \in Cards |-> DaysLater(sched[c], 1)]
<1>1. \A c \in Cards : Sound(sched[c])
  BY DEF TypeOK, ScheduleFitsRung, Sound
<1>2. \A c \in Cards : Sound(later[c])
  BY <1>1, LaterIsSound
<1>3. later \in [Cards -> Schedule]
  BY <1>2 DEF Sound
<1>4. sched' = Ranked(later)
  BY DEF Midnight
<1> HIDE DEF later
<1> QED BY <1>2, <1>3, <1>4, RankedIsSound

LEMMA SchedulesStaySound ==
    ASSUME TypeOK, ScheduleFitsRung, Next
    PROVE  sched' \in [Cards -> Schedule] /\ ScheduleFitsRung'
<1>1. sched \in [Cards -> Schedule] /\ \A c \in Cards : Sound(sched[c])
  BY DEF TypeOK, ScheduleFitsRung, Sound
<1>2. CASE sched' = sched
  BY <1>1, <1>2 DEF ScheduleFitsRung, Sound
<1>3. ASSUME NEW c \in Cards, Capture(c)
      PROVE  sched' \in [Cards -> Schedule] /\ ScheduleFitsRung'
  BY <1>1, <1>3, NewIsSound DEF Capture, ScheduleFitsRung, Sound
<1>4. ASSUME NEW r \in Requests, RateCommit(r)
      PROVE  sched' \in [Cards -> Schedule] /\ ScheduleFitsRung'
  <2>1. PICK c \in Cards, s \in Schedule : Sound(s) /\ sched' = [sched EXCEPT ![c] = s]
    BY <1>4, CommitEffect
  <2> QED BY <1>1, <2>1 DEF ScheduleFitsRung, Sound
<1>5. CASE Midnight
  BY <1>5, MidnightSound DEF ScheduleFitsRung, Sound
<1>6. CASE Page
  <2>1. sched' = sched
    BY <1>6 DEF Page, Open, Refetch, Leave, Reload, Land, FetchFails, Advance,
                LoseAnswer, Reveal, Press, store
  <2> QED BY <1>2, <2>1
<1>7. CASE Server
  <2>1. ReadDue \/ (\E r \in Requests : RateRead(r) \/ RateFails(r))
          => sched' = sched
    BY DEF ReadDue, RateRead, RateFails, store
  <2> QED BY <1>2, <1>4, <1>7, <2>1 DEF Server
<1>8. CASE Elsewhere
  <2>1. ASSUME NEW c \in Cards,
               Trash(c) \/ Restore(c)
                 \/ \E rating \in Ratings : PressElsewhere(c, rating)
        PROVE  sched' = sched
    BY <2>1 DEF Trash, Restore, PressElsewhere, store
  <2> QED BY <1>2, <1>3, <1>8, <2>1 DEF Elsewhere
<1> QED BY <1>5, <1>6, <1>7, <1>8 DEF Next

(* The requests keep their type: a rating under way holds a card, what was *)
(* pressed, and after its read a stage of the ladder.                      *)
LEMMA RequestsStayTyped ==
    ASSUME TypeOK, Next
    PROVE  request' \in [Requests -> Request]
<1>1. /\ request \in [Requests -> Request]
      /\ sched \in [Cards -> Schedule]
  BY DEF TypeOK
<1>2. Idle \in Request
  BY DEF Idle, Request
<1>3. CASE request' = request
  BY <1>1, <1>3
<1>4. ASSUME NEW c \in Cards, NEW rating \in Ratings, NEW r \in Requests,
             request' = [request EXCEPT ![r] = Sent(c, rating)]
      PROVE  request' \in [Requests -> Request]
  <2>1. Sent(c, rating) \in Request
    BY DEF Sent, Request
  <2> QED BY <1>1, <1>4, <2>1
<1>5. ASSUME NEW r \in Requests, RateRead(r)
      PROVE  request' \in [Requests -> Request]
  <2> DEFINE read == [pc |-> "read", card |-> request[r].card,
                      rating |-> request[r].rating,
                      stage |-> sched[request[r].card].stage, nights |-> 0]
  <2>1. request[r].card \in Cards /\ request[r].rating \in Ratings
    BY <1>1, <1>5 DEF RateRead, Request
  <2>2. sched[request[r].card].stage \in 0..Top
    BY <1>1, <2>1 DEF Schedule
  <2>3. read \in Request
    BY <2>1, <2>2 DEF Request
  <2>4. request' = [request EXCEPT ![r] = read]
    BY <1>5 DEF RateRead
  <2> QED BY <1>1, <2>3, <2>4
<1>6. ASSUME NEW r \in Requests, RateCommit(r) \/ RateFails(r)
      PROVE  request' \in [Requests -> Request]
  BY <1>1, <1>2, <1>6 DEF RateCommit, RateFails
<1>7. CASE Midnight
  <2>1. ASSUME NEW r \in Requests, request[r].pc = "read"
        PROVE  [request[r] EXCEPT !.nights = 1] \in Request
    <3>1. request[r] \in [pc: {"read"}, card: Cards, rating: Ratings,
                          stage: 0..Top, nights: {0, 1}]
      BY <1>1, <2>1 DEF Request
    <3> QED BY <3>1 DEF Request
  <2> QED BY <1>1, <1>7, <2>1 DEF Midnight
<1>8. CASE Page
  <2>1. ASSUME NEW c \in Cards, NEW rating \in Ratings, Press(c, rating)
        PROVE  request' \in [Requests -> Request]
    BY <1>4, <2>1 DEF Press
  <2>2. CASE ~ \E c \in Cards, rating \in Ratings : Press(c, rating)
    <3>1. request' = request
      BY <1>8, <2>2 DEF Page, Open, Refetch, Leave, Reload, Land, FetchFails, Advance,
                        LoseAnswer, Reveal
    <3> QED BY <1>3, <3>1
  <2> QED BY <2>1, <2>2
<1>9. CASE Server
  BY <1>3, <1>5, <1>6, <1>9 DEF Server, ReadDue
<1>10. CASE Elsewhere
  <2>1. ASSUME NEW c \in Cards, NEW rating \in Ratings,
               PressElsewhere(c, rating)
        PROVE  request' \in [Requests -> Request]
    BY <1>4, <2>1 DEF PressElsewhere
  <2>2. ASSUME NEW c \in Cards, Capture(c) \/ Trash(c) \/ Restore(c)
        PROVE  request' = request
    BY <2>2 DEF Capture, Trash, Restore
  <2> QED BY <1>3, <1>10, <2>1, <2>2 DEF Elsewhere
<1> QED BY <1>7, <1>8, <1>9, <1>10 DEF Next

(* What the server reads is a list of cards.                               *)
LEMMA DueListsAreLists == \A list \in DueLists : list \in Seq(Cards)
<1>1. DueCards \subseteq Cards /\ IsFiniteSet(DueCards)
  BY CardsAssumption, FS_Subset DEF DueCards
<1>2. Cardinality(DueCards) \in Nat
  BY <1>1, FS_CardinalityType
<1> DEFINE size == IF Cardinality(DueCards) < DueLimit
                   THEN Cardinality(DueCards) ELSE DueLimit
<1>3. size \in Nat
  BY <1>2, LimitAssumption
<1>4. ASSUME NEW list \in DueLists PROVE list \in [1..size -> DueCards]
  BY DEF DueLists
<1> HIDE DEF size
<1> QED BY <1>1, <1>3, <1>4

(* The page and its cache keep their types.                                *)
LEMMA PageStaysTyped ==
    ASSUME TypeOK, Next
    PROVE  /\ card' \in [Cards -> {"none", "live", "trashed"}]
           /\ awaited' \in Requests \cup {Nobody, Answered}
           /\ open' \in BOOLEAN /\ stale' \in BOOLEAN /\ broken' \in BOOLEAN
           /\ deck' \in Seq(Cards) \cup {NoDeck}
           /\ fetch' \in Fetch
           /\ index' \in Nat
           /\ reveal' \in {"hidden", "shown", "missing"}
<1> USE DEF TypeOK, store, cache, screen, NewCardOnScreen, SameCardOnScreen
<1>1. NoFetch \in Fetch /\ Sending \in Fetch
  BY DEF NoFetch, Sending, Fetch
<1>2. CASE Open \/ Refetch \/ Leave \/ Reload \/ FetchFails \/ Advance
           \/ LoseAnswer
  <2>1. CASE Open
    BY <1>1, <2>1 DEF Open
  <2>2. CASE Refetch
    BY <1>1, <2>2 DEF Refetch
  <2>3. CASE Leave
    <3>1. fetch' \in Fetch
      BY <1>1, <2>3 DEF Leave
    <3> QED BY <2>3, <3>1 DEF Leave
  <2>4. CASE Reload
    BY <1>1, <2>4 DEF Reload
  <2>5. CASE FetchFails
    BY <1>1, <2>5 DEF FetchFails
  <2>6. CASE Advance \/ LoseAnswer
    BY <2>6 DEF Advance, LoseAnswer
  <2> QED BY <1>2, <2>1, <2>2, <2>3, <2>4, <2>5, <2>6
<1>3. CASE Land
  <2>1. fetch.list \in Seq(Cards)
    BY <1>3 DEF Land, Fetch
  <2> QED BY <1>1, <1>3, <2>1 DEF Land
<1>4. ASSUME NEW c \in Cards,
             Reveal(c) \/ \E rating \in Ratings : Press(c, rating)
      PROVE  card' = card /\ deck' = deck /\ fetch' = fetch /\ open' = open
             /\ stale' = stale /\ broken' = broken /\ index' = index
             /\ awaited' \in Requests \cup {Nobody, Answered}
             /\ reveal' \in {"hidden", "shown", "missing"}
  BY <1>4 DEF Reveal, Press
<1>5. CASE Page
  BY <1>2, <1>3, <1>4, <1>5 DEF Page
<1>6. CASE ReadDue
  <2>1. PICK list \in DueLists : fetch' = [pc |-> "landing", list |-> list]
    BY <1>6 DEF ReadDue
  <2>2. fetch' \in Fetch
    BY <2>1, DueListsAreLists DEF Fetch
  <2> QED BY <1>6, <2>2 DEF ReadDue
<1>7. ASSUME NEW r \in Requests, RateRead(r) \/ RateCommit(r) \/ RateFails(r)
      PROVE  card' = card /\ deck' = deck /\ fetch' = fetch /\ open' = open
             /\ stale' = stale /\ broken' = broken /\ index' = index
             /\ awaited' \in Requests \cup {Nobody, Answered}
             /\ reveal' = reveal
  BY <1>7 DEF RateRead, RateCommit, RateFails
<1>8. CASE Server
  BY <1>6, <1>7, <1>8 DEF Server
<1>9. ASSUME NEW c \in Cards,
             \/ Capture(c) \/ Trash(c) \/ Restore(c)
             \/ \E rating \in Ratings : PressElsewhere(c, rating)
      PROVE  /\ card' \in [Cards -> {"none", "live", "trashed"}]
             /\ UNCHANGED <<cache, screen>>
  BY <1>9 DEF Capture, Trash, Restore, PressElsewhere
<1>10. CASE Elsewhere
  BY <1>9, <1>10 DEF Elsewhere
<1>11. CASE Midnight
  BY <1>11 DEF Midnight
<1> QED BY <1>5, <1>8, <1>10, <1>11 DEF Next

(* No step makes the page wait for a card that is not on screen.           *)
LEMMA AwaitedStaysOnScreen ==
    ASSUME TypeOK, AwaitedIsOnScreen, Next
    PROVE  AwaitedIsOnScreen'
<1> DEFINE shown == OnScreen(deck, broken)
<1>1. /\ awaited \in Requests \cup {Nobody, Answered}
      /\ request \in [Requests -> Request]
      /\ Nobody \notin Requests /\ Answered \notin Requests /\ Answered # Nobody
  BY NullAssumption DEF TypeOK
<1>2. ASSUME awaited' = Nobody
      PROVE  AwaitedIsOnScreen'
  BY <1>1, <1>2 DEF AwaitedIsOnScreen
<1>3. ASSUME UNCHANGED <<request, awaited, reveal, deck, broken, open, index>>
      PROVE  AwaitedIsOnScreen'
  BY <1>3 DEF AwaitedIsOnScreen, OnScreen
<1>4. CASE Open \/ Refetch
  <2>1. CASE Open
    <3>1. awaited = Nobody
      BY <2>1 DEF Open, AwaitedIsOnScreen, OnScreen
    <3> QED BY <1>2, <2>1, <3>1 DEF Open
  <2>2. CASE Refetch
    BY <1>3, <2>2 DEF Refetch, screen
  <2> QED BY <1>4, <2>1, <2>2
<1>5. CASE Leave \/ Reload \/ FetchFails \/ Advance \/ LoseAnswer
  BY <1>2, <1>5 DEF Leave, Reload, FetchFails, Advance, LoseAnswer, NewCardOnScreen
<1>6. CASE Land
  <2>1. CASE OnScreen(deck, broken) = OnScreen(fetch.list, FALSE)
    <3>1. OnScreen(deck, broken)' = shown
      BY <1>6, <2>1 DEF Land, OnScreen
    <3> QED BY <1>6, <2>1, <3>1 DEF Land, SameCardOnScreen, AwaitedIsOnScreen
  <2>2. CASE OnScreen(deck, broken) # OnScreen(fetch.list, FALSE)
    BY <1>2, <1>6, <2>2 DEF Land, NewCardOnScreen
  <2> QED BY <2>1, <2>2
<1>7. ASSUME NEW c \in Cards, Reveal(c)
      PROVE  AwaitedIsOnScreen'
  <2>1. awaited = Nobody
    BY <1>7 DEF Reveal, AwaitedIsOnScreen
  <2> QED BY <1>2, <1>7, <2>1 DEF Reveal
<1>8. ASSUME NEW c \in Cards, NEW rating \in Ratings, Press(c, rating)
      PROVE  AwaitedIsOnScreen'
  <2>1. PICK r \in Requests : /\ request' = [request EXCEPT ![r] = Sent(c, rating)]
                              /\ awaited' = r
    BY <1>8 DEF Press
  <2>2. request'[r].pc = "sent" /\ request'[r].card = c
    BY <1>1, <2>1 DEF Sent
  <2>3. shown = {c}
    BY <1>8 DEF Press, Asking, OnScreen
  <2>4. OnScreen(deck, broken)' = shown /\ reveal' = "shown"
    BY <1>8 DEF Press, OnScreen, cache
  <2> HIDE DEF shown
  <2> QED BY <2>1, <2>2, <2>3, <2>4 DEF AwaitedIsOnScreen
<1>9. CASE Page
  BY <1>4, <1>5, <1>6, <1>7, <1>8, <1>9 DEF Page
<1>10. ASSUME UNCHANGED <<deck, broken, open, index, reveal>>
       PROVE  OnScreen(deck, broken)' = shown /\ reveal' = reveal
  BY <1>10 DEF OnScreen
<1>11. CASE ReadDue
  BY <1>3, <1>11 DEF ReadDue, screen
<1>12. ASSUME NEW r \in Requests, RateRead(r)
       PROVE  AwaitedIsOnScreen'
  <2>1. UNCHANGED <<deck, broken, open, index, reveal, awaited>>
    BY <1>12 DEF RateRead, cache, screen
  <2>2. ASSUME awaited \in Requests
        PROVE  request'[awaited].card = request[awaited].card
               /\ (request[awaited].pc # "idle" => request'[awaited].pc # "idle")
    BY <1>1, <1>12, <2>2 DEF RateRead
  <2> HIDE DEF shown
  <2> QED BY <1>10, <2>1, <2>2 DEF AwaitedIsOnScreen, shown
<1>13. ASSUME NEW r \in Requests, RateCommit(r) \/ RateFails(r)
       PROVE  AwaitedIsOnScreen'
  <2>1. UNCHANGED <<deck, broken, open, index, reveal>>
    BY <1>13 DEF RateCommit, RateFails, cache
  <2>2. request' = [request EXCEPT ![r] = Idle]
    BY <1>13 DEF RateCommit, RateFails
  <2>3. CASE awaited = r
    <3>1. awaited' \in {Nobody, Answered}
      BY <1>13, <2>3 DEF RateCommit, RateFails
    <3> QED BY <1>1, <1>10, <2>1, <2>3, <3>1 DEF AwaitedIsOnScreen
  <2>4. CASE awaited # r
    <3>1. awaited' = awaited
      BY <1>13, <2>4 DEF RateCommit, RateFails
    <3>2. awaited \in Requests => request'[awaited] = request[awaited]
      BY <1>1, <2>2, <2>4
    <3> QED BY <1>1, <1>10, <2>1, <3>1, <3>2 DEF AwaitedIsOnScreen
  <2> QED BY <2>3, <2>4
<1>14. CASE Server
  BY <1>11, <1>12, <1>13, <1>14 DEF Server
<1>15. ASSUME NEW c \in Cards, NEW rating \in Ratings, PressElsewhere(c, rating)
       PROVE  AwaitedIsOnScreen'
  <2>1. UNCHANGED <<deck, broken, open, index, reveal, awaited>>
    BY <1>15 DEF PressElsewhere, cache, screen
  <2>2. PICK r \in Requests : /\ request[r] = Idle
                              /\ request' = [request EXCEPT ![r] = Sent(c, rating)]
    BY <1>15 DEF PressElsewhere
  <2>3. awaited \in Requests => awaited # r
    BY <2>2 DEF AwaitedIsOnScreen, Idle
  <2>4. awaited \in Requests => request'[awaited] = request[awaited]
    BY <1>1, <2>2, <2>3
  <2> QED BY <1>10, <2>1, <2>4 DEF AwaitedIsOnScreen
<1>16. ASSUME NEW c \in Cards, Capture(c) \/ Trash(c) \/ Restore(c)
       PROVE  AwaitedIsOnScreen'
  BY <1>3, <1>16 DEF Capture, Trash, Restore, cache, screen
<1>17. CASE Elsewhere
  BY <1>15, <1>16, <1>17 DEF Elsewhere
<1>18. CASE Midnight
  <2>1. UNCHANGED <<deck, broken, open, index, reveal, awaited>>
    BY <1>18 DEF Midnight, cache, screen
  <2>2. ASSUME awaited \in Requests, request[awaited].pc = "read"
        PROVE  /\ request'[awaited].card = request[awaited].card
               /\ request'[awaited].pc = "read"
    <3>1. request'[awaited] = [request[awaited] EXCEPT !.nights = 1]
      BY <1>18, <2>2 DEF Midnight
    <3> QED BY <1>1, <2>2, <3>1 DEF Request
  <2>3. ASSUME awaited \in Requests, request[awaited].pc # "read"
        PROVE  request'[awaited] = request[awaited]
    BY <1>18, <2>3 DEF Midnight
  <2> QED BY <1>10, <2>1, <2>2, <2>3 DEF AwaitedIsOnScreen
<1> QED BY <1>9, <1>14, <1>17, <1>18 DEF Next

LEMMA NextIInv == IInv /\ [Next]_vars => IInv'
<1> SUFFICES ASSUME IInv, [Next]_vars PROVE IInv'
  OBVIOUS
<1>1. CASE Next
  <2>1. TypeOK'
    BY <1>1, RequestsStayTyped, PageStaysTyped, SchedulesStaySound
    DEF IInv, TypeOK
  <2> QED BY <1>1, <2>1, SchedulesStaySound, AwaitedStaysOnScreen DEF IInv
<1>2. CASE UNCHANGED vars
  BY <1>2 DEF IInv, TypeOK, ScheduleFitsRung, AwaitedIsOnScreen, OnScreen,
              vars, store, cache, screen
<1> QED BY <1>1, <1>2

-----------------------------------------------------------------------------
(* Every date, stage, request and list stays in its type.                  *)
THEOREM TypeCorrect == Spec => []TypeOK
<1>1. IInv => TypeOK
  BY DEF IInv
<1> QED BY InitIInv, NextIInv, <1>1, PTL DEF Spec

(* Concurrent ratings overwrite one another and never mix: a schedule is   *)
(* always one that srs.Next or srs.NewSchedule returned (review.go:159).   *)
THEOREM ScheduleFitsRungHolds == Spec => []ScheduleFitsRung
<1>1. IInv => ScheduleFitsRung
  BY DEF IInv
<1> QED BY InitIInv, NextIInv, <1>1, PTL DEF Spec

(* The page only waits for a rating of the card it shows, so its index     *)
(* never moves past a card nobody rated (ReviewPage.tsx:54-61).            *)
THEOREM AwaitedIsOnScreenHolds == Spec => []AwaitedIsOnScreen
<1>1. IInv => AwaitedIsOnScreen
  BY DEF IInv
<1> QED BY InitIInv, NextIInv, <1>1, PTL DEF Spec

-----------------------------------------------------------------------------
(* The queue.  What a step other than midnight does to a card.             *)
LEMMA CardEffect ==
    ASSUME IInv, Next, ~ Midnight, NEW c \in Cards
    PROVE  \/ card'[c] = card[c] /\ sched'[c] = sched[c]
           \/ Restore(c) \/ LateCommit(c) \/ c \notin DueCards'
<1> DEFINE Done == \/ card'[c] = card[c] /\ sched'[c] = sched[c]
                   \/ Restore(c) \/ LateCommit(c) \/ c \notin DueCards'
<1>1. sched \in [Cards -> Schedule] /\ card \in [Cards -> {"none", "live", "trashed"}]
  BY DEF IInv, TypeOK
<1>2. ASSUME NEW d \in Cards, Capture(d)
      PROVE  Done
  <2>1. NewSchedule.due >= 1 /\ NewSchedule.due \in Int
    BY NewIsSound, LadderFacts DEF NewSchedule, Learning
  <2>2. CASE d = c
    BY <1>1, <1>2, <2>1, <2>2 DEF Capture, DueCards
  <2>3. CASE d # c
    BY <1>1, <1>2, <2>3 DEF Capture
  <2> QED BY <2>2, <2>3
<1>3. ASSUME NEW d \in Cards, Trash(d) \/ Restore(d)
      PROVE  Done
  BY <1>1, <1>3 DEF Trash, Restore, DueCards
<1>4. ASSUME NEW r \in Requests, RateCommit(r)
      PROVE  Done
  <2>1. PICK d \in Cards, s \in Schedule :
           /\ Sound(s) /\ d = request[r].card
           /\ sched' = [sched EXCEPT ![d] = s]
           /\ request[r].nights = 0 => s.due = NoDate \/ s.due >= 1
    BY <1>4, CommitEffect DEF IInv
  <2>2. card' = card /\ request[r].pc = "read" /\ request[r].nights \in {0, 1}
    BY <1>4 DEF RateCommit, IInv, TypeOK, Request
  <2>3. CASE d # c
    BY <1>1, <2>1, <2>2, <2>3
  <2>4. CASE d = c /\ request[r].nights = 1
    BY <1>4, <2>1, <2>2, <2>4 DEF LateCommit
  <2>5. CASE d = c /\ request[r].nights = 0
    <3>1. sched'[c] = s /\ (s.due = NoDate \/ (s.due \in Int /\ s.due >= 1))
      BY <1>1, <2>1, <2>5 DEF Sound, Schedule
    <3> QED BY <3>1 DEF DueCards
  <2> QED BY <2>2, <2>3, <2>4, <2>5
<1>5. CASE UNCHANGED store
  BY <1>5 DEF store
<1>6. CASE Page
  <2>1. UNCHANGED store
    BY <1>6 DEF Page, Open, Refetch, Leave, Reload, Land, FetchFails, Advance,
                LoseAnswer, Reveal, Press, store
  <2> QED BY <1>5, <2>1
<1>7. CASE Server
  <2>1. ReadDue \/ (\E r \in Requests : RateRead(r) \/ RateFails(r)) => UNCHANGED store
    BY DEF ReadDue, RateRead, RateFails
  <2> QED BY <1>4, <1>5, <1>7, <2>1 DEF Server
<1>8. CASE Elsewhere
  <2>1. (\E d \in Cards, rating \in Ratings : PressElsewhere(d, rating)) => UNCHANGED store
    BY DEF PressElsewhere
  <2> QED BY <1>2, <1>3, <1>5, <1>8, <2>1 DEF Elsewhere
<1> QED BY <1>6, <1>7, <1>8 DEF Next

(* A rating never makes a card due on the day it is made (srs.go:86-108).  *)
THEOREM DueOnlyByCalendarHolds == Spec => DueOnlyByCalendar
<1> DEFINE ByCalendar == \A c \in Cards : c \notin DueCards /\ c \in DueCards'
                            => Midnight \/ Restore(c) \/ LateCommit(c)
<1>1. IInv /\ [Next]_vars => [ByCalendar]_vars
  <2> SUFFICES ASSUME IInv, Next, NEW c \in Cards,
                      c \notin DueCards, c \in DueCards'
               PROVE  Midnight \/ Restore(c) \/ LateCommit(c)
    BY DEF vars
  <2>1. card'[c] = card[c] /\ sched'[c] = sched[c] => FALSE
    BY DEF DueCards
  <2> QED BY <2>1, CardEffect
<1>2. Spec => [][ByCalendar]_vars
  BY InitIInv, NextIInv, <1>1, PTL DEF Spec
<1> QED BY <1>2 DEF DueOnlyByCalendar

(* Keeping only the order of past dates keeps it.                          *)
LEMMA RankedOrder ==
    ASSUME NEW schedules \in [Cards -> Schedule],
           NEW c \in Cards, NEW d \in Cards,
           schedules[c].due # NoDate, schedules[d].due # NoDate
    PROVE  /\ Ranked(schedules)[c].due \in Int
           /\ Ranked(schedules)[c].due < 0 <=> schedules[c].due < 0
           /\ Ranked(schedules)[c].state = schedules[c].state
           /\ schedules[c].due < schedules[d].due <=>
                 Ranked(schedules)[c].due < Ranked(schedules)[d].due
<1> DEFINE a == schedules[c].due
           b == schedules[d].due
           past == Past(schedules)
<1>1. a \in Int /\ b \in Int /\ schedules[c] \in Schedule /\ schedules[d] \in Schedule
  BY DEF Schedule
<1>2. (a \in past <=> a < 0) /\ (b \in past <=> b < 0)
  <2>1. a < 0 => a \in past
    BY DEF Past
  <2>2. b < 0 => b \in past
    BY DEF Past
  <2> QED BY <2>1, <2>2, RankOrders
<1>3. ASSUME NEW x \in Cards
      PROVE  Ranked(schedules)[x] =
                IF schedules[x].due \in past
                THEN [schedules[x] EXCEPT !.due = Rank(schedules, schedules[x].due)]
                ELSE schedules[x]
  BY DEF Ranked, Past, Rank
<1>4. /\ Ranked(schedules)[c].due = IF a < 0 THEN Rank(schedules, a) ELSE a
      /\ Ranked(schedules)[c].state = schedules[c].state
  BY <1>1, <1>2, <1>3 DEF Schedule
<1>5. Ranked(schedules)[d].due = IF b < 0 THEN Rank(schedules, b) ELSE b
  BY <1>1, <1>2, <1>3 DEF Schedule
<1>6. a < 0 => Rank(schedules, a) \in Int /\ Rank(schedules, a) < 0
  BY <1>2, RankOrders
<1>7. b < 0 => Rank(schedules, b) \in Int /\ Rank(schedules, b) < 0
  BY <1>2, RankOrders
<1>8. a < 0 /\ b < 0 => /\ a < b => Rank(schedules, a) < Rank(schedules, b)
                        /\ b < a => Rank(schedules, b) < Rank(schedules, a)
  BY <1>2, RankOrders
<1>9. a = b => Rank(schedules, a) = Rank(schedules, b)
  OBVIOUS
<1> HIDE DEF a, b
<1> QED BY <1>1, <1>4, <1>5, <1>6, <1>7, <1>8, <1>9 DEF a, b

(* A new day moves every date alike: who was behind stays behind.          *)
LEMMA MidnightKeepsOrder ==
    ASSUME IInv, Midnight, NEW c \in DueCards, NEW d \in Cards,
           d \in DueCards', c \in DueCards', Before(d, c)'
    PROVE  d \in Ahead(c)
<1> DEFINE later == [x \in Cards |-> DaysLater(sched[x], 1)]
<1>1. /\ sched' = Ranked(later) /\ card' = card /\ c \in Cards
      /\ sched \in [Cards -> Schedule]
  BY DEF Midnight, IInv, TypeOK, DueCards
<1>2. ASSUME NEW x \in Cards
      PROVE  /\ later[x] \in Schedule /\ later[x].state = sched[x].state
             /\ sched[x].due = NoDate => later[x].due = NoDate
             /\ sched[x].due # NoDate => /\ sched[x].due \in Int
                                         /\ later[x].due = sched[x].due - 1
                                         /\ later[x].due # NoDate
  <2>1. Sound(sched[x])
    BY DEF IInv, TypeOK, ScheduleFitsRung, Sound
  <2>2. Sound(DaysLater(sched[x], 1))
    BY <2>1, LaterIsSound
  <2>3. CASE sched[x].due = NoDate
    BY <2>2, <2>3 DEF DaysLater, Sound
  <2>4. CASE sched[x].due # NoDate
    <3>1. sched[x] \in Schedule /\ sched[x].due \in Int
      BY <2>1, <2>4 DEF Sound, Schedule
    <3>2. DaysLater(sched[x], 1) = [sched[x] EXCEPT !.due = sched[x].due - 1]
      BY <2>4 DEF DaysLater
    <3> QED BY <2>2, <2>4, <3>1, <3>2, NullAssumption DEF Sound, Schedule
  <2> QED BY <2>3, <2>4
<1>3. later \in [Cards -> Schedule]
  BY <1>2
<1>4. \A x \in Cards : later[x].due = NoDate => sched'[x].due = NoDate
  <2> TAKE x \in Cards
  <2>1. later[x].due = NoDate => later[x].due \notin Past(later)
    BY DEF Past
  <2>2. Ranked(later)[x] = IF later[x].due \in Past(later)
                           THEN [later[x] EXCEPT !.due = Rank(later, later[x].due)]
                           ELSE later[x]
    BY DEF Ranked, Past, Rank
  <2> HIDE DEF later
  <2> QED BY <1>1, <2>1, <2>2
<1> HIDE DEF later
<1>5. sched[c].due # NoDate /\ sched[c].due <= 0 /\ card'[d] = "live"
      /\ sched'[d].due # NoDate /\ sched'[d].state = "learning"
  BY DEF DueCards
<1>6. later[c].due # NoDate /\ later[d].due # NoDate /\ sched[d].due # NoDate
  BY <1>1, <1>2, <1>4, <1>5
<1>7. /\ sched'[c].due \in Int /\ sched'[d].due \in Int
      /\ sched'[d].state = sched[d].state
      /\ later[c].due < later[d].due <=> sched'[c].due < sched'[d].due
      /\ later[d].due < later[c].due <=> sched'[d].due < sched'[c].due
  BY <1>1, <1>2, <1>3, <1>6, RankedOrder
<1>8. /\ sched[c].due < sched[d].due <=> sched'[c].due < sched'[d].due
      /\ sched[d].due < sched[c].due <=> sched'[d].due < sched'[c].due
      /\ sched[c].due \in Int /\ sched[d].due \in Int
  BY <1>1, <1>2, <1>5, <1>6, <1>7
<1>9. Before(d, c) /\ sched[d].due <= sched[c].due
  BY <1>7, <1>8 DEF Before
<1> QED BY <1>1, <1>5, <1>6, <1>7, <1>8, <1>9 DEF DueCards, Ahead

(* A due card only moves up in the queue.                                  *)
LEMMA MovesUp ==
    ASSUME IInv, Next, NEW c \in Cards, NEW d \in Cards,
           c \in DueCards, c \in DueCards',
           d \notin Ahead(c), d \in Ahead(c)'
    PROVE  Restore(d) \/ LateCommit(c) \/ LateCommit(d)
<1>1. d \in DueCards' /\ Before(d, c)'
  BY DEF Ahead
<1>2. ~ Midnight
  BY <1>1, MidnightKeepsOrder
<1>3. ~ Restore(c)
  BY DEF Restore, DueCards
<1>4. CASE /\ card'[c] = card[c] /\ sched'[c] = sched[c]
           /\ card'[d] = card[d] /\ sched'[d] = sched[d]
  BY <1>1, <1>4 DEF Ahead, DueCards, Before
<1> QED BY <1>1, <1>2, <1>3, <1>4, CardEffect

THEOREM NobodyJumpsTheQueueHolds == Spec => NobodyJumpsTheQueue
<1> DEFINE Step == \A c, d \in Cards :
                      /\ c \in DueCards /\ c \in DueCards'
                      /\ d \notin Ahead(c) /\ d \in Ahead(c)'
                      => Restore(d) \/ LateCommit(c) \/ LateCommit(d)
<1>1. IInv /\ [Next]_vars => [Step]_vars
  BY MovesUp DEF vars
<1>2. Spec => [][Step]_vars
  BY InitIInv, NextIInv, <1>1, PTL DEF Spec
<1> QED BY <1>2 DEF NobodyJumpsTheQueue

(* Being due before is a strict and total order of the due cards.          *)
LEMMA BeforeOrders ==
    ASSUME TypeOK, NEW b \in DueCards, NEW c \in DueCards, NEW d \in DueCards
    PROVE  /\ ~ Before(c, c)
           /\ Before(b, c) /\ Before(c, d) => Before(b, d)
           /\ c # d => Before(c, d) \/ Before(d, c)
<1>1. \A x \in DueCards : x \in Nat /\ sched[x].due \in Int
  BY CardsAssumption DEF DueCards, TypeOK, Schedule
<1> QED BY <1>1 DEF Before

LEMMA AheadIsFinite ==
    ASSUME NEW c \in DueCards
    PROVE  /\ IsFiniteSet(DueCards) /\ Cardinality(DueCards) \in Nat
           /\ IsFiniteSet(Ahead(c)) /\ Cardinality(Ahead(c)) \in Nat
           /\ Ahead(c) \in SUBSET DueCards
<1>1. IsFiniteSet(DueCards)
  BY CardsAssumption, FS_Subset DEF DueCards
<1>2. Ahead(c) \in SUBSET DueCards
  BY DEF Ahead
<1>3. IsFiniteSet(Ahead(c))
  BY <1>1, <1>2, FS_Subset
<1> QED BY <1>1, <1>2, <1>3, FS_CardinalityType

(* The further behind, the more cards are ahead.                           *)
LEMMA AheadGrows ==
    ASSUME TypeOK, NEW c \in DueCards, NEW d \in DueCards
    PROVE  /\ Cardinality(Ahead(c)) < Cardinality(DueCards)
           /\ Before(c, d) <=> Cardinality(Ahead(c)) < Cardinality(Ahead(d))
           /\ Cardinality(Ahead(c)) = Cardinality(Ahead(d)) => c = d
<1>1. ASSUME NEW x \in DueCards, NEW y \in DueCards, Before(x, y)
      PROVE  Cardinality(Ahead(x)) < Cardinality(Ahead(y))
  <2>1. Ahead(x) \in SUBSET Ahead(y) /\ x \in Ahead(y) /\ x \notin Ahead(x)
    BY <1>1, BeforeOrders DEF Ahead
  <2>2. /\ Cardinality(Ahead(x)) <= Cardinality(Ahead(y))
        /\ Cardinality(Ahead(y)) = Cardinality(Ahead(x)) => Ahead(y) = Ahead(x)
    BY <2>1, AheadIsFinite, FS_Subset
  <2> QED BY <2>1, <2>2, AheadIsFinite
<1>2. Cardinality(Ahead(c)) < Cardinality(DueCards)
  <2>1. c \notin Ahead(c)
    BY BeforeOrders DEF Ahead
  <2>2. /\ Cardinality(Ahead(c)) <= Cardinality(DueCards)
        /\ Cardinality(DueCards) = Cardinality(Ahead(c)) => DueCards = Ahead(c)
    BY AheadIsFinite, FS_Subset
  <2> QED BY <2>1, <2>2, AheadIsFinite
<1>3. /\ Before(c, d) => Cardinality(Ahead(c)) < Cardinality(Ahead(d))
      /\ Before(d, c) => Cardinality(Ahead(d)) < Cardinality(Ahead(c))
      /\ c # d => Before(c, d) \/ Before(d, c)
      /\ c = d => Cardinality(Ahead(c)) = Cardinality(Ahead(d))
  BY <1>1, BeforeOrders
<1>4. Cardinality(Ahead(c)) \in Nat /\ Cardinality(Ahead(d)) \in Nat
  BY AheadIsFinite
<1> QED BY <1>2, <1>3, <1>4

(* Every place up to the number of due cards is somebody's: as many cards  *)
(* as places, and no two in one.                                           *)
LEMMA PlacesAreTaken ==
    ASSUME TypeOK, NEW i \in 1..Cardinality(DueCards)
    PROVE  \E c \in DueCards : Cardinality(Ahead(c)) + 1 = i
<1> DEFINE n == Cardinality(DueCards)
           place == [c \in DueCards |-> Cardinality(Ahead(c)) + 1]
<1>1. IsFiniteSet(DueCards) /\ n \in Nat
  BY CardsAssumption, FS_Subset, FS_CardinalityType DEF DueCards
<1>2. \A c \in DueCards : Cardinality(Ahead(c)) \in Nat /\ Cardinality(Ahead(c)) < n
  BY AheadIsFinite, AheadGrows
<1>3. \A c, d \in DueCards : Cardinality(Ahead(c)) = Cardinality(Ahead(d)) => c = d
  BY AheadGrows
<1>4. place \in Injection(DueCards, 1..n)
  <2>1. place \in [DueCards -> 1..n]
    <3> SUFFICES ASSUME NEW c \in DueCards PROVE Cardinality(Ahead(c)) + 1 \in 1..n
      OBVIOUS
    <3> HIDE DEF n
    <3> QED BY <1>1, <1>2
  <2>2. \A c, d \in DueCards : place[c] = place[d] => c = d
    BY <1>2, <1>3
  <2> HIDE DEF place, n
  <2> QED BY <2>1, <2>2 DEF Injection, IsInjective
<1>5. IsFiniteSet(1..n) /\ Cardinality(1..n) = n
  <2> HIDE DEF n
  <2> QED BY <1>1, FS_Interval
<1>6. place \in Surjection(DueCards, 1..n)
  <2> HIDE DEF place
  <2> QED BY <1>4, <1>5, FS_Injection
<1>7. \E c \in DueCards : place[c] = i
  <2> HIDE DEF place
  <2> QED BY <1>6 DEF Surjection
<1> QED BY <1>7

(* In a list the query may return, the i-th card has i - 1 cards ahead.    *)
LEMMA ListedByRank ==
    ASSUME TypeOK, NEW list \in DueLists, NEW i \in DOMAIN list
    PROVE  list[i] \in DueCards /\ Cardinality(Ahead(list[i])) = i - 1
<1>1. PICK size : /\ list \in [1..size -> DueCards] /\ size \in Nat
                  /\ \A k, j \in 1..size : k < j => Before(list[k], list[j])
                  /\ \A k \in 1..size, c \in DueCards : Before(c, list[k]) =>
                        \E j \in 1..size : list[j] = c
  <2>1. Cardinality(DueCards) \in Nat
    BY CardsAssumption, FS_Subset, FS_CardinalityType DEF DueCards
  <2> QED BY <2>1, LimitAssumption DEF DueLists
<1>2. i \in 1..size /\ list[i] \in DueCards
  BY <1>1
<1> DEFINE first == [j \in 1..(i - 1) |-> list[j]]
<1>3. \A j \in 1..(i - 1) : j \in 1..size /\ j < i
  BY <1>1, <1>2
<1>4. first \in [1..(i - 1) -> Ahead(list[i])]
  BY <1>1, <1>2, <1>3 DEF Ahead
<1>5. \A j, k \in 1..(i - 1) : first[j] = first[k] => j = k
  <2> SUFFICES ASSUME NEW j \in 1..(i - 1), NEW k \in 1..(i - 1), j # k
               PROVE  list[j] # list[k]
    OBVIOUS
  <2>1. j < k \/ k < j
    BY <1>2
  <2> QED BY <1>1, <1>3, <2>1, BeforeOrders
<1>6. \A c \in Ahead(list[i]) : \E j \in 1..(i - 1) : first[j] = c
  <2> SUFFICES ASSUME NEW c \in Ahead(list[i])
               PROVE  \E j \in 1..(i - 1) : list[j] = c
    OBVIOUS
  <2>1. c \in DueCards /\ Before(c, list[i])
    BY DEF Ahead
  <2>2. PICK j \in 1..size : list[j] = c
    BY <1>1, <1>2, <2>1
  <2>3. ~ (i < j) /\ i # j
    BY <1>1, <1>2, <2>1, <2>2, BeforeOrders
  <2>4. j \in 1..(i - 1)
    BY <1>1, <1>2, <2>2, <2>3
  <2> QED BY <2>2, <2>4
<1>7. first \in Bijection(1..(i - 1), Ahead(list[i]))
  <2> HIDE DEF first
  <2> QED BY <1>4, <1>5, <1>6 DEF Bijection, Injection, IsInjective, Surjection
<1>8. IsFiniteSet(1..(i - 1)) /\ Cardinality(1..(i - 1)) = i - 1
  BY <1>2, FS_Interval
<1> HIDE DEF first
<1>9. Cardinality(Ahead(list[i])) = Cardinality(1..(i - 1))
  BY <1>7, <1>8, FS_Bijection DEF ExistsBijection
<1> QED BY <1>2, <1>8, <1>9

(* The list is the queue: the query has one answer, in which a card within *)
(* the cap stands behind as many cards as are due before it.               *)
ListIsTheQueue ==
    \E list \in DueLists :
        /\ DueLists = {list}
        /\ \A c \in DueCards : Cardinality(Ahead(c)) < DueLimit =>
              list[Cardinality(Ahead(c)) + 1] = c

LEMMA QueueIsListed == TypeOK => ListIsTheQueue
<1> SUFFICES ASSUME TypeOK PROVE ListIsTheQueue
  OBVIOUS
<1> DEFINE n == Cardinality(DueCards)
           size == IF n < DueLimit THEN n ELSE DueLimit
           list == [i \in 1..size |-> CHOOSE c \in DueCards : Cardinality(Ahead(c)) + 1 = i]
<1>1. /\ n \in Nat /\ size \in Nat /\ size <= n /\ size <= DueLimit
      /\ \A k \in Nat : k < n /\ k < DueLimit => k < size
  <2>1. n \in Nat
    BY CardsAssumption, FS_Subset, FS_CardinalityType DEF DueCards
  <2> HIDE DEF n
  <2> QED BY <2>1, LimitAssumption
<1>2. DueLists = {l \in [1..size -> DueCards] :
            \A i \in 1..size :
                /\ \A j \in 1..size : i < j => Before(l[i], l[j])
                /\ \A c \in DueCards : Before(c, l[i]) =>
                        \E j \in 1..size : l[j] = c}
  BY DEF DueLists
<1>3. \A c \in DueCards : Cardinality(Ahead(c)) \in Nat /\ Cardinality(Ahead(c)) < n
  BY AheadIsFinite, AheadGrows
<1>4. ASSUME NEW i \in 1..size
      PROVE  list[i] \in DueCards /\ Cardinality(Ahead(list[i])) + 1 = i
  <2>1. i \in 1..n
    <3> HIDE DEF n, size
    <3> QED BY <1>1
  <2>2. \E c \in DueCards : Cardinality(Ahead(c)) + 1 = i
    BY <2>1, PlacesAreTaken
  <2> QED BY <2>2
<1>5. ASSUME NEW c \in DueCards, Cardinality(Ahead(c)) < size
      PROVE  /\ Cardinality(Ahead(c)) + 1 \in 1..size
             /\ list[Cardinality(Ahead(c)) + 1] = c
  <2> HIDE DEF list, n, size
  <2>1. Cardinality(Ahead(c)) + 1 \in 1..size
    BY <1>1, <1>3, <1>5
  <2>2. /\ list[Cardinality(Ahead(c)) + 1] \in DueCards
        /\ Cardinality(Ahead(list[Cardinality(Ahead(c)) + 1])) = Cardinality(Ahead(c))
    BY <1>3, <1>4, <2>1
  <2> QED BY <2>1, <2>2, AheadGrows
<1>6. list \in DueLists
  <2>1. list \in [1..size -> DueCards]
    <3>1. \A i \in 1..size : list[i] \in DueCards
      BY <1>4
    <3> QED BY <3>1
  <2> HIDE DEF list, n, size
  <2>2. ASSUME NEW i \in 1..size, NEW j \in 1..size, i < j
        PROVE  Before(list[i], list[j])
    <3>1. Cardinality(Ahead(list[i])) < Cardinality(Ahead(list[j]))
      BY <1>1, <1>3, <1>4, <2>2
    <3> QED BY <1>4, <3>1, AheadGrows
  <2>3. ASSUME NEW i \in 1..size, NEW c \in DueCards, Before(c, list[i])
        PROVE  \E j \in 1..size : list[j] = c
    <3>1. Cardinality(Ahead(c)) < Cardinality(Ahead(list[i]))
      BY <1>4, <2>3, AheadGrows
    <3>2. Cardinality(Ahead(c)) < size
      BY <1>1, <1>3, <1>4, <3>1
    <3> QED BY <1>5, <3>2
  <2> QED BY <1>2, <2>1, <2>2, <2>3
<1>7. ASSUME NEW l \in DueLists
      PROVE  l = list
  <2>1. l \in [1..size -> DueCards]
    BY <1>2
  <2>2. ASSUME NEW i \in 1..size
        PROVE  l[i] = list[i]
    <3> HIDE DEF list, n, size
    <3>1. l[i] \in DueCards /\ Cardinality(Ahead(l[i])) = i - 1
      BY <2>1, ListedByRank
    <3>2. Cardinality(Ahead(l[i])) = Cardinality(Ahead(list[i]))
      BY <1>1, <1>3, <1>4, <3>1
    <3> QED BY <1>4, <3>1, <3>2, AheadGrows
  <2> QED BY <2>1, <2>2
<1>8. ASSUME NEW c \in DueCards, Cardinality(Ahead(c)) < DueLimit
      PROVE  list[Cardinality(Ahead(c)) + 1] = c
  <2> HIDE DEF list, n, size
  <2> QED BY <1>1, <1>3, <1>5, <1>8
<1> HIDE DEF list, n, size
<1>9. DueLists = {list}
  BY <1>6, <1>7
<1> QED BY <1>6, <1>8, <1>9 DEF ListIsTheQueue

(* A card is offered when fewer cards than the cap are ahead of it.        *)
LEMMA OfferedByRank ==
    TypeOK => \A c \in DueCards : Offered(c) <=> Cardinality(Ahead(c)) < DueLimit
<1> SUFFICES ASSUME TypeOK, NEW c \in DueCards
             PROVE  Offered(c) <=> Cardinality(Ahead(c)) < DueLimit
  OBVIOUS
<1>1. PICK list \in DueLists :
          /\ DueLists = {list}
          /\ \A d \in DueCards : Cardinality(Ahead(d)) < DueLimit =>
                list[Cardinality(Ahead(d)) + 1] = d
  BY QueueIsListed DEF ListIsTheQueue
<1>2. PICK size \in Nat :
          /\ list \in [1..size -> DueCards] /\ size <= DueLimit
          /\ size = Cardinality(DueCards) \/ size = DueLimit
  <2>1. Cardinality(DueCards) \in Nat
    BY CardsAssumption, FS_Subset, FS_CardinalityType DEF DueCards
  <2> QED BY <2>1, LimitAssumption DEF DueLists
<1>3. Cardinality(Ahead(c)) \in Nat /\ Cardinality(Ahead(c)) < Cardinality(DueCards)
      /\ Cardinality(DueCards) \in Nat
  BY AheadIsFinite, AheadGrows
<1>4. ASSUME Cardinality(Ahead(c)) < DueLimit PROVE Offered(c)
  <2>1. Cardinality(Ahead(c)) + 1 \in DOMAIN list
    BY <1>2, <1>3, <1>4
  <2> QED BY <1>1, <1>4, <2>1 DEF Offered
<1>5. ASSUME Offered(c) PROVE Cardinality(Ahead(c)) < DueLimit
  <2>1. PICK i \in DOMAIN list : list[i] = c
    BY <1>5 DEF Offered
  <2>2. Cardinality(Ahead(c)) = i - 1
    BY <2>1, ListedByRank
  <2>3. i \in 1..size
    BY <1>2
  <2> QED BY <1>2, <2>2, <2>3, LimitAssumption
<1> QED BY <1>4, <1>5

(* A card that is offered stays offered: whoever is ahead of it later was  *)
(* ahead of it before, so no midnight and no rating pushes it past the cap.*)
RankedBelow(c) == Cardinality(Ahead(c)) < DueLimit
OfferedMeansRanked == \A c \in DueCards : Offered(c) <=> RankedBelow(c)

LEMMA RankIsKept == ASSUME TypeOK PROVE OfferedMeansRanked
BY OfferedByRank DEF OfferedMeansRanked, RankedBelow

LEMMA FewerAhead ==
    ASSUME NEW A, NEW B \in SUBSET A, IsFiniteSet(A), Cardinality(A) < DueLimit
    PROVE  Cardinality(B) < DueLimit
BY FS_Subset, FS_CardinalityType, LimitAssumption

THEOREM OfferedUntilRatedHolds == Spec => OfferedUntilRated
<1> DEFINE Step == \A c \in Cards : Offered(c) /\ c \in DueCards' =>
                      \/ Offered(c)'
                      \/ \E d \in Cards : Restore(d) \/ LateCommit(d)
<1>1. IInv /\ OfferedMeansRanked /\ OfferedMeansRanked' /\ [Next]_vars
      => [Step]_vars
  <2> SUFFICES ASSUME IInv, OfferedMeansRanked, OfferedMeansRanked', Next,
                      NEW c \in Cards, Offered(c), c \in DueCards',
                      ~ \E d \in Cards : Restore(d) \/ LateCommit(d)
               PROVE  Offered(c)'
    BY DEF vars
  <2>1. c \in DueCards /\ RankedBelow(c)
    BY DEF Offered, OfferedMeansRanked
  <2>2. Ahead(c)' \in SUBSET Ahead(c)
    <3> SUFFICES ASSUME NEW d \in Ahead(c)' PROVE d \in Ahead(c)
      OBVIOUS
    <3>1. d \in Cards
      BY DEF Ahead, DueCards
    <3> QED BY <2>1, <3>1, MovesUp
  <2>3. RankedBelow(c)'
    BY <2>1, <2>2, AheadIsFinite, FewerAhead DEF RankedBelow
  <2> QED BY <2>3 DEF OfferedMeansRanked
<1>2. IInv => OfferedMeansRanked
  BY RankIsKept DEF IInv
<1>3. Spec => [][Step]_vars
  BY InitIInv, NextIInv, <1>1, <1>2, PTL DEF Spec
<1> QED BY <1>3 DEF OfferedUntilRated
=============================================================================
