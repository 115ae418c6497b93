------------------------------ MODULE DueReview ------------------------------
(***************************************************************************)
(* The scheduled review: the ladder of internal/srs, the due list and the  *)
(* rating handler of internal/api/review.go, and the page that walks the   *)
(* list, web/src/features/review/ReviewPage.tsx.                           *)
(*                                                                         *)
(* Dates are days from the server's today, so a day that passes moves      *)
(* every date one closer.  The page is one browser tab with its query      *)
(* cache; ratings another tab sends, and ratings this tab has stopped      *)
(* waiting for, are requests like its own that nobody on the page awaits.  *)
(***************************************************************************)
EXTENDS Integers, Sequences, FiniteSets

CONSTANTS
    Cards,     \* card ids; uuids are ordered, and so are these numbers
    Ladder,    \* Intervals, in days: <<1, 3, 7, 14, 30, 90, 180>>
    DueLimit,  \* DefaultDueLimit
    Requests,  \* ratings the server works on at once
    Nobody,    \* the page waits for no rating
    Answered,  \* the rating it waited for has succeeded
    NoDate,    \* a NULL next_review_date
    NoDeck     \* a query cache that holds no due list

ASSUME CardsAssumption == Cards \subseteq Nat /\ IsFiniteSet(Cards)
ASSUME LadderAssumption == Ladder \in Seq(Nat \ {0}) /\ Ladder # <<>>
ASSUME LimitAssumption == DueLimit \in Nat \ {0}
ASSUME NullAssumption == /\ NoDate \notin Int
                         /\ NoDeck \notin Seq(Cards)
                         /\ Nobody \notin Requests
                         /\ Answered \notin Requests \cup {Nobody}

VARIABLES
    card,     \* cards: no row yet, live, or with deleted_at set
    sched,    \* card_schedules
    request,  \* the ratings on their way to the server or in it
    awaited,  \* the one the page is waiting for
    open,     \* the review page is mounted
    deck,     \* the cached due list
    stale,    \* the cached list was invalidated and not replaced since
    broken,   \* the last fetch failed: its error is on screen
    fetch,    \* the GET /review/due in flight
    index,    \* the card on screen, counted from 0
    reveal    \* what became of showing its answer

store == <<card, sched>>
cache == <<deck, stale, broken, fetch>>
screen == <<open, index, reveal, awaited>>
vars == <<store, request, cache, screen>>

-----------------------------------------------------------------------------
(* The ladder.                                                             *)

Ratings == {"ingat", "lupa"}
Top == Len(Ladder) - 1
Interval(stage) == Ladder[stage + 1]

Learning(stage, due) == [stage |-> stage, due |-> due, state |-> "learning"]

(* srs.Next.  Three slips: a card mastered one rung above the top, a card  *)
(* that waits longer than its rung, and a forgotten card that is asked     *)
(* again the same day.                                                     *)
PastTop == [stage |-> Top + 1, due |-> NoDate, state |-> "mastered"]
Mastered == [stage |-> Top, due |-> NoDate, state |-> "mastered"]

LongerWait(stage, rating) ==
    IF rating = "lupa" THEN Learning(0, Interval(0))
    ELSE IF stage < Top THEN Learning(stage, Interval(stage + 1))
    ELSE Mastered
SameDay(stage, rating) ==
    IF rating = "lupa" THEN Learning(0, 0)
    ELSE IF stage < Top THEN Learning(stage + 1, Interval(stage + 1))
    ELSE Mastered
NextSchedule(stage, rating) ==
    IF rating = "lupa" THEN Learning(0, Interval(0))
    ELSE IF stage < Top THEN Learning(stage + 1, Interval(stage + 1))
    ELSE Mastered

NewSchedule == Learning(0, Interval(0))

(* The same schedule once n midnights have passed.                         *)
DaysLater(s, n) == IF s.due = NoDate THEN s ELSE [s EXCEPT !.due = @ - n]

(* Bound: of dates in the past only the order is kept, the latest as -1.   *)
(* Nothing in the code asks for more of them.                              *)
Ranked(schedules) ==
    LET past == {schedules[c].due : c \in {d \in Cards :
                    schedules[d].due # NoDate /\ schedules[d].due < 0}}
    IN  [c \in Cards |->
           IF schedules[c].due \in past
           THEN [schedules[c] EXCEPT !.due =
                   - Cardinality({date \in past : date >= @})]
           ELSE schedules[c]]

-----------------------------------------------------------------------------
(* GET /review/due: ListDueCards.                                          *)

DueCards == {c \in Cards : /\ card[c] = "live"
                           /\ sched[c].state = "learning"
                           /\ sched[c].due # NoDate
                           /\ sched[c].due <= 0}

(* ORDER BY next_review_date, id.  The slip: the newest first.             *)
NewestFirst(c, d) ==
    \/ sched[c].due > sched[d].due
    \/ sched[c].due = sched[d].due /\ c < d
Before(c, d) ==
    \/ sched[c].due < sched[d].due
    \/ sched[c].due = sched[d].due /\ c < d

(* The one list in that order that leaves no earlier card out.  The slip:  *)
(* the cap is applied before the order.                                    *)
CappedFirst ==
    LET due == Cardinality(DueCards)
        size == IF due < DueLimit THEN due ELSE DueLimit
    IN  {list \in [1..size -> DueCards] :
            \A i, j \in 1..size : i < j => Before(list[i], list[j])}
DueLists ==
    LET due == Cardinality(DueCards)
        size == IF due < DueLimit THEN due ELSE DueLimit
    IN  {list \in [1..size -> DueCards] :
            \A i \in 1..size :
                /\ \A j \in 1..size : i < j => Before(list[i], list[j])
                /\ \A c \in DueCards : Before(c, list[i]) =>
                        \E j \in 1..size : list[j] = c}

-----------------------------------------------------------------------------
Idle == [pc |-> "idle"]

Request ==
    [pc: {"idle"}]
    \cup [pc: {"sent"}, card: Cards, rating: Ratings]
    \cup [pc: {"read"}, card: Cards, rating: Ratings, stage: 0..Top,
          nights: {0, 1}]

Schedule == [stage: 0..Top, due: Int \cup {NoDate},
             state: {"learning", "mastered"}]

NoFetch == [pc |-> "none"]
Fetch == [pc: {"none", "sent"}] \cup [pc: {"landing"}, list: Seq(Cards)]

TypeOK ==
    /\ card \in [Cards -> {"none", "live", "trashed"}]
    /\ sched \in [Cards -> Schedule]
    /\ request \in [Requests -> Request]
    /\ awaited \in Requests \cup {Nobody, Answered}
    /\ open \in BOOLEAN
    /\ deck \in Seq(Cards) \cup {NoDeck}
    /\ stale \in BOOLEAN
    /\ broken \in BOOLEAN
    /\ fetch \in Fetch
    /\ index \in Nat
    /\ reveal \in {"hidden", "shown", "missing"}

Init ==
    /\ card = [c \in Cards |-> "none"]
    /\ sched = [c \in Cards |-> NewSchedule]
    /\ request = [r \in Requests |-> Idle]
    /\ awaited = Nobody
    /\ open = FALSE
    /\ deck = NoDeck
    /\ stale = FALSE
    /\ broken = FALSE
    /\ fetch = [pc |-> "sent"]
    /\ index = 0
    /\ reveal = "hidden"

-----------------------------------------------------------------------------
(* The page.                                                               *)

(* A CardReview that leaves the screen forgets that it showed the answer   *)
(* and which rating it was waiting for; the server still gets the rating.  *)
(* The slip: a component kept for the next card.                           *)
KeptComponent == UNCHANGED <<reveal, awaited>>
NewCardOnScreen == reveal' = "hidden" /\ awaited' = Nobody
SameCardOnScreen == UNCHANGED <<reveal, awaited>>

Sending == [pc |-> "sent"]

(* staleTime is infinite: mounting, or coming back online, asks for a list *)
(* only if there is none or if it was invalidated and not replaced.        *)
Wanted == fetch = NoFetch /\ (deck = NoDeck \/ stale)

Open ==
    /\ ~ open
    /\ open' = TRUE
    /\ fetch' = IF Wanted THEN Sending ELSE fetch
    /\ UNCHANGED <<store, request, deck, stale, broken, index, reveal, awaited>>

(* The home page and the review home show the same query.                  *)
Refetch ==
    /\ Wanted
    /\ fetch' = Sending
    /\ UNCHANGED <<store, request, deck, stale, broken, screen>>

(* Leaving invalidates the list.  AppShell observes it too, so it is asked *)
(* for again at once: a fetch in flight is started over, the first of all  *)
(* is joined.  The old list stays until the new one lands.                 *)
Leave ==
    /\ open
    /\ open' = FALSE
    /\ index' = 0
    /\ NewCardOnScreen
    /\ stale' = TRUE
    /\ fetch' = IF fetch # NoFetch /\ deck = NoDeck THEN fetch ELSE Sending
    /\ UNCHANGED <<store, request, deck, broken>>

(* The browser loads the app again, on the review page or another.         *)
Reload ==
    /\ open' \in BOOLEAN
    /\ index' = 0
    /\ NewCardOnScreen
    /\ deck' = NoDeck
    /\ stale' = FALSE
    /\ broken' = FALSE
    /\ fetch' = Sending
    /\ UNCHANGED <<store, request>>

(* handleDueCards reads the list; the response is on its way.              *)
ReadDue ==
    /\ fetch.pc = "sent"
    /\ \E list \in DueLists : fetch' = [pc |-> "landing", list |-> list]
    /\ UNCHANGED <<store, request, deck, stale, broken, screen>>

(* A fetch that failed shows its error in place of the cards.              *)
OnScreen(d, error) ==
    IF open /\ ~ error /\ d # NoDeck /\ index < Len(d) THEN {d[index + 1]}
    ELSE {}

(* The list replaces the cached one under the index of an open page.       *)
Land ==
    /\ fetch.pc = "landing"
    /\ deck' = fetch.list
    /\ stale' = FALSE
    /\ broken' = FALSE
    /\ fetch' = NoFetch
    /\ IF OnScreen(deck, broken) = OnScreen(fetch.list, FALSE)
       THEN SameCardOnScreen ELSE NewCardOnScreen
    /\ UNCHANGED <<store, request, open, index>>

FetchFails ==
    /\ fetch # NoFetch
    /\ fetch' = NoFetch
    /\ broken' = TRUE
    /\ NewCardOnScreen
    /\ UNCHANGED <<store, request, deck, stale, open, index>>

Asking(c) == c \in OnScreen(deck, broken)

(* handleCardAnswer: 404 for a card deleted since the list was read.  With *)
(* no answer, for that reason or another, the buttons stay disabled.       *)
Reveal(c) ==
    /\ Asking(c)
    /\ reveal = "hidden"
    /\ reveal' \in {"missing"} \cup (IF card[c] = "live" THEN {"shown"} ELSE {})
    /\ UNCHANGED <<store, request, cache, open, index, awaited>>

Sent(c, rating) == [pc |-> "sent", card |-> c, rating |-> rating]

Press(c, rating) ==
    /\ Asking(c)
    /\ reveal = "shown"
    /\ awaited = Nobody
    /\ \E r \in Requests :
          /\ request[r] = Idle
          /\ request' = [request EXCEPT ![r] = Sent(c, rating)]
          /\ awaited' = r
    /\ UNCHANGED <<store, cache, open, index, reveal>>

(* Another tab, whose list may be of any age.  (Bound: of Requests, one is *)
(* left for the page.)                                                     *)
PressElsewhere(c, rating) ==
    /\ card[c] # "none"
    /\ \E r \in Requests :
          /\ request[r] = Idle
          /\ \E other \in Requests \ {r} : request[other] = Idle
          /\ request' = [request EXCEPT ![r] = Sent(c, rating)]
    /\ UNCHANGED <<store, cache, screen>>

-----------------------------------------------------------------------------
(* POST /review/due/{cardID}: handleRate, one transaction.  GetCardWith-   *)
(* Schedule takes no lock, so a rating that commits between the read and   *)
(* the update is overwritten.                                              *)

RateRead(r) ==
    /\ request[r].pc = "sent"
    /\ card[request[r].card] = "live"
    /\ request' = [request EXCEPT ![r] =
          [pc |-> "read", card |-> @.card, rating |-> @.rating,
           stage |-> sched[@.card].stage, nights |-> 0]]
    /\ UNCHANGED <<store, cache, screen>>

(* The date was computed when the request was read, before any midnight    *)
(* that has passed since.                                                  *)
RateCommit(r) ==
    /\ request[r].pc = "read"
    /\ LET this == request[r]
       IN  sched' = [sched EXCEPT ![this.card] =
               DaysLater(NextSchedule(this.stage, this.rating), this.nights)]
    /\ request' = [request EXCEPT ![r] = Idle]
    /\ awaited' = IF awaited = r THEN Answered ELSE awaited
    /\ UNCHANGED <<card, cache, open, index, reveal>>

(* 404 for a deleted card, a rollback, or a request that never arrives:    *)
(* the page shows an error and enables its buttons again.                  *)
RateFails(r) ==
    /\ request[r].pc \in {"sent", "read"}
    /\ request' = [request EXCEPT ![r] = Idle]
    /\ awaited' = IF awaited = r THEN Nobody ELSE awaited
    /\ UNCHANGED <<store, cache, open, index, reveal>>

(* onRated: the next card comes up, unrevealed.                            *)
Advance ==
    /\ awaited = Answered
    /\ index' = index + 1
    /\ NewCardOnScreen
    /\ UNCHANGED <<store, request, cache, open>>

(* The answer is lost on its way back, or the client gives up on it.       *)
LoseAnswer ==
    /\ awaited # Nobody
    /\ awaited' = Nobody
    /\ UNCHANGED <<store, request, cache, open, index, reveal>>

-----------------------------------------------------------------------------
(* CreateCard: the card and its schedule commit together.                  *)
Capture(c) ==
    /\ card[c] = "none"
    /\ card' = [card EXCEPT ![c] = "live"]
    /\ sched' = [sched EXCEPT ![c] = NewSchedule]
    /\ UNCHANGED <<request, cache, screen>>

(* SoftDeleteCards and RestoreCards leave card_schedules alone.            *)
Trash(c) ==
    /\ card[c] = "live"
    /\ card' = [card EXCEPT ![c] = "trashed"]
    /\ UNCHANGED <<sched, request, cache, screen>>

Restore(c) ==
    /\ card[c] = "trashed"
    /\ card' = [card EXCEPT ![c] = "live"]
    /\ UNCHANGED <<sched, request, cache, screen>>

(* Midnight on the server's clock.  A request lives for seconds, so it     *)
(* sees one at most.                                                       *)
Midnight ==
    /\ \A r \in Requests : request[r].pc = "read" => request[r].nights = 0
    /\ sched' = Ranked([c \in Cards |-> DaysLater(sched[c], 1)])
    /\ request' = [r \in Requests |->
          IF request[r].pc = "read" THEN [request[r] EXCEPT !.nights = 1]
          ELSE request[r]]
    /\ UNCHANGED <<card, cache, screen>>

-----------------------------------------------------------------------------
Page ==
    \/ Open \/ Refetch \/ Leave \/ Reload \/ Land \/ FetchFails \/ Advance
    \/ LoseAnswer
    \/ \E c \in Cards : Reveal(c) \/ \E rating \in Ratings : Press(c, rating)

Server ==
    \/ ReadDue
    \/ \E r \in Requests : RateRead(r) \/ RateCommit(r) \/ RateFails(r)

Elsewhere ==
    \/ \E c \in Cards, rating \in Ratings : PressElsewhere(c, rating)
    \/ \E c \in Cards : Capture(c) \/ Trash(c) \/ Restore(c)

Next == Page \/ Server \/ Elsewhere \/ Midnight

Spec == Init /\ [][Next]_vars

-----------------------------------------------------------------------------
(* Fairness.  From some day on the network stops failing, the tab and the  *)
(* cards are kept, no rating straddles midnight, and the user waits for a  *)
(* list, rates what is on screen and leaves only when nothing is left to   *)
(* rate.  Before that day anything may happen, any number of times, and no *)
(* midnight ever has to come.                                              *)

NothingToRate ==
    /\ fetch = NoFetch
    /\ \A c \in OnScreen(deck, broken) : card[c] # "live" \/ reveal = "missing"

Refused(r) == request[r].pc # "idle" /\ card[request[r].card] # "live"

Progress ==
    \/ Open \/ Advance
    \/ \E c \in Cards : Reveal(c) \/ \E rating \in Ratings : Press(c, rating)
    \/ \E r \in Requests :
          RateRead(r) \/ RateCommit(r) \/ (Refused(r) /\ RateFails(r))

Disturbance ==
    \/ Reload \/ FetchFails \/ LoseAnswer
    \/ ~ NothingToRate /\ Leave
    \/ \E c \in Cards : \/ Trash(c)
                        \/ Reveal(c) /\ card[c] = "live" /\ reveal' = "missing"
    \/ \E r \in Requests : ~ Refused(r) /\ RateFails(r)
    \/ Midnight /\ \E r \in Requests : request[r].pc = "read"

Settles == <>[][~ Disturbance]_vars

FairSpec ==
    /\ Spec
    /\ WF_vars(Progress)
    /\ WF_vars(ReadDue \/ Land) /\ WF_vars(NothingToRate /\ Leave)
    /\ Settles

-----------------------------------------------------------------------------
(* Properties.                                                             *)

(* A schedule is whole whoever wrote it last: only a mastered card has no  *)
(* date, it sits on the top rung, and no card waits longer than its rung   *)
(* says.  handleRate writes stage, date and state from one reading, so     *)
(* overwriting another rating never mixes two of them (review.go:159-199). *)
FitsRung(s) ==
    /\ s.state = "mastered" <=> s.due = NoDate
    /\ s.state = "mastered" => s.stage = Top
    /\ s.state = "learning" => s.due <= Interval(s.stage)
ScheduleFitsRung == \A c \in Cards : FitsRung(sched[c])

(* The page only waits for a rating of the card it shows, with its answer  *)
(* revealed, however lists land, fetches fail and the page is left in      *)
(* between; so onRated never skips a card that was not rated               *)
(* (ReviewPage.tsx:54-61, key={cards[index].id}).                          *)
AwaitedIsOnScreen ==
    /\ awaited # Nobody => reveal = "shown" /\ OnScreen(deck, broken) # {}
    /\ awaited \in Requests =>
          /\ request[awaited].pc # "idle"
          /\ OnScreen(deck, broken) = {request[awaited].card}

(* A rating of this card, computed before midnight and stored after it.    *)
LateCommit(c) ==
    \E r \in Requests : /\ request[r].pc = "read"
                        /\ request[r].nights = 1 /\ request[r].card = c
                        /\ RateCommit(r)

(* A card becomes due with a new day or when it is taken out of the trash; *)
(* no rating makes a card due on the day it is made, unless it was         *)
(* computed before midnight and stored after it (srs.go:86-108).           *)
DueOnlyByCalendar ==
    [][\A c \in Cards : c \notin DueCards /\ c \in DueCards'
          => Midnight \/ Restore(c) \/ LateCommit(c)]_vars

(* Nobody jumps the queue: of the cards that are due, none gets ahead of   *)
(* one that is waiting, over any midnight or rating, unless it comes back  *)
(* from the trash or one of the two was stored late.  With it the cap of   *)
(* the list only delays a card (cards.sql:146-159).                        *)
Ahead(c) == {d \in DueCards : Before(d, c)}
NobodyJumpsTheQueue ==
    [][\A c, d \in Cards :
          /\ c \in DueCards /\ c \in DueCards'
          /\ d \notin Ahead(c) /\ d \in Ahead(c)'
          => Restore(d) \/ LateCommit(c) \/ LateCommit(d)]_vars

(* A card the page was offered is offered again until it is rated or taken *)
(* away: over midnights that make others due, ratings of others and cards  *)
(* that are captured, no list it is due in leaves it out, unless a card    *)
(* came back from the trash or was stored late.  So a list fetched in the  *)
(* middle of a session keeps what is left of the one before it             *)
(* (cards.sql:146-159, review.go:65-73, queries.ts:40-51).                 *)
Offered(c) ==
    c \in DueCards /\ \A list \in DueLists : \E i \in DOMAIN list : list[i] = c
OfferedUntilRated ==
    [][\A c \in Cards : Offered(c) /\ c \in DueCards' =>
          \/ Offered(c)'
          \/ \E d \in Cards : Restore(d) \/ LateCommit(d)]_vars

(* A due card does not stay due for ever, however often the cards ahead of *)
(* it are forgotten and come back: the list is capped, and oldest first    *)
(* (cards.sql:146-159, review.go:65-73).                                   *)
NoCardStarves == \A c \in Cards : c \in DueCards ~> c \notin DueCards
=============================================================================
