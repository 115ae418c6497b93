# Konku: a TLA+ verification project

Konku is a note-taking and spaced-repetition application: a Go server over
Postgres (`internal/`, `migrations/`) and a React client that talks to it over
JSON (`web/src/`). This directory models the parts of it whose correctness
depends on what happens *between* steps: concurrent requests, cached lists,
lost answers, midnights. TLC checks the models on small instances, and TLAPS
proves the invariants for every value of the constants.

    tlc -config ReviewRuns_starts.cfg MC_ReviewRuns     # a run
    tlapm ReviewRunsProofs.tla                          # its proofs

`PROJECT.json` lists the runs, the mutants, the source lines each definition
models, the hazards and the findings.

## 1. Inventory

| component | state it keeps | operations | what is hard | what makes it correct |
|---|---|---|---|---|
| Review runs (`store/reviewsets.go`, `api/reviewsets.go`) | `review_sets`, `review_runs`, `review_run_cards`, `review_logs` | start, resume, answer, finish, discard; archive and delete a set | each handler is several transactions, each transaction several READ COMMITTED statements; double clicks and two tabs | one open run per set; frozen question sheets; one answer per question; scores backed by the log; no evidence lost |
| Run page (`RunPage.tsx`, `setQueries.ts`) | cached copy of the run, position, step and result of the question shown | begin, resume, reveal, answer, skip, finish | a copy that is never refetched while it is played; answers lost; another tab; cards deleted under the run | says what the log holds; offers the finish when nothing is left; a run can always be finished |
| Scheduled review (`srs/srs.go`, `api/review.go`, `queries/cards.sql`) | `card_schedules` | list due cards, show an answer, rate | two ratings read one schedule; midnight during a rating; a capped list | schedules stay on the ladder; nothing is due early; no due card starves |
| Review page (`ReviewPage.tsx`, `review/queries.ts`) | query cache, index, reveal, pending mutation | open, leave, reveal, rate | lists land and fail under an open page; ratings answered after the page moved on | never skips an unrated card |
| Note editor (`NoteEditorPage.tsx`, `useFlushOnHide.ts`, `api/notes.go`) | `notes`; typed text, last saved, timers, cached note | autosave, retry, online, unmount save, hidden tab, keepalive flush, delete | five triggers for one text, overlapping saves, a partial PATCH in two transactions, a cache that may be old | unsaved text always has a save coming; outside the races section 3 names, the last text typed is stored; the trash does not change |
| Card editor (`CardEditorPage.tsx`, `api/cards.go`) | `cards`; the form, last saved, cached card | explicit save, hidden tab, unmount save, flush, delete | the new form turns into an editor only by a navigation; four ways to save before it | one card per visit of the form; a filled card is kept |
| Notes list (`NotesPage.tsx`, `use-selection.ts`, `paging.ts`, `peek-route.tsx`) | pages of two queries, ticks, undo, preview | load, page, tick, delete, restore, undo, create, preview | offset pages around deletes; ids read at several moments; a list alive under a pending navigation | no gap in what is loaded, or a reload that mends it; an exact undo; a new note opens in its editor |
| Focus timer (`timer/`, `api/sessions.go`) | a timer per tab, one local-storage key, `focus_sessions` | start, pause, resume, reset, tick, record, retry, capture | reloads, two tabs over one key, late answers, a default that changes | a session is recorded after it ran, as the minutes it ran, and once; the tab that sent it says when the record failed |
| Review-set configuration (`api/reviewsets.go`) | `review_sets` columns, `review_set_cards`, filters | create, update, set pinned cards | read-modify-write over two transactions; clear-and-insert of the pinned list | partial updates keep the other fields |
| Cards (`api/cards.go`, `store/cards.go`) | `cards`, `card_categories` | capture, edit, soft-delete, restore, bulk | a schedule must exist for every card and survive the trash | card and schedule commit together |
| Cards list (`CardsPage.tsx`) | as the notes list | as the notes list | as the notes list | as the notes list |
| Trash purge (`store/purge.go`) | deleted rows past retention | nightly sweep over accounts | one account failing; restores in between | history is never purged; every account is swept |
| Quotas, write limits (`api/quota.go`, `api/ratelimit.go`) | counts, fixed windows | count-then-insert, allow | races at the cap, window boundaries | bounded excess; a bounded map |
| Accounts, sessions, tokens (`auth/`) | `users`, `sessions`, `auth_tokens` | sign up, verify, log in, reset, suspend, delete | two-step operations, single-use tokens | a token is spent once |
| Domains, categories, settings, export, mail, i18n, observability, CLI, web shell | rows of their own, or none | CRUD, read, I/O | little | |

They interact through Postgres rows, HTTP, and, within a tab, one query cache.
A run copies cards (their answer texts become its options) and its answers
outlive it; the schedule belongs to the card and only the scheduled review moves
it. The screens see all of it through cached queries that other screens share:
the due list is observed on every screen (`AppShell.tsx:32`), an editor fills
itself from the query its list and its own saves write, and a run is played from
the copy `useStartRun` left behind. The focus timer's prompt creates notes.

## 2. The plan

Done:

1. `ReviewRuns`: the whole life of a run against everything that races with it.
2. `ReviewRunsProofs`: its inductive invariant and its theorems.
3. `DueReview`: ladder, due list, ratings, page and cache. `DueReviewProofs`.
4. `Sittings`, what a run promises without requests or SQL;
   `ReviewRunsRefinement`, the mapping under which `ReviewRuns` implements it;
   `ReviewRunsRefinementProofs`, that it does.
5. `NoteEditor`, `CardEditor`, `FocusTimer`: the three screens that write without
   being asked, each with the handlers it writes through; `NoteEditorProofs`,
   `CardEditorProofs`, `FocusTimerProofs`.
6. `RunScreen`: the client of `ReviewRuns`, over the part of its handlers the
   screen can see. `NotesList`: pages, ticks, undo and preview. `RunScreenProofs`,
   `NotesListProofs`.
7. A theorem for every safety property the runs check: `SheetsAreSound`,
   `LossNeedsARace`, `FilledTextIsKept`, the lists of `NotesList`; and the safety
   half of each liveness property, stated and proved: `OfferedUntilRated` and
   `NobodyJumpsTheQueue`, `UnsavedIsScheduled`, `LeadsOn`.

Next, in this order:

8. `SetConfiguration`: PATCH and PUT of the pinned list.
9. `Trash`: the nightly sweep over accounts, and the quota's count-then-insert.
10. The client's session: who may see the query cache after a sign-out.

## 3. The modules and how they read against the code

### `ReviewRuns`

Requests (`Procs`) of one account are served concurrently. `req[p]` is where a
handler stands and what it holds in memory; a step is one SQL statement on
shared rows, because at READ COMMITTED nothing protects a value between two
statements. `run`, `sheet`, `logs` and `setStatus` are the tables
`review_runs`, `review_run_cards`, `review_logs` and `review_sets`; `live` and
`back` are what a run reads of `cards`.

| code | actions |
|---|---|
| `handleStartRun`, `StartRun` | `StartReadSet`, `StartReadOpen`, `StartDraw`, `StartBacks`, `StartPool`, `StartWiden`, `StartCreate`, `StartDetail` |
| `handleAnswerQuestion` | `AnswerReadRun`, `AnswerReadQuestion`, `AnswerInsert` |
| `handleFinishRun` | `FinishReadRun`, `FinishUpdate` |
| `handleDeleteRun` | `DiscardRun` |
| `setArchive`, `handleDeleteReviewSet` | `ArchiveSet`, `UnarchiveSet`, `DeleteSet` |
| `DeleteCard(s)`, `RestoreCard(s)`, `UpdateCard` | `DeleteCard`, `RestoreCard`, `EditBack` |
| a dropped connection, a dead process | `Abort` |

What is abstracted, and why it is sound:

- `CreateRun`, the snapshots and the commit are one step. Until the commit no
  other transaction sees the rows; a second insert for the set waits on the
  partial unique index, and a delete of the set on the foreign key.
- A handler whose whole transaction is one statement, or whose check the
  statement repeats (archive, delete, restore), is one step.
- Randomness is choice: `ORDER BY random()` and the shuffle of options may give
  any result. Each question's options are chosen from the whole pool
  independently, more than the shared order of the pool allows; the pool's
  `LIMIT 300` is left out.
- `GET` of a run and of a revealed answer read only and are not actions. Dates
  and elapsed seconds are not modelled.
- The set's configuration is a constant: the draw then depends only on cards.

### `Sittings` and `ReviewRunsRefinement`

`Sittings` has five steps: a sitting begins (its set is not being sat), takes
an answer to a question nobody answered, closes with the score it has earned,
is discarded, and a set nothing was sat of is removed. Answers become evidence, a
sequence that is only ever appended to.

The mapping forgets `req`, `live`, `back` and the archive, and reads each row as
what it means: a finished `review_runs` row is a closed sitting with its stored
`correct_count` and `total_count`, a snapshot row is a question, a log row
that still names its run is an answer given in it, and every log row is evidence.
So `StartCreate` is `Begin`, `AnswerInsert` is `Give`, `FinishUpdate` is `Close`,
`DiscardRun` is `Discard`, `DeleteSet` is `Remove`, and the other sixteen actions
leave a sitting alone. Two things become visible in the abstract specification
that no single invariant says: the score a run closes with is exactly what it had
been given at that moment, and a closed sitting still takes an answer that was
on its way (see 7, item 10), which changes the evidence and not the score.

### `DueReview`

`NextSchedule` is `srs.Next`; `DueLists` is `ListDueCards`; `RateRead` and
`RateCommit` are the two statements of `handleRate`'s transaction, between
which another rating or midnight may fall. The page is one browser tab:
`deck`, `stale`, `broken` and `fetch` are the cache of `useDueCards`, `index`
and `reveal` the components' state, `awaited` the mutation whose success
callback is still attached. A `CardReview` that unmounts loses its callbacks,
so its rating is still served but nobody awaits it.

| code | actions |
|---|---|
| `ReviewPage` mounts, unmounts | `Open`, `Leave` (invalidates the list) |
| other screens that observe the list; coming online | `Refetch` |
| `handleDueCards` and its response | `ReadDue`, `Land`, `FetchFails` |
| `handleCardAnswer` | `Reveal` |
| `useRate`, `handleRate`, `onRated` | `Press`, `RateRead`, `RateCommit`, `RateFails`, `Advance`, `LoseAnswer` |
| another tab | `PressElsewhere` |
| `CreateCard`, delete, restore | `Capture`, `Trash`, `Restore` |
| the server's clock | `Midnight` |

Dates count days from the server's today. Bounds, all in guards: past dates
keep only their order (`Ranked`; the code asks for nothing else), a request
sees one midnight at most, and one of `Requests` stays free for the page.
The behaviour of TanStack Query is external and modelled from how the page uses
it: with an infinite `staleTime` a mount fetches only an empty or invalidated
list; an invalidated, observed query is fetched at once; a fetch in flight is
cancelled and restarted, or joined when there is no data yet; data and error
coexist after a failed refetch. Its retries are folded into `FetchFails`.
Not modelled: `lapses`, the logs of scheduled ratings, the total beside the
list. `srs.Master` and `srs.Due` are called by no handler.

### `NoteEditor`

One note, one tab, and the requests it has sent. `row` and `status` are the
`notes` row; `screen` and `saved` are what is typed and `saved.current`;
`debounce` is the timer of the debounce, `awaited` and `failed` the mutation the
editor still observes; `cached`, `stale`, `fetch` are the detail query; `online`
is the browser's opinion of its connection. A note is a pair of a text (title,
body, labels) and a domain, because the PATCH treats the two differently.

| code | actions |
|---|---|
| typing, the debounce effect | `Type`, `DebounceFires` |
| the retry effect, `retryNow` | `RetryFires`, `GoOnline` |
| the save button, `onHidden`, the unmount save, the keepalive flush | `PressSave`, `Hide`, `Leave`, `CloseTab` |
| the load effect over `useNote` | `Open`, `FetchRead`, `FetchLands`, `FetchFails`, `Refetch`, `Expire` |
| `handleUpdateNote`: the read, then `UpdateNote` | `PatchRead`, `PatchWrite` |
| the answers of a save | `Succeeds`, `Fails` |
| delete from the editor, delete and restore elsewhere | `DeleteSucceeds`, `Trash`, `Restore` |

The backoff's delays are not counted: the retry may fire at any time while it is
armed. A save that failed without the server having seen it and one whose answer
was lost are both `Fails`, at a different stage of the request. `exposed` is an
observer: it becomes true at the steps at which text is put at risk (saves of
different texts overlap, an answer or a departing request is lost, a copy older
than the row is adopted, unsaved text is left offline or deleted), and
`LossNeedsARace` says that nothing else loses any.

### `CardEditor`

The card editor on `/cards/new` and on a card. `place` is the address, `form` a
visit of the new form that sent something (a name, so that two cards of one visit can be
told from two visits), `request` the POSTs and PATCHes on their way.

| code | actions |
|---|---|
| `persist(true)` by the button and the hidden tab | `PressSave`, `Hide` |
| `persist(false)` by the unmount, the keepalive flush | `Leave`, `CloseTab` |
| `handleCreateCard` | `CreateCard` |
| `handleUpdateCard`: the read, then `UpdateCard` | `ReadCard`, `UpdateCard` |
| `onSuccess`: adopt, and navigate off the form | `Succeeds`; `Fails` |
| opening, the cached card | `OpenNew`, `OpenCard`, `Refetch` |
| delete and restore | `DeleteSucceeds`, `Trash`, `Restore` |

A text with both sides filled in (`Filled`) is a pair: its sides and labels, and its
domain, which may be null; `Half` and `Empty` stand for the others. `valid` is all the
code asks of a text. The domain is apart because the PATCH treats it apart:
`Rewritten` is what `handleUpdateCard` makes of a request, and a null domain keeps the
one the handler read, in a transaction before the one that writes. So
`FilledTextIsKept` says what is true, that a filled text is kept as rewritten, and
`WrittenIsKept` what the comment says, that it is kept as written (7, item 5). `doubted` holds the visits that saved
again while their creation was pending, given up, or committed without an
answer: those are the ways to a second card, and `SecondCardNeedsDoubt` says
there is no other.

### `FocusTimer`

A timer per tab and the one in local storage that each change writes and each
reload reads. The code stores the instant a session ends; the model stores what
is left, so `Advance` is the clock and no instant is needed. `log` is
`focus_sessions`, `request` what is on its way.

| code | actions |
|---|---|
| `setDuration`, `start`, `pause`, `resume`, `reset` | `SetDuration`, `Start`, `Pause`, `Resume`, `Reset` |
| the interval and `visibilitychange` | `Tick` |
| `load`, unload | `OpenTab`, `CloseTab` |
| the default of the account | `DefaultArrives` |
| the recording effect, `retryLog` | `Record`, `RetryLog` |
| the prompt: skip, save, its answer | `Skip`, `SaveCapture`, `Captured` |
| `handleCreateSession` and its answer | `InsertSession`, `Succeeds`, `Fails` |

`Durations` are the minutes of the picker and `Defaults` those an account's default
may have, on the picker or off it: the server takes 1 to 480. `Load` is `load` with
its reset of minutes the picker does not offer (`Offered`), of a session underway too.

`focused` observes how long a session really ran, `planned` the minutes it was
started for, `phase` whether it is underway, finished and sent, or given up,
`crowded` the sessions that were on while two tabs were open, and `unheard` those whose
tab was closed, or sent another, before it heard that they are recorded. What the
properties exempt by the last two is what the code loses, and an instance shows each:
a session that was not heard of may be gone (`lost`), and a crowded one recorded
twice (`twice`).

### `RunScreen`

The client of `ReviewRuns`: the run as it was fetched (`cached`), the position
`index`, the step of the question shown, and the part of the handlers the screen
can tell apart. `answers` is the log by question; `ReviewRuns` has the
statements this module takes in one step.

| code | actions |
|---|---|
| the set's button, the run's address, the query | `Begin`, `Return`, `Refetch`, `Forget`, `Leave` |
| reveal, rate or choose, next, skip | `Reveal`, `RevealLands`, `RevealAgain`, `Submit`, `ShowNext`, `Skip` |
| `handleAnswerQuestion` and its answer | `Insert`, `Succeeds`, `Fails` |
| finish | `PressFinish`, `Finish`, `FinishSucceeds`, `FinishFails` |
| another tab; cards deleted and restored | `OtherTabAnswers`, `OtherTabFinishes`, `Delete`, `Restore` |

`before` and `gaps` observe a visit: what had been answered when it began, and
whether its copy was old or the answers had a gap. `rivals` are the questions
that were answered more than once.

### `NotesList`

Two queries, the live notes and Terhapus, loaded page by page. `rows` are what
the server holds, last updated first; `data`, `invalid` and `fetch` the cached
pages, `ticked` the raw ticks of `useSelection` (what is selected is what is
ticked *and* shown), `undo` the ids of the last delete, `place` and `leaving`
the hand-over to the editor.

| code | actions |
|---|---|
| `toggle`, `toggleAll`, the filter, the preview, auto-select | `Toggle`, `ToggleAll`, `SetView`, `Peek`, `AutoSelect` |
| a fetch of all pages, of the next one | `Load`, `LoadMore` |
| `handleListNotes` and its answer | `ReadPage`, `PageLands`, `LoadFails` |
| create, delete, restore, undo and their answers | `NewNote`, `ConfirmDelete`, `RestoreSelected`, `UndoDelete`, `Commit`, `Succeeds`, `Fails` |
| the editor's chunk arrives; back to the list | `EditorArrives`, `Return` |
| another tab | `Elsewhere` |

A fetch is TanStack Query's, modelled from how the page uses it. A reload fetches as many
pages as the query holds; the next page is asked for behind the rows held when the
button is pressed, which stops a reload but not another next page; an invalidated list
that is shown is fetched anew, whatever it was fetching, except that a first
fetch, with nothing to show yet, is joined; one that is not shown goes on; and every
landing counts as valid. The total of an empty page, which a second statement reads
(`pageTotal` of `api/list.go`), is read with its rows.

Bounds: one mutation at a time, `Requests` of them and of the faults (a failure
or a change elsewhere, `Faults` at most) in all. `torn` marks a query that may miss a
change: one made elsewhere or never answered; one that a fetch kept over its answer
had read past; or one whose reload `LoadMore` stopped. `ListIsWhole` is said of the
others, the next `Load` mends one that is torn, and the run `gap` shows what a torn list
can look like while it counts as valid. `moved` is what the last delete really moved,
until a fault.

### `MC_*`

They hold the instances. Definitions introduced as "the slip" in the main
modules are plausible mistakes next to the definition they would replace. Each
property is shown to fail under one of them.

## 4. The runs

| run | instance | checks |
|---|---|---|
| `starts` | 2 requests, 1 set, 2 run ids, 1 card | `TypeOK`, `OneOpenRun`, `RunsKeepTheirSet`, `AcknowledgedAnswersKept`, `AnswersFitTheirRun`, `ScoreIsEvidenced`, `ScoreFrozen`, `EvidenceSurvives`, `ImplementsSittings` |
| `choice` | 1 request, 2 cards, 2 texts, pinned multiple choice | `AnswersFitTheirRun`, `SheetsAreSound`, `SheetFrozen` |
| `due_races` | 1 card, 2 rungs, 2 ratings at once | `TypeOK`, `ScheduleFitsRung`, `DueOnlyByCalendar` |
| `due_rotation` | 2 cards, a list of 1, 1 rung, fairness | `AwaitedIsOnScreen`, `OfferedUntilRated`, `NoCardStarves` |
| `autosave` | 3 texts, one of them trimmed by the server, 2 saves at once, fairness | `TypeOK`, `UnsavedIsScheduled`, `LossNeedsARace`, `DeletedStaysDeleted`, `UnsavedGetsSaved` |
| `cards` | 2 cards, 1 text with and without a domain, 1 visit of the form that leaves a trace, 2 saves at once | `TypeOK`, `SecondCardNeedsDoubt`, `FilledTextIsKept`, `DeletedCardsStay` |
| `timer` | 1 tab, 2 sessions, 2 durations and a default that is none of them, 2 requests, 2 rows | `TypeOK`, `RecordedOnce`, `NeverEarly`, `SessionIsHeld` |
| `sitting` | a choice and a recall question, 2 marks, 1 answer at once, fairness | `TypeOK`, `NothingLeftToAnswer`, `ResultIsRecorded`, `NotAskedAgain`, `RunGetsFinished` |
| `list` | 2 notes in pages of 1, 2 mutations or faults | `TypeOK`, `ListIsWhole`, `UndoIsExact`, `NewNoteOpens` |
| `start_twice`, `lost`, `gap` | as the runs of their modules, or smaller; `gap`: 4 notes in pages of 1 | one violated promise each, see 7 |

Beside them are further instances, each a configuration of the same name. Three
are wider in one direction than the run of their module, for the same
properties: `CardEditor_texts` (a card, two texts, each with and without a
domain), `FocusTimer_tabs` (two tabs) and `NotesList_undo` (three mutations over one
page: a delete, a restore of some of its notes and its undo). Five are
counterexamples to what a comment says: `NoteEditor_domain`,
`CardEditor_cleared`, `FocusTimer_retry`, `FocusTimer_twice` and
`FocusTimer_reload`, see 7. `PROJECT.json` lists the twelve runs of the table only.

Why these bounds. Two requests are enough for every race in `ReviewRuns`: a
handler's step depends on rows and on its own record, never on how many others
there are. Two run ids let a discarded or finished run be followed by another;
two cards let a run lose one and keep one, and let a choice question have a
wrong option; the filter of the pinned instance holds one card so that the pool
must be widened. Two rungs give a middle rung and a top; two cards and a list of
one are the smallest competition for the cap.

Two saves on their way are the smallest overlap, and two are what it takes for
an answer to be overtaken; three texts let a text be typed, replaced and taken
back, one of them being the server's form of another. Two cards let a visit of the
form create a second; one card is enough for what is typed into it (`CardEditor_texts`). Two tabs are the
least that share a key (`FocusTimer_tabs`), two rows let a session be recorded twice, and two sessions let an
answer come for the one before. One tab is what `SessionIsHeld` speaks of, and two
requests let its retry, or the record of the next session, meet the first. A choice
and a recall question take the two paths through `RunPage` in one run, and let
the result of one stand under the other. Two notes in pages of one let a page
be read before a delete and the next after it; two mutations are a delete and its
undo (`NotesList_undo` has a restore between them). Four notes are two
that are loaded, one that is missed and one that is loaded behind it. The unbounded statements are the theorems'.

Symmetry is used only in safety runs, over ids the models compare only for
equality (requests, run ids, tabs, sessions, cards of a random draw, texts of the
card form); the cards of `DueReview` and the notes of `NotesList` are numbers,
because ties and bulk statements are ordered by id. Deadlock is checked everywhere.

## 5. Fairness and liveness

`ReviewRuns`, `CardEditor`, `FocusTimer` and `NotesList` state no fairness:
nothing in them must happen.

`NoCardStarves` says that a due card does not stay due for ever. It is checked
under `DueReview!FairSpec`, which asks for what the code cannot give by itself and
nothing more:

- the user works: weak fairness of `Progress` (opens the page, reveals, rates
  what is shown, and the server serves it) and of leaving once nothing on
  screen can be rated;
- the server and the network deliver a list asked for: weak fairness of
  `ReadDue \/ Land`;
- `Settles`: from some point on there is no `Disturbance`, that is no reload, no
  failed fetch, no lost or failed rating, no page left in the middle, no card
  trashed. Before that point they may happen any number of times. Restores,
  captures and midnights go on for ever.

No midnight has to come: the cards ahead of a due card leave the list because
they are rated, and come back behind it because the list is oldest first.
The one request of that run is the page's own: it says nothing of two tabs rating
the same cards. With the newest first (the slip `NewestFirst`) a forgotten card that returns each
day starves the other, which TLC finds.

`UnsavedGetsSaved` says that unsaved text does not stay unsaved for ever. Under
`NoteEditor!FairSpec` a running timer fires, a connection that is back is
noticed, and a request that reaches the server ends, answered or given up (the
server's 30 seconds, `api/server.go:106`, and the browser's own limits); and from some point on (`Settles`) the person has
stopped typing, leaving and hiding the tab, and no awaited save is lost.
Without the retry (`NeverRetrying`) the text of a save that failed last is
never sent again, as the comment on the retry effect says.

`RunGetsFinished` says that whatever a run has run into, it can be finished and
is. Under `RunScreen!FairSpec` the person, the screen and the server keep taking
some `Onward` step; the property itself assumes that from some point on nothing
is lost, no card is restored and the screen is left only by somebody stuck in
front of a card that is gone. The way out of that one is to begin again by the set's
button, which fetches the run with the card marked missing; with no skip
(`NeverSkippable`) the run would stay open, and block its set, for ever.

## 6. What is proved

The assumptions are the named ASSUMEs of the modules: finite sets of cards and
requests, finitely many notes numbered by naturals, at least two options, a nonempty ladder of positive intervals, a positive
limit, trimming that is idempotent, positive durations, a run of at least one
question, and null values that are not values. TLC evaluates them in every run.

**`ReviewRunsProofs`.** The safety invariants are not inductive alone. A score is
bounded because answers fit their run, which holds because a request about to
insert an answer read a question that is still the run's, or whose run is gone.
The inductive invariant adds that knowledge about requests:

    IInv == TypeOK /\ RowsInv /\ RequestsFit /\ AcknowledgedAnswersKept

where `RowsInv` conjoins the row invariants of `ReviewRuns`. One lemma per
action preserves it, and `IInvHolds` closes the argument. `ScoreBoundedHolds`
counts: the right answers of a run inject into its questions, because each
question has one answer. From `IInv` follow `OneOpenRun`, `RunsKeepTheirSet`,
`NoEmptyRun`, `AnswersFitTheirRun`, `ScoreBounded`, `ScoreIsEvidenced`,
`AcknowledgedAnswersKept`, and the action properties `SheetFrozen`,
`ScoreFrozen` and `EvidenceSurvives`, for any number of requests, sets, runs,
cards and options.

`SheetsAreSound` has an inductive invariant of its own, `SheetInv`: what a start
holds in memory is sound before its rows are, that is, its draw is numbered without a
gap from `StartDraw` on, and the sheet it is about to commit has one right option
per choice question (`HoldsSound`). That a listing of n cards gives out each of
the positions 1 to n is `OrdersNumbered`, an injection counted. A card whose back has gone
keeps its position and is asked as a recall, so the numbering of the draw is that of the sheet
(`SoundFromDraw`).

**`ReviewRunsRefinementProofs`.** `ImplementsSittingsHolds`: from `IInv`, each
statement falls into one of five effects on the tables (a run is created,
an answer is recorded, a run closes, is dropped, a set retires) or none, and
each effect is one promised step or a stutter. Closing is the one that
counts: the `correct` of the row counts log rows and the abstract score counts
answers, and the two agree because answers fit their run, so log rows and
answers correspond one to one. Recording needs `RequestsFit`: the question the
request read is still the run's.

**`DueReviewProofs`.** `IInv == TypeOK /\ ScheduleFitsRung /\ AwaitedIsOnScreen`.
A rating carries its stage, and `FitsRung` of a new schedule depends on
that stage only, so an overwritten schedule needs no further invariant; a
stage stays within the ladder by `TypeOK`. `AwaitedIsOnScreen` needs that
everything which changes the card on screen drops the awaited rating.
`DueOnlyByCalendar` follows from `IInv`: intervals are positive, so a
schedule written on the day of its rating is not due that day. Only a rating that
read its schedule before midnight and commits after (`LateCommit`) can be.

`NoCardStarves` rests on two facts that hold without any fairness. *Nobody jumps
the queue*: no step but a restore and a late commit puts a card ahead of a due
card that was not (`NobodyJumpsTheQueueHolds`). A step that writes one schedule is
read off by `CardEffect`; midnight moves all of them, and keeps their order
because a past date's rank is the number of dates before it (`RankOrders`,
`MidnightKeepsOrder`). *The list is the head of the queue*: there is exactly one list
`ListDueCards` may answer, and a card with fewer than `DueLimit` others ahead of it
stands in it at that place (`QueueIsListed`). A card's place is one more than
the number ahead of it; places grow along the order (`AheadGrows`), so they are
a bijection from the due cards to 1 to n (`PlacesAreTaken`), and the
list read backwards through it is the one list there can be (`ListedByRank`). Together
they give `OfferedUntilRated`: a due card that every list offers has fewer than
`DueLimit` ahead of it, no step adds one (`FewerAhead`), so every list still offers it
until it is rated or trashed itself. So a waiting card is reached as those ahead
of it are rated; that they are is the part that needs fairness, and TLC.

**`NoteEditorProofs`.** `UnsavedIsScheduled` is lost the moment an answer arrives
that is not what the screen holds, unless the debounce starts again; it does so
when "dirty" changes, so the invariant has to say when it does not:

    IInv == TypeOK /\ UnsavedIsScheduled /\ AwaitedFits /\ StoredFits /\ ClosedRests

`AwaitedFits` says that an awaited save is on its way and will be heard, and that
while its text is not the one on the screen the debounce is running; `StoredFits`
that what an answer carries is the server's form of what was sent; `ClosedRests`
that a closed editor waits for nothing. `DeletedStaysDeletedHolds` follows from
the condition of `UpdateNote`.

`LossNeedsARace` speaks of a moment at which all is quiet; its inductive form says,
as long as nothing was `exposed`, what each request on its way will leave. The saves
that are to reach the row yet carry one text (`Agree`), and the domain one of them
has read is the row's (`ReadsHold`). Behind a screen that is left, that text is
the screen's, and once none is left the row has it (`LeftKept`); while none is awaited, what
counts as saved is in the row and no late save would change it (`SavedKept`); an
awaited answer brings the row (`AnswerKept`).

    RaceInv == (rows trimmed, debounce and awaited save are of something new)
               /\ (~ exposed => Agree /\ ReadsHold /\ LeftKept, SavedKept or AnswerKept)

**`CardEditorProofs`.** A second card needs a second POST of a visit, so the
invariant counts them. A visit that is not in doubt has one POST on its way at
most, and no card until it is served (`OnePost`); while its form is on the screen
that POST, or its answer, is the save the editor awaits (`FormOnScreen`);
and a card that does not exist has no origin (`OriginsFit`).

    IInv == TypeOK /\ SecondCardNeedsDoubt /\ OnePost /\ FormOnScreen /\ OriginsFit

`FilledTextIsKept` adds `KeepInv`. The awaited save is of what the screen held and goes to
the card on the screen, or creates the form's (`Fits`); a form that is still
on the screen has nothing saved and no PATCH on its way (`FormSettled`). As long as nothing
was `exposed`, the saves on their way to the card shown agree, and what is saved is in
its row as `Rewritten` (`CardKept`); a save without a domain that has read its card has read
the domain the row still has (`ReadsHold`), which a save that agrees with it cannot have
changed; and a filled form that was left has its text in a POST on its way or in the
card that came of it (`FormKept`).

    KeepInv == Known /\ AwaitedFits /\ FormSettled /\ TypedKept

**`FocusTimerProofs`.** For `NeverEarly` the clock must have run as long as the
timer has counted down from the minutes planned, and the minutes a timer shows must be
those planned when the picker offers them, wherever a timer is kept (`TimersSound`:
each open tab and the storage), on the way to the server (`RequestsSound`) and in the log
(`RowsSound`). For a session that is not crowded, `Held` says that while it is underway
every timer there is, in a tab or stored, is its timer; `Once` that at most one request or
row records it, and that once there is one, it is over and every timer that still shows
it is done and marked as logged.

    IInv == TypeOK /\ RowsSound /\ TimersSound /\ RequestsSound /\ Held /\ Once

`SessionIsHeld` goes on where a session is sent. What a tab waits for is one answer, of one
session (`OneAnswer`), and a finished session that was not given up unheard is in the
log, or that answer, or the failure shown, is its own (`Reported`).

    HInv == OneAnswer /\ Reported

**`RunScreenProofs`.** All five safety invariants of the sitting. What the screen
offers rests on its copy being old but never ahead of the log (`CopyIsOld`), on
everything behind the position being answered or found deleted
(`PassedIsAnswered`), which needs that a copy is replaced under an open screen only once
the run is finished (`InvalidIsFinished`), and on an awaited answer being one to the
question shown (`AwaitedIsShown`). What it says of an answer rests on what each
answer on its way is worth: unless its question was answered more than once, the log
holds nothing for it before it is stored and its own mark after (`EachIsWorth`,
`OneEach`). A run is resumed at its least open question; that there is one is
`LeastQuestion`, from the well-foundedness of the naturals. `LeadsOn`, without which
no fairness would get a run finished, needs that a step is one of its question's kind
(`StepFits`), which holds because each question is mounted anew.

    IInv == TypeOK /\ ScreenInv /\ BeforeIsBehind /\ LogInv /\ StepFits

**`NotesListProofs`.** All of the list's properties. `TypeOK` says that no note is
listed twice: a bulk statement filters one view and puts what it took on top of
the other, both through `Ascending`, which chooses an increasing enumeration of a
finite set of numbers. There is one, because the place of a number is how many there
are up to it (`AscendingExists`), and it is one to one and onto
(`AscendingLists`). `ListIsWhole` needs to speak of a list that is still loading: as
long as it is not torn and no change is on its way that its query was not told of, what
has been loaded so far is a prefix of the rows, and so is that with the page that has
been read behind it (`Whole`); the page continues it because its offset is the length
of what is loaded (`PageContinues`). A fetch that a change leaves running is
untorn only if it has read nothing yet, and a next page only if the list was valid
and no reload was stopped for it (`LoadMoreKeepsWhole`). `UndoIsExact` needs that what the last
delete moved is what is offered and what an undo asks for, and is still in one view
or the other (`UndoInv`). `NewNoteOpens` needs that the list knows it is being left
while the editor is on its way (`LeavingIsKnown`).

Every safety property of a passing run is a theorem. A few theorems are properties no
run lists: `NoEmptyRun` and `ScoreBounded` of `ReviewRuns`, which
`ImplementsSittings` implies; `NobodyJumpsTheQueue` and `LeadsOn`, which the liveness property beside
each would be lost without and which the same slips (`NewestFirst`, `Kept`) break. Only
model-checked are:

- the three liveness properties, `NoCardStarves`, `UnsavedGetsSaved` and
  `RunGetsFinished`: fairness and ENABLED are out of the provers' reach. What they
  rest on is proved: `OfferedUntilRated` and `NobodyJumpsTheQueue`;
  `UnsavedIsScheduled`; `LeadsOn` and `NothingLeftToAnswer`;
- the three violations and the five other counterexamples.

## 7. Where the code and its comments part

With a run:

1. `start_twice`: the loser of two concurrent starts is answered 500, though
   `store/reviewsets.go:61-64` says a second click returns to the open run. The
   unique index still keeps one run (`OneOpenRun`).
2. `lost`: "A finished session is recorded exactly once" (`TimerProvider.tsx:64`), but
   it is marked as logged before it is sent, and only the tab knows that the request
   failed: refreshed or closed before the answer, it leaves no row and no notice.
3. `gap`: pressed while a delete reloads the list, the button for more
   (`NotesPage.tsx:480`) stops the reload, starts behind the old rows and makes the list
   count as valid: the deleted note stays and a live one is skipped, though
   `paging.ts:24-26` says that rows deleted underneath cannot leave a gap. The cards
   list has the same button.

With an instance of its own:

4. `domain`: a note's domain can never be taken away again. `domainId: null`
   decodes to a nil pointer, which `notes.go:245` takes for "left out", so the old
   domain is stored, answered and adopted as saved. `reviewsets.go:296` reads a null
   domain the same way.
5. `cleared`: nor can a card's (`cards.go:259`), though the editor is said to keep
   "what you wrote" once both sides are filled in (`CardEditorPage.tsx:34-36`).
6. `retry`: `retryLog` records the duration the timer is set to when it is pressed,
   not that of the session that failed.
7. `twice`: a finished session is not recorded once either when two tabs are open. A
   tab that opens while a session runs loads it and records it too.
8. `reload`: a refresh under a session of minutes the picker does not offer (an
   account's default may be any from 1 to 480) turns them into twenty and keeps the end
   (`useTimer.ts:55-57`); more is recorded than was focused.

Seen while modelling, without one:

9. Of two concurrent finishes the loser answers with the unfinished run it read
   first, though `api/reviewsets.go:1117-1121` says it hands back what is stored.
   The client reads the run again, so nothing shows it.
10. An answer that passed the finished check (`api/reviewsets.go:984`) is inserted
   after a finish; `api/reviewsets_test.go:270` says a finished run takes no
   more. The score stays frozen and still counts only evidence.
11. Leaving and re-opening the review page before the refetch lands shows the
   old deck, then replaces it under the same index, though `ReviewPage.tsx:20-22`
   says the deck is held still. No rating is lost by it (`AwaitedIsOnScreen`).
12. The due limit caps a list, not "a day" (`srs.go:18`); a card's day is the
   server's, though `cards.go:171-178` says the user's.
13. Two autosaves with different texts can overlap (`NoteEditorPage.tsx:73`
   debounces, nothing waits): the older text may be stored last. `exposed`
   marks it.
14. A recall question whose card is deleted while it is on screen can neither be revealed
   nor skipped until the run is fetched again. Going back to a run resumes the
   copy in the cache, which may be older than the answers, so that questions
   already answered are asked again, contrary to `RunPage.tsx:49-50`; the first
   answer stays.
15. A row deleted by another tab between two pages leaves a gap too (`torn`), and a
    change that is answered while a list loads for the first time, or unseen, is missed by
    what that load has read, which counts as valid when it lands. An undo restores ids
    that had been in the trash before its delete when that was confirmed on rows
    already gone (`moved = None`), contrary to "it restores what was deleted" in
    `NotesPage.tsx:79-81`; and the offer can appear over another filter when the
    answer comes late.
16. `PurgeTrash` returns at the first account that fails (`purge.go:71-75`),
    though the comment there and the one at 36-40 say the others go on.
17. A save that carries an archived domain is refused (`parseDomain`,
    `notes.go:502`, through `DomainExists`: `archived_at IS NULL`). The note editor
    sends the note's domain with every save, so once its domain is archived no text of
    that note can be saved until another domain is picked, and the autosave retries for
    ever; a card and a focus session tagged with it are refused alike. The comment
    on `handleArchiveDomain` says "Notes and focus sessions keep their tag; the domain
    just leaves the pickers" (`domains.go:200-201`). In `NoteEditor` no domain is
    archived.
18. A focus session that ended while the app was closed is dated the day it is
    opened again, and a reload applies the account's default over a duration picked
    by hand.
19. Two concurrent create-on-type requests for one new label: both look the slug up
    (`categories.go:125`) before either inserts it, and the second is answered 500,
    though the comment above says the handler "is deliberately idempotent".
20. Two concurrent saves of a fixed set's pinned cards (`reviewsets.go:494`) each
    clear and insert without a lock on the set: they merge their lists or the second
    meets the first's rows and is answered 500, though the comment says "Replace rather
    than append".

## 8. Not modelled

The configuration of review sets, the trash sweep, quotas and the client's session
are in the plan (section 2). The cards list is the notes list over cards. Accounts,
mail, settings, domains, categories, export, i18n, observability, the command
line and generated code are left out: single statements, formatting or I/O,
with no interleaving of their own worth a model. Row-level security and tenancy
are outside the models, which follow one account. Of what is modelled, the
modules' tables above name what they leave out: the delays of the backoff, the
dates of sessions, the search and the filters of the lists, the bulk limit of
500 ids, local storage that cannot be written.
