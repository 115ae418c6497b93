----------------------------- MODULE NoteEditor -----------------------------
(***************************************************************************)
(* The note editor, web/src/features/notes/NoteEditorPage.tsx, with the    *)
(* query cache it loads from, the flush of lib/useFlushOnHide.ts, and the  *)
(* PATCH it saves through, internal/api/notes.go.                          *)
(*                                                                         *)
(* One note and one browser tab.  Five things start a save: the debounce,  *)
(* the retry after a failure, coming back online, leaving the screen, and  *)
(* the tab being hidden or closed.  None of them waits for a save that is  *)
(* already on its way, so several can be, and they arrive in any order.    *)
(***************************************************************************)
EXTENDS Naturals, FiniteSets

CONSTANTS
    Texts,      \* titles, bodies and labels: all that is not the domain
    Trimmed,    \* what handleUpdateNote makes of a text
    Domains,    \* domain ids; none is archived while the editor is open
    NoDomain,   \* null in the request, NULL in the row
    NoNote,     \* a query cache that holds no note
    Requests,   \* saves on their way at once
    Nobody      \* no save is awaited

ASSUME TrimmedAssumption ==
    /\ Trimmed \in [Texts -> Texts]
    /\ \A t \in Texts : Trimmed[Trimmed[t]] = Trimmed[t]
ASSUME NullAssumption ==
    /\ NoDomain \notin Domains
    /\ Nobody \notin Requests
ASSUME RequestsAssumption == IsFiniteSet(Requests)

Note == [text: Texts, domain: Domains \cup {NoDomain}]

ASSUME NoNoteAssumption == NoNote \notin Note

VARIABLES
    row, status,                \* the notes row; live, or with deleted_at set
    request,                    \* the saves on their way, or in the server
    online,                     \* what the browser says of its connection
    open, loaded,               \* the editor is mounted, and has adopted a note
    screen, saved,              \* what is typed; saved.current
    debounce,                   \* the debounce timer is running
    awaited, failed,            \* the mutation the editor observes: its request
                                \* while it is pending, then whether it failed
    cached, stale, fetch,       \* the detail query
    exposed                     \* observer: a race has put typed text at risk

server == <<row, status>>
editor == <<open, loaded, screen, saved, debounce, awaited, failed>>
cache == <<cached, stale, fetch>>
vars == <<server, request, online, editor, cache, exposed>>

-----------------------------------------------------------------------------
Idle == [pc |-> "idle"]

(* A request is this page's own, or nobody waits for it any more: it was   *)
(* given up, or its page has gone.                                         *)
Request ==
    {Idle}
    \cup [pc: {"paused", "sent"}, note: Note, mine: BOOLEAN]
    \cup [pc: {"read"}, note: Note, mine: BOOLEAN,
          before: Domains \cup {NoDomain}]
    \cup [pc: {"stored"}, note: Note, fresh: Note]
    \cup [pc: {"refused"}, note: Note]

InFlight == {r \in Requests : request[r] # Idle}
Free == {r \in Requests : request[r] = Idle}

(* A PATCH of every field.  The title is trimmed, or derived when it is    *)
(* empty; a null domain cannot be told from an absent one and keeps what   *)
(* the row had when it was read.                                           *)
Rewritten(note, before) ==
    [text |-> Trimmed[note.text],
     domain |-> IF note.domain = NoDomain THEN before ELSE note.domain]

Dirty == loaded /\ screen # saved

NoFetch == [pc |-> "none"]
Asked == [pc |-> "asked"]
Fetch == {NoFetch, Asked} \cup [pc: {"landing"}, note: Note]

TypeOK ==
    /\ row \in Note /\ status \in {"live", "trashed"}
    /\ request \in [Requests -> Request]
    /\ online \in BOOLEAN
    /\ open \in BOOLEAN /\ loaded \in BOOLEAN
    /\ screen \in Note /\ saved \in Note
    /\ debounce \in BOOLEAN
    /\ awaited \in Requests \cup {Nobody} /\ failed \in BOOLEAN
    /\ cached \in Note \cup {NoNote} /\ stale \in BOOLEAN /\ fetch \in Fetch
    /\ exposed \in BOOLEAN

Init ==
    /\ row \in {n \in Note : Trimmed[n.text] = n.text}
    /\ status = "live"
    /\ request = [r \in Requests |-> Idle]
    /\ online = TRUE
    /\ open = FALSE /\ loaded = FALSE
    /\ screen = row /\ saved = row
    /\ debounce = FALSE
    /\ awaited = Nobody /\ failed = FALSE
    /\ cached \in {row, NoNote} /\ stale = FALSE /\ fetch = NoFetch
    /\ exposed = FALSE

-----------------------------------------------------------------------------
(* Effects.  They run when what they depend on has changed.                *)

(* The debounce starts again with every change of the text or of "dirty",  *)
(* and with nothing else.  The slip: it watches "dirty" alone.             *)
WatchesDirtyOnly ==
    debounce' = IF Dirty' # Dirty THEN Dirty' ELSE debounce
Rescheduled ==
    debounce' = IF Dirty' # Dirty \/ screen' # screen THEN Dirty' ELSE debounce

(* The retry timer runs exactly while the last save has failed and there   *)
(* is something to save: both are its dependencies, and firing clears the  *)
(* failure.  The slip: no retry.                                           *)
NeverRetrying == FALSE
Retrying == failed /\ Dirty

(* Saves that have not reached the row yet, with another text than this.   *)
Unstored == {r \in InFlight : request[r].pc # "stored"}
Others(note) == {r \in Unstored : request[r].note # note}

(* save.mutate: the one before it is no longer observed.  A mutation       *)
(* started offline waits, with its payload, for the connection.            *)
Sent(note, mine) ==
    [pc |-> IF online THEN "sent" ELSE "paused", note |-> note, mine |-> mine]

Observe(r) == awaited' = r /\ failed' = FALSE

DoSave ==
    \E r \in Free :
        /\ request' = [request EXCEPT ![r] = Sent(screen, TRUE)]
        /\ Observe(r)
        /\ exposed' = (exposed \/ Others(screen) # {})

(* Bound: offline, one request stays free for the online listener.         *)
Room == Cardinality(Free) > (IF online THEN 0 ELSE 1)

Saves == Room /\ DoSave /\ UNCHANGED <<server, online, open, loaded, screen,
                                       saved, cache>>

DebounceFires == debounce /\ debounce' = FALSE /\ Saves

RetryFires == Retrying /\ Saves /\ UNCHANGED debounce

PressSave == Dirty /\ awaited = Nobody /\ Saves /\ UNCHANGED debounce

(* The tab is hidden: the ordinary save, whatever is on its way.           *)
Hide == Dirty /\ Saves /\ UNCHANGED debounce

GoOffline ==
    /\ online
    /\ online' = FALSE
    /\ UNCHANGED <<server, request, editor, cache, exposed>>

(* Every paused save continues at once, each with the text it was given,   *)
(* and the listener adds one with the text on screen.                      *)
GoOnline ==
    /\ ~ online
    /\ online' = TRUE
    /\ LET resumed == [r \in Requests |->
               IF request[r].pc = "paused" THEN [request[r] EXCEPT !.pc = "sent"]
               ELSE request[r]]
       IN  \/ /\ Dirty
              /\ \E r \in Free :
                    /\ request' = [resumed EXCEPT ![r] =
                          [pc |-> "sent", note |-> screen, mine |-> TRUE]]
                    /\ Observe(r)
              /\ exposed' = (exposed \/ Others(screen) # {})
           \/ /\ ~ Dirty
              /\ request' = resumed
              /\ UNCHANGED <<awaited, failed, exposed>>
    /\ UNCHANGED <<server, open, loaded, screen, saved, debounce, cache>>

Type ==
    /\ loaded
    /\ \E note \in Note \ {screen} : screen' = note
    /\ UNCHANGED <<loaded, saved>>
    /\ Rescheduled
    /\ UNCHANGED <<server, request, online, open, awaited, failed,
                   cache, exposed>>

-----------------------------------------------------------------------------
(* Opening and leaving.                                                    *)

(* What is in the cache is adopted once, however old.  The slip: an effect *)
(* that does not wait for the note.                                        *)
AnythingCached(note) == TRUE
Available(note) == note # NoNote

Adopt(note) ==
    /\ loaded' = TRUE
    /\ screen' = note /\ saved' = note
    /\ exposed' = (exposed \/ note # row \/ Others(note) # {})

Open ==
    /\ ~ open
    /\ open' = TRUE
    /\ \/ Available(cached) /\ Adopt(cached)
       \/ ~ Available(cached) /\ UNCHANGED <<loaded, screen, saved, exposed>>
    /\ fetch' = IF fetch = NoFetch /\ (cached = NoNote \/ stale) THEN Asked
                ELSE fetch
    /\ UNCHANGED <<server, request, online, debounce, awaited, failed,
                   cached, stale>>

(* Leaving does not wait for what is on its way: a save of another text,   *)
(* or one of a text that has been taken back since.                        *)
LeftBehind ==
    \/ Others(screen) # {}
    \/ ~ Dirty /\ awaited # Nobody /\ request[awaited].note # screen

Unmounted ==
    /\ open' = FALSE /\ loaded' = FALSE
    /\ saved' = screen /\ UNCHANGED screen
    /\ debounce' = FALSE /\ awaited' = Nobody /\ failed' = FALSE

(* Leaving saves, unless there is nothing to save.  The slip: it does not. *)
Forgets == FALSE
SavesOnLeaving == Dirty

Leave ==
    /\ open
    /\ Unmounted
    /\ \/ /\ SavesOnLeaving /\ Room
          /\ \E r \in Free :
                request' = [request EXCEPT ![r] = Sent(screen, TRUE)]
       \/ ~ SavesOnLeaving /\ UNCHANGED request
    /\ exposed' = (exposed \/ LeftBehind)
    /\ UNCHANGED <<server, online, cache>>

(* Closing or reloading the tab.  A keepalive request carries the text; it *)
(* needs the network at once.  Of the requests on their way some are cut   *)
(* off, and nobody waits for the others.                                   *)
CloseTab ==
    /\ Unmounted
    /\ \E kept \in SUBSET InFlight :
         LET left == [r \in Requests |->
                 IF r \in kept /\ request[r].pc \in {"sent", "read"}
                 THEN [request[r] EXCEPT !.mine = FALSE] ELSE Idle]
         IN  IF Dirty /\ online
             THEN \E r \in Free : request' = [left EXCEPT ![r] = Sent(screen, FALSE)]
             ELSE request' = left
    /\ cached' = NoNote /\ stale' = FALSE /\ fetch' = NoFetch
    /\ exposed' = (exposed \/ LeftBehind \/ (Dirty /\ ~ online)
                           \/ (~ loaded /\ Unstored # {}))
    /\ UNCHANGED <<server, online>>

(* An unused query is dropped after a while.                               *)
Expire ==
    /\ ~ open /\ cached # NoNote /\ fetch = NoFetch
    /\ cached' = NoNote /\ stale' = FALSE
    /\ UNCHANGED <<server, request, online, editor, fetch, exposed>>

-----------------------------------------------------------------------------
(* GET /notes/{id}.                                                        *)

FetchRead ==
    /\ fetch = Asked /\ online /\ status = "live"
    /\ fetch' = [pc |-> "landing", note |-> row]
    /\ UNCHANGED <<server, request, online, editor, cached, stale, exposed>>

FetchLands ==
    /\ fetch.pc = "landing"
    /\ cached' = fetch.note /\ stale' = FALSE /\ fetch' = NoFetch
    /\ \/ open /\ ~ loaded /\ Adopt(fetch.note)
       \/ ~ (open /\ ~ loaded) /\ UNCHANGED <<loaded, screen, saved, exposed>>
    /\ UNCHANGED <<server, request, online, open, debounce, awaited, failed>>

(* Its retries used up, or 404 for a deleted note.                         *)
FetchFails ==
    /\ fetch # NoFetch
    /\ fetch' = NoFetch
    /\ UNCHANGED <<server, request, online, editor, cached, stale, exposed>>

Refetch ==
    /\ open /\ fetch = NoFetch /\ (cached = NoNote \/ stale)
    /\ fetch' = Asked
    /\ UNCHANGED <<server, request, online, editor, cached, stale, exposed>>

-----------------------------------------------------------------------------
(* PATCH /notes/{id}: a read for the fields that were left out, then the   *)
(* update, in two transactions.                                            *)

Answered(r, answer) ==
    request' = [request EXCEPT ![r] = IF @.mine THEN answer ELSE Idle]

Refused(r) ==
    /\ Answered(r, [pc |-> "refused", note |-> request[r].note])
    /\ exposed' = (exposed \/ ~ request[r].mine)

PatchRead(r) ==
    /\ request[r].pc = "sent"
    /\ \/ /\ status = "live"
          /\ request' = [request EXCEPT ![r] =
                [pc |-> "read", note |-> @.note, mine |-> @.mine,
                 before |-> row.domain]]
          /\ UNCHANGED exposed
       \/ status # "live" /\ Refused(r)
    /\ UNCHANGED <<server, online, editor, cache>>

(* UpdateNote: WHERE deleted_at IS NULL.  The slip: the read has checked.  *)
ReadChecked == TRUE
Updatable == status = "live"

PatchWrite(r) ==
    /\ request[r].pc = "read"
    /\ \/ /\ Updatable
          /\ row' = Rewritten(request[r].note, request[r].before)
          /\ Answered(r, [pc |-> "stored", note |-> request[r].note, fresh |-> row'])
          /\ UNCHANGED exposed
       \/ ~ Updatable /\ Refused(r) /\ UNCHANGED row
    /\ UNCHANGED <<status, online, editor, cache>>

(* The answer: the hook's callback writes the cache for whoever reads it   *)
(* next, the editor's own runs only for the save it still observes.        *)
Succeeds(r) ==
    /\ request[r].pc = "stored"
    /\ request' = [request EXCEPT ![r] = Idle]
    /\ cached' = request[r].fresh /\ stale' = TRUE
    /\ fetch' = IF open THEN Asked ELSE fetch
    /\ \/ /\ r = awaited
          /\ saved' = request[r].fresh /\ awaited' = Nobody
          /\ UNCHANGED <<loaded, screen, exposed>>
       \/ open /\ ~ loaded /\ Adopt(request[r].fresh) /\ UNCHANGED awaited
       \/ /\ r # awaited /\ (open => loaded)
          /\ UNCHANGED <<loaded, screen, saved, awaited, exposed>>
    /\ Rescheduled
    /\ UNCHANGED <<server, online, open, failed>>

(* Refused, unreachable, timed out, or an answer lost after the commit.    *)
(* The server may still be working on a request its client has given up.   *)
Fails(r) ==
    /\ request[r].pc \notin {"idle", "paused"}
    /\ \/ request' = [request EXCEPT ![r] = Idle]
       \/ /\ request[r].pc \in {"sent", "read"} /\ request[r].mine
          /\ request' = [request EXCEPT ![r].mine = FALSE]
    /\ IF r = awaited THEN failed' = TRUE /\ awaited' = Nobody
       ELSE UNCHANGED <<failed, awaited>>
    /\ exposed' = (exposed \/ ~ loaded \/ request'[r] # Idle
                           \/ (r = awaited /\ (row # saved \/ Unstored \ {r} # {})))
    /\ UNCHANGED <<server, online, open, loaded, screen, saved, debounce,
                   cache>>

-----------------------------------------------------------------------------
(* Deleting: from this screen, from a list or from another tab.  Once the  *)
(* delete this screen asked for has succeeded the screen leaves, and does  *)
(* not save: the server would refuse it.                                   *)

DeleteSucceeds ==
    /\ loaded /\ status = "trashed"
    /\ Unmounted
    /\ stale' = (cached # NoNote)
    /\ exposed' = (exposed \/ Dirty \/ LeftBehind)
    /\ UNCHANGED <<server, request, online, cached, fetch>>

Trash ==
    /\ status = "live" /\ status' = "trashed"
    /\ UNCHANGED <<row, request, online, editor, cache, exposed>>

Restore ==
    /\ status = "trashed" /\ status' = "live"
    /\ UNCHANGED <<row, request, online, editor, cache, exposed>>

-----------------------------------------------------------------------------
Server == \E r \in Requests : PatchRead(r) \/ PatchWrite(r) \/ Succeeds(r)
Screen == Open \/ Leave \/ CloseTab \/ Type \/ PressSave \/ Hide
Timers == DebounceFires \/ RetryFires
Network == GoOffline \/ GoOnline \/ \E r \in Requests : Fails(r)
Query == FetchRead \/ FetchLands \/ FetchFails \/ Refetch \/ Expire
Deletion == DeleteSucceeds \/ Trash \/ Restore

Next == Server \/ Screen \/ Timers \/ Network \/ Query \/ Deletion

Spec == Init /\ [][Next]_vars

-----------------------------------------------------------------------------
(* What the difference between screen and saved amounts to when the server *)
(* has already stored what is on the screen.                               *)
OnlyRewritten == saved = Rewritten(screen, saved.domain)

(* Unsaved text always has a save coming: the debounce, the retry or a     *)
(* pending one; "still unsaved" with nothing coming only ever means that   *)
(* the server stored the text in its own form.  The debounce and the retry *)
(* run on dependencies that a failed, overtaken or reverted save may leave *)
(* unchanged (NoteEditorPage, the comments on both effects).               *)
UnsavedIsScheduled ==
    Dirty => debounce \/ Retrying \/ awaited # Nobody \/ OnlyRewritten

Quiet ==
    /\ Unstored = {}
    /\ open => loaded /\ ~ debounce /\ ~ Retrying /\ awaited = Nobody

(* The last text typed is the one stored once everything has come to rest, *)
(* through failures, reconnections, leaving and coming back, unless saves  *)
(* with different texts overlapped, an answer or a departing request was   *)
(* lost, a copy older than the row was adopted, or unsaved text was left   *)
(* offline or deleted: "exposed" is set by exactly those.                  *)
LossNeedsARace == Quiet /\ ~ exposed => row = Rewritten(screen, row.domain)

(* Whatever saves are still on their way, a deleted note does not change.  *)
DeletedStaysDeleted == [][status = "trashed" => row' = row]_vars

(* What the editor's status line and retry promise: text does not stay     *)
(* unsaved for ever while the editor is open and the note exists.          *)
Unsaved == Dirty /\ ~ OnlyRewritten
UnsavedGetsSaved == Unsaved ~> (~ Unsaved \/ status = "trashed")

(* The timers fire, the browser notices its connection, and a request that *)
(* reaches the server comes to an end, answered or given up.  And from     *)
(* some point on the user has stopped and the network holds: nobody types, *)
(* leaves, deletes or restores, the connection stays, no awaited save      *)
(* fails, and none overtakes another, as hiding the tab makes it.          *)
Disturbance ==
    \/ loaded /\ loaded' /\ screen' # screen
    \/ open /\ ~ open'
    \/ online /\ ~ online'
    \/ status' # status
    \/ failed' /\ ~ failed
    \/ awaited # Nobody /\ awaited' \notin {awaited, Nobody}
Settles == <>[][~ Disturbance]_vars
Ends(r) == []<>(request[r].pc \in {"idle", "paused"})

FairSpec ==
    /\ Spec /\ Settles
    /\ WF_vars(DebounceFires) /\ WF_vars(RetryFires) /\ WF_vars(GoOnline)
    /\ \A r \in Requests : Ends(r)

(* Violated.  What a comment says (NoteEditorPage.tsx:110-113):            *)
(* "Nothing rewrites a note now, so the response is what was sent."        *)
ResponseIsWhatWasSent ==
    \A r \in InFlight : request[r].pc = "stored" => request[r].fresh = request[r].note
=============================================================================
