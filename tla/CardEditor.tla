----------------------------- MODULE CardEditor -----------------------------
(***************************************************************************)
(* The card editor, web/src/features/cards/CardEditorPage.tsx, with its    *)
(* mutations and the POST and PATCH of internal/api/cards.go.              *)
(*                                                                         *)
(* Saving is explicit, but leaving, hiding and closing save as well once   *)
(* both sides are filled in.  On /cards/new a save creates a card, and     *)
(* only the navigation that its success starts turns the next save into a  *)
(* change of that card.  A text stands for all four fields, trimmed as a   *)
(* save sends them; the domain is kept apart from the other three, because *)
(* the server treats it differently.                                       *)
(***************************************************************************)
EXTENDS FiniteSets

CONSTANTS
    Sides,      \* a front, a back and labels, with both sides filled in
    Domains,    \* domain ids; none is archived while the editor is open
    NoDomain,   \* null in the request, NULL in the row
    Half,       \* a text with one side empty
    Empty,      \* the new form as it opens
    Cards,      \* card ids
    Forms,      \* visits of /cards/new that left a trace
    New,        \* the place /cards/new; any other place is a card
    NoRow,      \* a card that has not been created
    Requests,   \* saves on their way at once
    Nobody      \* no save is awaited

Filled == [sides: Sides, domain: Domains \cup {NoDomain}]
Texts == Filled \cup {Half, Empty}

ASSUME TextsAssumption == Half \notin Filled /\ Empty \notin Filled \cup {Half}
ASSUME NullAssumption ==
    /\ NoDomain \notin Domains
    /\ New \notin Cards
    /\ NoRow \notin Texts /\ NoRow \notin Forms
    /\ Nobody \notin Requests

VARIABLES
    row, status,            \* the cards rows
    request,                \* the saves on their way, or in the server
    open, place,            \* the editor is mounted; the card it edits, or New
    form,                   \* this visit of /cards/new
    screen, saved,          \* what a save would send; saved.current
    awaited,                \* the mutation the editor observes while pending
    cached,                 \* the detail queries
    origin, doubted, exposed    \* observers: which visit a card was made by;
                                \* visits whose creation was in doubt when they
                                \* saved again; typed text was put at risk

table == <<row, status, origin>>
editor == <<open, place, form, screen, saved, awaited>>
vars == <<table, request, editor, cached, doubted, exposed>>

-----------------------------------------------------------------------------
Idle == [pc |-> "idle"]

Request ==
    {Idle}
    \cup [pc: {"post"}, form: Forms, text: Filled, mine: BOOLEAN]
    \cup [pc: {"patch"}, card: Cards, text: Filled, mine: BOOLEAN]
    \cup [pc: {"read"}, card: Cards, text: Filled, mine: BOOLEAN,
          before: Domains \cup {NoDomain}]
    \cup [pc: {"done"}, card: Cards, text: Filled, created: BOOLEAN]

Free == {r \in Requests : request[r] = Idle}
Posts(f) == {r \in Requests : request[r].pc = "post" /\ request[r].form = f}
Changes == {"patch", "read"}
Patches(c) == {r \in Requests : request[r].pc \in Changes /\ request[r].card = c}
Others(c, text) == {r \in Patches(c) : request[r].text # text}

TypeOK ==
    /\ row \in [Cards -> Filled \cup {NoRow}]
    /\ status \in [Cards -> {"none", "live", "trashed"}]
    /\ \A c \in Cards : row[c] = NoRow <=> status[c] = "none"
    /\ request \in [Requests -> Request]
    /\ open \in BOOLEAN /\ place \in Cards \cup {New} /\ form \in Forms
    /\ screen \in Texts /\ saved \in Texts
    /\ awaited \in Requests \cup {Nobody}
    /\ cached \in [Cards -> Filled \cup {NoRow}]
    /\ origin \in [Cards -> Forms \cup {NoRow}]
    /\ doubted \subseteq Forms /\ exposed \in BOOLEAN

Init ==
    /\ \E first \in SUBSET Cards :
          /\ row \in [Cards -> Filled \cup {NoRow}]
          /\ \A c \in Cards : row[c] # NoRow <=> c \in first
          /\ status = [c \in Cards |-> IF c \in first THEN "live" ELSE "none"]
    /\ request = [r \in Requests |-> Idle]
    /\ open = FALSE /\ place = New /\ form \in Forms
    /\ screen = Empty /\ saved = Empty /\ awaited = Nobody
    /\ cached = [c \in Cards |-> NoRow]
    /\ origin = [c \in Cards |-> NoRow]
    /\ doubted = {} /\ exposed = FALSE

-----------------------------------------------------------------------------
(* The form.                                                               *)

Dirty == open /\ screen # saved
(* Both sides are filled in.  The slip: either is.                         *)
EitherSide == screen # Empty
Valid == screen \in Filled

(* On /cards/new the visit is the row's only identity: a card it may have  *)
(* made already is not known to the next save.                             *)
Write(mine) ==
    IF place = New
    THEN [pc |-> "post", form |-> form, text |-> screen, mine |-> mine]
    ELSE [pc |-> "patch", card |-> place, text |-> screen, mine |-> mine]

Created(r, f) ==
    /\ request[r].pc = "done" /\ request[r].created
    /\ origin[request[r].card] = f
InDoubt ==
    /\ place = New
    /\ Posts(form) # {} \/ \E r \in Requests : Created(r, form)
Overtakes == place # New /\ Others(place, screen) # {}

Notes == /\ doubted' = IF InDoubt THEN doubted \cup {form} ELSE doubted
         /\ exposed' = (exposed \/ Overtakes)

Persist ==
    /\ Dirty /\ Valid
    /\ \E r \in Free : /\ request' = [request EXCEPT ![r] = Write(TRUE)]
                       /\ awaited' = r
    /\ Notes
    /\ UNCHANGED <<table, open, place, form, screen, saved, cached>>

PressSave == awaited = Nobody /\ Persist

(* The tab is hidden.  Unlike the button, this does not look at pending.   *)
Hide == Persist

Type ==
    /\ open
    /\ \E text \in Texts \ {screen} : screen' = text
    /\ UNCHANGED <<table, request, open, place, form, saved, awaited, cached,
                   doubted, exposed>>

OpenNew ==
    /\ ~ open
    /\ open' = TRUE /\ place' = New
    /\ screen' = Empty /\ saved' = Empty
    /\ \E f \in Forms : /\ Posts(f) = {} /\ \A c \in Cards : origin[c] # f
                        /\ form' = f
                        /\ doubted' = doubted \ {f}
    /\ exposed' = FALSE
    /\ UNCHANGED <<table, request, awaited, cached>>

(* What is in the cache is adopted, else what a GET returns.               *)
OpenCard(c) ==
    /\ ~ open
    /\ \E text \in Filled :
          /\ text = cached[c] \/ (cached[c] = NoRow /\ status[c] = "live" /\ text = row[c])
          /\ screen' = text /\ saved' = text
          /\ cached' = [cached EXCEPT ![c] = text]
          /\ exposed' = (text # row[c] \/ Others(c, text) # {})
    /\ open' = TRUE /\ place' = c
    /\ UNCHANGED <<table, request, form, awaited, doubted>>

(* Fetched again while it is shown, or dropped while it is not.            *)
Refetch(c) ==
    /\ \/ open /\ place = c /\ status[c] = "live" /\ cached' = [cached EXCEPT ![c] = row[c]]
       \/ ~ (open /\ place = c) /\ cached' = [cached EXCEPT ![c] = NoRow]
    /\ UNCHANGED <<table, request, editor, doubted, exposed>>

-----------------------------------------------------------------------------
(* Leaving does not wait for what is on its way: a save of another text,   *)
(* or of one that has been taken back since.                               *)
LeftBehind ==
    /\ place # New
    /\ \/ Others(place, screen) # {}
       \/ ~ Dirty /\ awaited # Nobody /\ request[awaited].text # screen

(* The slip: leaving drops what was typed.                                 *)
Forgets == FALSE
SavesOnLeaving == Dirty /\ Valid

Gone == open' = FALSE /\ awaited' = Nobody /\ saved' = screen
        /\ UNCHANGED <<place, form, screen>>

Leave ==
    /\ open
    /\ Gone
    /\ \/ /\ SavesOnLeaving
          /\ \E r \in Free : request' = [request EXCEPT ![r] = Write(TRUE)]
          /\ Notes
       \/ /\ ~ SavesOnLeaving
          /\ exposed' = (exposed \/ LeftBehind)
          /\ UNCHANGED <<request, doubted>>
    /\ UNCHANGED <<table, cached>>

(* Closing the tab hides it first: the ordinary save starts, and for a     *)
(* card that exists a keepalive PATCH follows.  Any request but that one   *)
(* may be cut off; nobody waits for the others.                            *)
CloseTab ==
    /\ open
    /\ Gone
    /\ \E kept \in SUBSET Requests :
         LET left == [r \in Requests |->
                 IF r \in kept /\ request[r].pc \in {"post"} \cup Changes
                 THEN [request[r] EXCEPT !.mine = FALSE] ELSE Idle]
         IN  \/ /\ Dirty /\ Valid
                /\ \E r \in Free : request' = [left EXCEPT ![r] = Write(FALSE)]
                /\ Notes
             \/ /\ ~ (Dirty /\ Valid)
                /\ request' = left
                /\ exposed' = (exposed \/ LeftBehind)
                /\ UNCHANGED doubted
    /\ cached' = [c \in Cards |-> NoRow]
    /\ UNCHANGED table

-----------------------------------------------------------------------------
(* The server.                                                             *)

Answered(r, answer) ==
    request' = [request EXCEPT ![r] = IF @.mine THEN answer ELSE Idle]

CreateCard(r) ==
    /\ request[r].pc = "post"
    /\ \E c \in Cards :
          /\ status[c] = "none"
          /\ status' = [status EXCEPT ![c] = "live"]
          /\ row' = [row EXCEPT ![c] = request[r].text]
          /\ origin' = [origin EXCEPT ![c] = request[r].form]
          /\ Answered(r, [pc |-> "done", card |-> c, text |-> request[r].text,
                          created |-> TRUE])
    /\ UNCHANGED <<editor, cached, doubted, exposed>>

(* handleUpdateCard.  First the card is read, for the fields left out.     *)
ReadCard(r) ==
    /\ request[r].pc = "patch"
    /\ status[request[r].card] = "live"
    /\ request' = [request EXCEPT ![r] =
          [pc |-> "read", card |-> @.card, text |-> @.text, mine |-> @.mine,
           before |-> row[@.card].domain]]
    /\ UNCHANGED <<table, editor, cached, doubted, exposed>>

(* A null domain cannot be told from an absent one: it keeps the old one.  *)
Rewritten(text, before) ==
    IF text.domain = NoDomain THEN [text EXCEPT !.domain = before] ELSE text

(* UpdateCard: WHERE deleted_at IS NULL.  The slip: the read has checked.  *)
Exists(c) == status[c] # "none"
Updatable(c) == status[c] = "live"

UpdateCard(r) ==
    /\ request[r].pc = "read"
    /\ Updatable(request[r].card)
    /\ LET fresh == Rewritten(request[r].text, request[r].before)
       IN  /\ row' = [row EXCEPT ![request[r].card] = fresh]
           /\ Answered(r, [pc |-> "done", card |-> request[r].card,
                           text |-> fresh, created |-> FALSE])
    /\ UNCHANGED <<status, origin, editor, cached, doubted, exposed>>

(* A success the editor still observes is adopted, and the one of a POST   *)
(* moves the screen to the card it made.  The slip: it stays.              *)
StaysOnForm(r) == place
GoesTo(r) == request[r].card

Succeeds(r) ==
    /\ request[r].pc = "done"
    /\ request' = [request EXCEPT ![r] = Idle]
    /\ cached' = IF request[r].created THEN cached
                 ELSE [cached EXCEPT ![request[r].card] = request[r].text]
    /\ \/ /\ r = awaited
          /\ awaited' = Nobody
          /\ saved' = request[r].text
          /\ place' = GoesTo(r)
       \/ r # awaited /\ UNCHANGED <<awaited, saved, place>>
    /\ UNCHANGED <<table, open, form, screen, doubted, exposed>>

(* Refused, over a quota, unreachable, cut off, or an answer lost after    *)
(* the commit; the server may still be working on what was given up.       *)
Fails(r) ==
    /\ request[r] # Idle
    /\ \/ request' = [request EXCEPT ![r] = Idle]
       \/ /\ request[r].pc \in {"post"} \cup Changes /\ request[r].mine
          /\ request' = [request EXCEPT ![r].mine = FALSE]
    /\ awaited' = IF r = awaited THEN Nobody ELSE awaited
    /\ exposed' = (exposed \/ ~ open \/ request'[r] # Idle
                    \/ (/\ r = awaited /\ place # New
                        /\ row[place] # saved \/ Patches(place) \ {r} # {}))
    /\ doubted' = doubted \cup {f \in Forms : Created(r, f) \/ r \in Posts(f)}
    /\ UNCHANGED <<table, open, place, form, screen, saved, cached>>

(* A delete this screen asked for leaves it without saving.                *)
DeleteSucceeds ==
    /\ open /\ place # New /\ status[place] = "trashed"
    /\ Gone
    /\ exposed' = (exposed \/ Dirty \/ LeftBehind)
    /\ UNCHANGED <<table, request, cached, doubted>>

Trash(c) ==
    /\ status[c] = "live" /\ status' = [status EXCEPT ![c] = "trashed"]
    /\ UNCHANGED <<row, origin, request, editor, cached, doubted, exposed>>

Restore(c) ==
    /\ status[c] = "trashed" /\ status' = [status EXCEPT ![c] = "live"]
    /\ UNCHANGED <<row, origin, request, editor, cached, doubted, exposed>>

-----------------------------------------------------------------------------
Next ==
    \/ PressSave \/ Hide \/ Type \/ OpenNew \/ Leave \/ CloseTab \/ DeleteSucceeds
    \/ \E c \in Cards : OpenCard(c) \/ Refetch(c) \/ Trash(c) \/ Restore(c)
    \/ \E r \in Requests :
          CreateCard(r) \/ ReadCard(r) \/ UpdateCard(r) \/ Succeeds(r) \/ Fails(r)

Spec == Init /\ [][Next]_vars

-----------------------------------------------------------------------------
(* A visit of /cards/new makes at most one card, unless it saved again     *)
(* while its creation was in doubt: still pending, given up, or committed  *)
(* with the answer lost.  The navigation after the first success is what   *)
(* keeps a later save from creating another (CardEditorPage.tsx:125-131).  *)
SecondCardNeedsDoubt ==
    \A c, d \in Cards :
        c # d /\ origin[c] = origin[d] /\ origin[c] # NoRow => origin[c] \in doubted

Quiet ==
    /\ \A r \in Requests : request[r].pc \in {"idle", "done"}
    /\ open => ~ Dirty /\ awaited = Nobody

(* What was typed into both sides is kept by every way off the screen, a   *)
(* domain that was taken away excepted, unless texts overlapped, an answer *)
(* or a departing request was lost, an old copy was adopted, or the card   *)
(* was deleted: "exposed" says which (CardEditorPage.tsx:169-196).         *)
FormStored == \E c \in Cards : origin[c] = form /\ row[c] = screen
FilledTextIsKept ==
    Quiet /\ ~ exposed /\ Valid =>
        IF place = New THEN FormStored
        ELSE row[place] = Rewritten(screen, row[place].domain)

(* A deleted card does not change, whatever saves are still on their way.  *)
DeletedCardsStay ==
    [][\A c \in Cards : status[c] = "trashed" => row'[c] = row[c]]_vars

(* Violated.  What a comment says (CardEditorPage.tsx:34-36): "It now      *)
(* keeps what you wrote when the screen leaves, when the tab is            *)
(* backgrounded, and when the tab closes, on one condition", both sides.   *)
WrittenIsKept ==
    Quiet /\ ~ exposed /\ Valid =>
        IF place = New THEN FormStored ELSE row[place] = screen
=============================================================================
