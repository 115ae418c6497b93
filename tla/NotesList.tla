----------------------------- MODULE NotesList -----------------------------
(***************************************************************************)
(* The list of notes, web/src/features/notes/NotesPage.tsx, with its paged *)
(* query (queries.ts, api/paging.ts), the ticks of lib/use-selection.ts,   *)
(* the preview of lib/peek-route.tsx, and the bulk statements of           *)
(* internal/store/queries/notes.sql.  CardsPage.tsx is the same screen     *)
(* over cards.                                                             *)
(*                                                                         *)
(* A list is loaded page by page, and every page is read at another        *)
(* moment.  Of the filters only the one between the live notes and         *)
(* Terhapus is modelled: it decides what a tick does.                      *)
(***************************************************************************)
EXTENDS Naturals, Sequences, FiniteSets, SequencesExt, FiniteSetsExt

CONSTANTS
    Notes,      \* ids, numbers: the order of notes of one bulk statement
    PageSize,
    Requests,   \* bound: mutations sent, and faults
    Faults,     \* bound: loads and requests that fail, changes made elsewhere
    None        \* nothing is loaded; no note is open

(* A page as the server answers it; what a query holds, with the total of  *)
(* its last page; and a load: another page, or all of them anew, what has  *)
(* landed, how many are left to fetch and the page that is on its way.     *)
Page == [rows: Seq(Notes), total: Nat]
Pages == [rows: Seq(Notes), pages: Nat, total: Nat]
Loading == [more: BOOLEAN, rows: Seq(Notes), pages: Nat, left: Nat, page: Page \cup {None}]

ASSUME NotesAssumption == Notes \subseteq Nat /\ IsFiniteSet(Notes)
ASSUME NoneAssumption == None \notin Notes \cup Page \cup Pages \cup Loading
ASSUME PageAssumption == PageSize \in Nat \ {0} /\ Requests \in Nat /\ Faults \in Nat

Views == {"live", "deleted"}

VARIABLES
    rows,           \* the notes of each view, the last updated first
    data, invalid,  \* the two queries: what they hold, whether invalidated
    fetch,          \* what each is loading
    place,          \* the list, the list while the editor is fetched, the editor
    view,           \* the filter
    leaving, peeked,    \* the flag of newNote; the note in the preview
    ticked, undo,   \* raw of useSelection; the ids of the last delete
    request,        \* the mutation on its way
    torn,           \* observer: what a query holds may miss a change: one made
                    \* elsewhere or never answered, one that a load under way
                    \* had read past, or a reload that "more" cut off
    moved,          \* observer: what the last delete moved; None if it was
                    \* confirmed on rows that were no longer live, or after
                    \* any fault
    requests, faults    \* how many there were

queries == <<data, invalid, fetch>>
screen == <<place, view, leaving, peeked, ticked, undo>>
observers == <<torn, moved>>
vars == <<rows, queries, screen, request, observers, requests, faults>>

-----------------------------------------------------------------------------
Idle == [pc |-> "idle"]
Request == {Idle} \cup
    [pc: {"sent", "done"}, kind: {"create", "delete", "restore", "undo"},
     ids: SUBSET Notes]

TypeOK ==
    /\ rows \in [Views -> Seq(Notes)]
    /\ IsInjective(rows["live"] \o rows["deleted"])
    /\ data \in [Views -> Pages \cup {None}] /\ invalid \in [Views -> BOOLEAN]
    /\ fetch \in [Views -> Loading \cup {None}]
    /\ place \in {"list", "opening", "editor"}
    /\ view \in Views
    /\ leaving \in BOOLEAN /\ peeked \in Notes \cup {None}
    /\ ticked \subseteq Notes /\ undo \subseteq Notes
    /\ request \in Request
    /\ torn \in [Views -> BOOLEAN] /\ moved \in (SUBSET Notes) \cup {None}
    /\ requests \in 0..Requests /\ faults \in 0..Faults

(* The numbers of S, the least first.                                      *)
Ascending(S) ==
    CHOOSE f \in [1..Cardinality(S) -> S] :
        \A i, j \in 1..Cardinality(S) : i < j => f[i] < f[j]

Init ==
    /\ \E first \in SUBSET Notes :
          rows = [v \in Views |-> IF v = "live" THEN Ascending(first) ELSE <<>>]
    /\ data = [v \in Views |-> None] /\ invalid = [v \in Views |-> FALSE]
    /\ fetch = [v \in Views |-> None]
    /\ place = "list" /\ view = "live"
    /\ leaving = FALSE /\ peeked = None
    /\ ticked = {} /\ undo = {} /\ request = Idle
    /\ torn = [v \in Views |-> FALSE] /\ moved = {}
    /\ requests = 0 /\ faults = 0

-----------------------------------------------------------------------------
(* What is on the screen.                                                  *)

Mounted == place # "editor"

(* Until the rows of another filter arrive, those shown last stay.         *)
Other(v) == CHOOSE w \in Views : w # v
Shown ==
    LET v == IF data[view] # None THEN view ELSE Other(view)
    IN  IF data[v] # None THEN data[v].rows ELSE <<>>

(* The ticks that count are those on the screen.                           *)
Selected == ticked \cap ToSet(Shown)

Toggle(n) ==
    /\ place = "list" /\ n \in ToSet(Shown)
    /\ ticked' = (ticked \ {n}) \cup ({n} \ ticked)
    /\ UNCHANGED <<rows, queries, place, view, leaving, peeked, undo, request,
                   observers, requests, faults>>

ToggleAll ==
    /\ place = "list" /\ Selected # {}
    /\ ticked' = IF ToSet(Shown) \subseteq ticked THEN ticked \ ToSet(Shown)
                 ELSE ticked \cup ToSet(Shown)
    /\ UNCHANGED <<rows, queries, place, view, leaving, peeked, undo, request,
                   observers, requests, faults>>

(* Another filter: the ticks stay, the offer to undo goes.                 *)
SetView ==
    /\ place = "list"
    /\ view' \in Views \ {view}
    /\ peeked' = None /\ undo' = {}
    /\ UNCHANGED <<rows, queries, place, leaving, ticked, request, observers,
                   requests, faults>>

(* A note of the list is opened in the preview.                            *)
Peek ==
    /\ place = "list" /\ view = "live"
    /\ peeked' \in ToSet(Shown)
    /\ UNCHANGED <<rows, queries, place, view, leaving, ticked, undo, request,
                   observers, requests, faults>>

(* The list opens its first note over whatever is being navigated to.  The *)
(* slip: also while the editor is on its way.                              *)
AlwaysEnabled == view = "live"
Enabled == view = "live" /\ ~ leaving

AutoSelect ==
    /\ Mounted /\ Enabled
    /\ Shown # <<>> /\ peeked \notin ToSet(Shown)
    /\ peeked' = Shown[1] /\ place' = "list"
    /\ UNCHANGED <<rows, queries, view, leaving, ticked, undo, request,
                   observers, requests, faults>>

EditorArrives ==
    /\ place = "opening" /\ place' = "editor"
    /\ UNCHANGED <<rows, queries, view, leaving, peeked, ticked, undo, request,
                   observers, requests, faults>>

(* Back to a list that is mounted anew.                                    *)
Return ==
    /\ place = "editor" /\ place' = "list"
    /\ view' = "live"
    /\ leaving' = FALSE /\ peeked' = None /\ ticked' = {} /\ undo' = {}
    /\ UNCHANGED <<rows, queries, request, observers, requests, faults>>

-----------------------------------------------------------------------------
(* Loading.                                                                *)

(* All the pages that the query holds, one after the other.                *)
Anew(v) ==
    [more |-> FALSE, rows |-> <<>>, pages |-> 0,
     left |-> IF data[v] = None THEN 1 ELSE data[v].pages, page |-> None]

(* A query that is shown and holds nothing, or is invalidated or stale, is *)
(* loaded again.  A reload that could find nothing new is left out.        *)
Load ==
    /\ Mounted /\ fetch[view] = None
    /\ data[view] = None \/ invalid[view] \/ torn[view]
    /\ fetch' = [fetch EXCEPT ![view] = Anew(view)]
    /\ torn' = [torn EXCEPT ![view] = FALSE]
    /\ UNCHANGED <<rows, data, invalid, screen, request, moved, requests, faults>>

(* The next page is asked for behind the rows that the query holds.  The   *)
(* button waits for another next page only: a reload is cut off.           *)
LoadMore ==
    /\ place = "list" /\ data[view] # None
    /\ fetch[view] # None => ~ fetch[view].more
    /\ Len(data[view].rows) < data[view].total
    /\ fetch' = [fetch EXCEPT ![view] =
           [more |-> TRUE, rows |-> data[view].rows, pages |-> data[view].pages,
            left |-> 1, page |-> None]]
    /\ torn' = [torn EXCEPT ![view] = @ \/ invalid[view] \/ fetch[view] # None]
    /\ UNCHANGED <<rows, data, invalid, screen, request, moved, requests, faults>>

NextOffset(v) == Len(fetch[v].rows)

PageAt(v, offset) ==
    SubSeq(rows[v], offset + 1, Min({offset + PageSize, Len(rows[v])}))

(* The server reads a page, and counts what there is.                      *)
ReadPage(v) ==
    /\ fetch[v] # None /\ fetch[v].page = None
    /\ fetch' = [fetch EXCEPT ![v].page =
           [rows |-> PageAt(v, NextOffset(v)), total |-> Len(rows[v])]]
    /\ UNCHANGED <<rows, data, invalid, screen, request, observers, requests, faults>>

(* It lands: the next one is asked for, or the query holds them all, and   *)
(* counts as valid.                                                        *)
PageLands(v) ==
    /\ fetch[v] # None /\ fetch[v].page # None
    /\ LET loaded == fetch[v].rows \o fetch[v].page.rows
           count == fetch[v].pages + 1
           total == fetch[v].page.total
       IN  IF fetch[v].left > 1 /\ Len(loaded) < total
           THEN /\ fetch' = [fetch EXCEPT ![v] =
                       [more |-> FALSE, rows |-> loaded, pages |-> count,
                        left |-> fetch[v].left - 1, page |-> None]]
                /\ UNCHANGED <<data, invalid>>
           ELSE /\ fetch' = [fetch EXCEPT ![v] = None]
                /\ data' = [data EXCEPT ![v] =
                       [rows |-> loaded, pages |-> count, total |-> total]]
                /\ invalid' = [invalid EXCEPT ![v] = FALSE]
    /\ UNCHANGED <<rows, screen, request, observers, requests, faults>>

Spent == requests + faults

Fault ==
    /\ faults < Faults /\ Spent < Requests
    /\ faults' = faults + 1 /\ moved' = None

LoadFails(v) ==
    /\ Fault
    /\ fetch[v] # None
    /\ fetch' = [fetch EXCEPT ![v] = None]
    /\ torn' = [torn EXCEPT ![v] = TRUE]
    /\ UNCHANGED <<rows, data, invalid, screen, request, requests>>

-----------------------------------------------------------------------------
(* Changes.                                                                *)

Send(kind, ids) ==
    /\ place = "list" /\ request = Idle
    /\ Spent < Requests /\ requests' = requests + 1
    /\ request' = [pc |-> "sent", kind |-> kind, ids |-> ids]
    /\ UNCHANGED <<rows, queries, screen, observers, faults>>

NewNote == view = "live" /\ Send("create", {})
ConfirmDelete == view = "live" /\ Selected # {} /\ Send("delete", Selected)
RestoreSelected == view = "deleted" /\ Selected # {} /\ Send("restore", Selected)
UndoDelete == undo # {} /\ Send("undo", undo)

(* One statement: the notes that match move to the head of the other view. *)
(* The slip: no condition on the state of the note.                        *)
AnyOf(v, ids) == ids
Matching(v, ids) == ids \cap ToSet(rows[v])
Newest(S) == Reverse(Ascending(S))
Without(seq, S) ==
    LET kept == {k \in DOMAIN seq : seq[k] \notin S}
    IN  [k \in 1..Cardinality(kept) |-> seq[Ascending(kept)[k]]]
Moved(from, to, ids) ==
    [v \in Views |-> IF v = from THEN Without(rows[v], ids)
                     ELSE Newest(Matching(from, ids)) \o rows[to]]

SoftDelete(ids) == rows' = Moved("live", "deleted", ids)
Restore(ids) == rows' = Moved("deleted", "live", ids)

Unborn == Notes \ (ToSet(rows["live"]) \cup ToSet(rows["deleted"]))

Commit ==
    /\ request.pc = "sent"
    /\ \/ /\ request.kind = "delete" /\ SoftDelete(request.ids)
          /\ request' = [request EXCEPT !.pc = "done"]
          /\ moved' = IF faults = 0 /\ Matching("live", request.ids) = request.ids
                      THEN request.ids ELSE None
       \/ /\ request.kind \in {"restore", "undo"} /\ Restore(request.ids)
          /\ request' = [request EXCEPT !.pc = "done"] /\ UNCHANGED moved
       \/ request.kind = "create"
          /\ \E n \in Unborn :
                /\ rows' = [rows EXCEPT !["live"] = <<n>> \o @]
                /\ request' = [request EXCEPT !.pc = "done", !.ids = {n}]
          /\ UNCHANGED moved
    /\ UNCHANGED <<queries, screen, torn, requests, faults>>

(* Every list under the key is invalidated.  The slip: only the list that  *)
(* is shown.                                                               *)
InvalidatesShown == [v \in Views |-> v = view \/ invalid[v]]
Invalidated == [v \in Views |-> TRUE]

(* The one shown is loaded anew, whatever it was loading, unless it is     *)
(* loading for the first time: that load is kept, as is one that goes on   *)
(* unseen, and when it lands it counts as valid.                           *)
Restarts(v) == Mounted /\ v = view /\ (data[v] # None \/ fetch[v] = None)
HasRead(v) == fetch[v] # None /\ (fetch[v].rows # <<>> \/ fetch[v].page # None)

(* The offer to undo holds the ids that were sent.  The slip: what is      *)
(* ticked when the answer comes.                                           *)
TickedNow == Selected
Offered == request.ids

Succeeds ==
    /\ request.pc = "done" /\ request' = Idle
    /\ invalid' = Invalidated
    /\ fetch' = [v \in Views |-> IF Restarts(v) THEN Anew(v) ELSE fetch[v]]
    /\ torn' = [v \in Views |-> ~ Restarts(v) /\ (torn[v] \/ HasRead(v))]
    /\ CASE request.kind = "create" /\ Mounted ->
              leaving' = TRUE /\ place' = "opening" /\ UNCHANGED <<ticked, undo>>
         [] request.kind = "delete" /\ Mounted ->
              ticked' = {} /\ undo' = Offered /\ UNCHANGED <<leaving, place>>
         [] request.kind = "restore" /\ Mounted ->
              ticked' = {} /\ UNCHANGED <<undo, leaving, place>>
         [] request.kind = "undo" /\ Mounted ->
              undo' = {} /\ UNCHANGED <<ticked, leaving, place>>
         [] OTHER -> UNCHANGED <<leaving, place, ticked, undo>>
    /\ UNCHANGED <<rows, data, view, peeked, moved, requests, faults>>

(* Refused, or the answer lost after the commit.                           *)
Fails ==
    /\ Fault
    /\ request # Idle /\ request' = Idle
    /\ torn' = [v \in Views |-> torn[v] \/ request.pc = "done"]
    /\ UNCHANGED <<rows, queries, screen, requests>>

(* Another tab deletes or restores a note.                                 *)
Elsewhere ==
    /\ Fault
    /\ \E n \in Notes : SoftDelete({n}) \/ Restore({n})
    /\ rows' # rows
    /\ torn' = [v \in Views |-> TRUE]
    /\ UNCHANGED <<queries, screen, request, requests>>

Next ==
    \/ \E n \in Notes : Toggle(n)
    \/ ToggleAll \/ SetView \/ Peek \/ AutoSelect \/ EditorArrives \/ Return
    \/ Load \/ LoadMore \/ \E v \in Views : ReadPage(v) \/ PageLands(v) \/ LoadFails(v)
    \/ NewNote \/ ConfirmDelete \/ RestoreSelected \/ UndoDelete
    \/ Commit \/ Succeeds \/ Fails \/ Elsewhere

Spec == Init /\ [][Next]_vars

-----------------------------------------------------------------------------
(* A list that is loaded, that no change has invalidated and that is not   *)
(* torn is the head of what the server holds: its pages, read one by one   *)
(* around deletes, restores and undos, leave no gap (paging.ts:24-26).     *)
(* Every reload of a torn list makes it whole again.                       *)
ListIsWhole ==
    \A v \in Views :
        /\ data[v] # None /\ ~ invalid[v] /\ fetch[v] = None
        /\ ~ torn[v] /\ request.pc # "done"
        => IsPrefix(data[v].rows, rows[v])

(* "a short page (the server clamped the limit, or rows were deleted       *)
(* underneath) cannot leave a gap the reader would never see"              *)
(* (paging.ts:24-26), said of a list that is loaded, valid and at rest:    *)
(* with no fault and no other tab, no note is missing between two that it  *)
(* shows.                                                                  *)
NoGap ==
    \A v \in Views :
        /\ data[v] # None /\ ~ invalid[v] /\ fetch[v] = None
        /\ request = Idle /\ faults = 0
        => \A i, j, k \in DOMAIN rows[v] :
               /\ i < j /\ j < k
               /\ {rows[v][i], rows[v][k]} \subseteq ToSet(data[v].rows)
               => rows[v][j] \in ToSet(data[v].rows)

(* "It restores what was deleted, not whatever is in the bin now" (lines   *)
(* 79-81 of NotesPage.tsx): whatever was ticked, filtered, created,        *)
(* restored or reloaded since, an undo brings back nothing but what the    *)
(* delete had moved, and leaves none of it in the bin.  Not said of a      *)
(* delete confirmed on rows that had gone before, nor of what happens      *)
(* after a lost answer or a change made in another tab.                    *)
UndoIsExact ==
    [][request.pc = "sent" /\ request'.pc = "done" /\ request.kind = "undo"
       /\ moved # None
       => /\ Matching("deleted", request.ids) \subseteq moved
          /\ moved \subseteq ToSet(rows'["live"])]_vars

(* Whatever reload lands between the new note and its editor, the editor   *)
(* is what opens (NotesPage.tsx:158-177).                                  *)
NewNoteOpens == [][place = "opening" => place' \in {"opening", "editor"}]_vars
=============================================================================
