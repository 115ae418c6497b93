-------------------------- MODULE NoteEditorProofs --------------------------
(* Proofs about NoteEditor, for any texts and domains, any way the server  *)
(* trims them, and any number of saves on their way at once.               *)
EXTENDS NoteEditor, TLAPS

-----------------------------------------------------------------------------
(* What a request is, by how far it has come.                              *)

LEMMA RequestShape ==
    ASSUME NEW q \in Request, q # Idle
    PROVE  /\ q.note \in Note
           /\ q.pc \in {"paused", "sent", "read", "stored", "refused"}
           /\ q.pc \in {"paused", "sent", "read"} => q.mine \in BOOLEAN
           /\ q.pc = "read" => q.before \in Domains \cup {NoDomain}
           /\ q.pc = "stored" => q.fresh \in Note
  BY DEF Request, Idle

LEMMA IdleShape == Idle \in Request /\ Idle.pc = "idle"
  BY DEF Request, Idle

LEMMA SentShape ==
    ASSUME NEW note \in Note, NEW mine \in BOOLEAN
    PROVE  /\ Sent(note, mine) \in Request
           /\ Sent(note, mine).pc \in {"paused", "sent"}
           /\ Sent(note, mine).note = note
           /\ Sent(note, mine).mine = mine
  BY DEF Sent, Request

(* The steps of a request that keep its payload.                           *)
LEMMA Sends ==
    ASSUME NEW q \in Request, q.pc = "paused"
    PROVE  /\ [q EXCEPT !.pc = "sent"] \in Request
           /\ [q EXCEPT !.pc = "sent"].pc = "sent"
           /\ [q EXCEPT !.pc = "sent"].note = q.note
           /\ [q EXCEPT !.pc = "sent"].mine = q.mine
  BY DEF Request, Idle

LEMMA GivenUp ==
    ASSUME NEW q \in Request, q.pc \in {"sent", "read"}
    PROVE  /\ [q EXCEPT !.mine = FALSE] \in Request
           /\ [q EXCEPT !.mine = FALSE].pc = q.pc
           /\ [q EXCEPT !.mine = FALSE].note = q.note
  BY DEF Request, Idle

LEMMA RewrittenType ==
    ASSUME NEW note \in Note, NEW before \in Domains \cup {NoDomain}
    PROVE  Rewritten(note, before) \in Note
  BY TrimmedAssumption DEF Rewritten, Note

-----------------------------------------------------------------------------
(* Types.                                                                  *)

LEMMA TypeInit == Init => TypeOK
<1> SUFFICES ASSUME Init PROVE TypeOK
  OBVIOUS
<1>1. row \in Note /\ request \in [Requests -> Request]
  BY IdleShape DEF Init
<1> QED BY <1>1 DEF Init, TypeOK, Fetch

LEMMA SavesType ==
    ASSUME TypeOK, Saves, debounce' \in BOOLEAN
    PROVE  TypeOK'
<1>1. PICK r \in Free : /\ request' = [request EXCEPT ![r] = Sent(screen, TRUE)]
                        /\ awaited' = r /\ failed' = FALSE
  BY DEF Saves, DoSave, Observe
<1>2. Sent(screen, TRUE) \in Request /\ r \in Requests
  BY SentShape DEF TypeOK, Free
<1>3. request' \in [Requests -> Request]
  BY <1>1, <1>2 DEF TypeOK
<1>4. exposed' \in BOOLEAN
  BY DEF Saves, DoSave, TypeOK
<1> QED BY <1>1, <1>2, <1>3, <1>4
  DEF Saves, TypeOK, server, cache

LEMMA RescheduledType ==
    ASSUME TypeOK, Rescheduled, loaded' \in BOOLEAN
    PROVE  debounce' \in BOOLEAN
  BY DEF TypeOK, Rescheduled, Dirty

LEMMA ScreenType ==
    ASSUME TypeOK, Screen \/ Timers
    PROVE  TypeOK'
<1>1. CASE Open
  <2>1. loaded' \in BOOLEAN /\ screen' \in Note /\ saved' \in Note /\ exposed' \in BOOLEAN
    BY <1>1 DEF Open, Available, Adopt, TypeOK
  <2>2. fetch' \in Fetch
    BY <1>1 DEF Open, TypeOK, Fetch
  <2> QED BY <1>1, <2>1, <2>2 DEF Open, TypeOK, server
<1>2. CASE Leave
  <2>1. request' \in [Requests -> Request]
    BY <1>2, SentShape DEF Leave, TypeOK, Free
  <2> QED BY <1>2, <2>1 DEF Leave, Unmounted, TypeOK, server, cache
<1>3. CASE CloseTab
  <2>1. PICK kept \in SUBSET InFlight :
          LET left == [r \in Requests |->
                  IF r \in kept /\ request[r].pc \in {"sent", "read"}
                  THEN [request[r] EXCEPT !.mine = FALSE] ELSE Idle]
          IN  \/ \E r \in Free : request' = [left EXCEPT ![r] = Sent(screen, FALSE)]
              \/ request' = left
    BY <1>3 DEF CloseTab
  <2> DEFINE left == [r \in Requests |->
                  IF r \in kept /\ request[r].pc \in {"sent", "read"}
                  THEN [request[r] EXCEPT !.mine = FALSE] ELSE Idle]
  <2>2. left \in [Requests -> Request]
    BY GivenUp, IdleShape DEF TypeOK
  <2>3. request' \in [Requests -> Request]
    BY <2>1, <2>2, SentShape DEF TypeOK, Free
  <2>4. fetch' \in Fetch
    BY <1>3 DEF CloseTab, Fetch
  <2> QED BY <1>3, <2>3, <2>4 DEF CloseTab, Unmounted, TypeOK, server
<1>4. CASE Type
  <2>1. screen' \in Note /\ debounce' \in BOOLEAN
    BY <1>4, RescheduledType DEF Type, TypeOK
  <2> QED BY <1>4, <2>1 DEF Type, TypeOK, server, cache
<1>5. CASE PressSave \/ Hide
  BY <1>5, SavesType DEF PressSave, Hide, TypeOK
<1>6. CASE Timers
  BY <1>6, SavesType DEF Timers, DebounceFires, RetryFires, TypeOK
<1> QED BY <1>1, <1>2, <1>3, <1>4, <1>5, <1>6 DEF Screen

LEMMA ServerType ==
    ASSUME TypeOK, NEW r \in Requests,
           PatchRead(r) \/ PatchWrite(r) \/ Succeeds(r) \/ Fails(r)
    PROVE  TypeOK'
<1> DEFINE q == request[r]
<1>0. q \in Request /\ (q.pc # "idle" => q # Idle)
  BY DEF TypeOK, Idle
<1>1. q # Idle =>
        /\ q.note \in Note
        /\ q.pc \in {"sent", "read"} => q.mine \in BOOLEAN
        /\ q.pc = "read" => q.before \in Domains \cup {NoDomain}
        /\ q.pc = "stored" => q.fresh \in Note
        /\ [pc |-> "refused", note |-> q.note] \in Request
  BY <1>0, RequestShape DEF Request
<1>2. ASSUME Refused(r), q.pc \in {"sent", "read"}
      PROVE  request' \in [Requests -> Request] /\ exposed' \in BOOLEAN
  BY <1>0, <1>1, <1>2, IdleShape DEF Refused, Answered, TypeOK
<1>3. CASE PatchRead(r)
  <2>1. CASE status = "live"
    <3>1. [pc |-> "read", note |-> q.note, mine |-> q.mine, before |-> row.domain]
            \in Request
      BY <1>3, <1>0, <1>1 DEF PatchRead, TypeOK, Note, Request
    <3> QED BY <1>3, <2>1, <3>1 DEF PatchRead, TypeOK, server, editor, cache
  <2>2. CASE status # "live"
    BY <1>3, <1>2, <2>2 DEF PatchRead, TypeOK, server, editor, cache
  <2> QED BY <2>1, <2>2
<1>4. CASE PatchWrite(r)
  <2>1. CASE Updatable
    <3>1. row' \in Note
      BY <1>4, <2>1, <1>0, <1>1, RewrittenType DEF PatchWrite
    <3>2. [pc |-> "stored", note |-> q.note, fresh |-> row'] \in Request
      BY <1>4, <3>1, <1>0, <1>1 DEF PatchWrite, Request
    <3>3. request' \in [Requests -> Request]
      BY <1>4, <2>1, <3>2, IdleShape DEF PatchWrite, Answered, TypeOK
    <3> QED BY <1>4, <2>1, <3>1, <3>3 DEF PatchWrite, TypeOK, editor, cache
  <2>2. CASE ~ Updatable
    BY <1>4, <1>2, <2>2 DEF PatchWrite, TypeOK, editor, cache
  <2> QED BY <2>1, <2>2
<1>5. CASE Succeeds(r)
  <2>1. q.fresh \in Note
    BY <1>5, <1>0, <1>1 DEF Succeeds
  <2>2. request' \in [Requests -> Request]
    BY <1>5, IdleShape DEF Succeeds, TypeOK
  <2>3. /\ loaded' \in BOOLEAN /\ screen' \in Note /\ saved' \in Note
        /\ awaited' \in Requests \cup {Nobody} /\ exposed' \in BOOLEAN
    BY <1>5, <2>1 DEF Succeeds, Adopt, TypeOK
  <2>4. debounce' \in BOOLEAN
    BY <1>5, <2>3, RescheduledType DEF Succeeds
  <2>5. fetch' \in Fetch /\ cached' \in Note /\ stale' \in BOOLEAN
    BY <1>5, <2>1 DEF Succeeds, TypeOK, Fetch
  <2> QED BY <1>5, <2>2, <2>3, <2>4, <2>5 DEF Succeeds, TypeOK, server
<1>6. CASE Fails(r)
  <2>1. request' \in [Requests -> Request]
    BY <1>6, GivenUp, IdleShape DEF Fails, TypeOK
  <2>2. awaited' \in Requests \cup {Nobody} /\ failed' \in BOOLEAN
    BY <1>6 DEF Fails, TypeOK
  <2> QED BY <1>6, <2>1, <2>2 DEF Fails, TypeOK, server, cache
<1> QED BY <1>3, <1>4, <1>5, <1>6

LEMMA ElsewhereType ==
    ASSUME TypeOK, GoOffline \/ GoOnline \/ Query \/ Deletion
    PROVE  TypeOK'
<1>1. CASE GoOffline
  BY <1>1 DEF GoOffline, TypeOK, server, editor, cache
<1>2. CASE GoOnline
  <2> DEFINE resumed == [r \in Requests |->
               IF request[r].pc = "paused" THEN [request[r] EXCEPT !.pc = "sent"]
               ELSE request[r]]
  <2>1. resumed \in [Requests -> Request]
    BY Sends DEF TypeOK
  <2>2. [pc |-> "sent", note |-> screen, mine |-> TRUE] \in Request
    BY DEF TypeOK, Request
  <2>3. request' \in [Requests -> Request]
    BY <1>2, <2>1, <2>2 DEF GoOnline, Free
  <2>4. awaited' \in Requests \cup {Nobody} /\ failed' \in BOOLEAN /\ exposed' \in BOOLEAN
    BY <1>2 DEF GoOnline, Observe, Free, TypeOK
  <2> QED BY <1>2, <2>3, <2>4 DEF GoOnline, TypeOK, server, cache
<1>3. CASE FetchRead \/ FetchFails \/ Refetch \/ Expire
  <2>1. fetch' \in Fetch
    BY <1>3 DEF FetchRead, FetchFails, Refetch, Expire, TypeOK, Fetch
  <2> QED BY <1>3, <2>1
    DEF FetchRead, FetchFails, Refetch, Expire, TypeOK, server, editor, cache
<1>4. CASE FetchLands
  <2>1. fetch.note \in Note
    BY <1>4 DEF FetchLands, TypeOK, Fetch, NoFetch, Asked
  <2>2. /\ loaded' \in BOOLEAN /\ screen' \in Note /\ saved' \in Note
        /\ exposed' \in BOOLEAN
    BY <1>4, <2>1 DEF FetchLands, Adopt, TypeOK
  <2> QED BY <1>4, <2>1, <2>2 DEF FetchLands, TypeOK, Fetch, server
<1>5. CASE Deletion
  BY <1>5 DEF Deletion, DeleteSucceeds, Trash, Restore, Unmounted, TypeOK,
              server, editor, cache
<1> QED BY <1>1, <1>2, <1>3, <1>4, <1>5 DEF Query

LEMMA TypeStep == TypeOK /\ [Next]_vars => TypeOK'
<1> SUFFICES ASSUME TypeOK, [Next]_vars PROVE TypeOK'
  OBVIOUS
<1>1. CASE Next
  BY <1>1, ScreenType, ServerType, ElsewhereType DEF Next, Server, Network
<1>2. CASE UNCHANGED vars
  BY <1>2 DEF vars, server, editor, cache, TypeOK
<1> QED BY <1>1, <1>2

(* What the editor, the query and the requests hold stays in its type, for *)
(* any number of overlapping saves (NoteEditorPage, useSaveNote,           *)
(* handleUpdateNote).                                                      *)
THEOREM TypeCorrect == Spec => []TypeOK
  BY TypeInit, TypeStep, PTL DEF Spec

-----------------------------------------------------------------------------
(* Unsaved text has a save coming.  That is not inductive by itself: when  *)
(* a save succeeds, the text it carried has to be the one on the screen,   *)
(* or the debounce has to be running already; and an awaited save has to   *)
(* end in an answer this editor hears.                                     *)

AwaitedFits ==
    awaited \in Requests =>
        /\ loaded /\ request[awaited] # Idle
        /\ request[awaited].pc \in {"paused", "sent", "read"} => request[awaited].mine
        /\ Dirty /\ request[awaited].note # screen => debounce

StoredFits ==
    \A r \in Requests :
        request[r].pc = "stored" =>
            request[r].fresh = Rewritten(request[r].note, request[r].fresh.domain)

ClosedRests ==
    /\ loaded => open
    /\ ~ loaded => ~ debounce /\ awaited = Nobody

IInv ==
    TypeOK /\ UnsavedIsScheduled /\ AwaitedFits /\ StoredFits /\ ClosedRests

EditorInv == UnsavedIsScheduled /\ AwaitedFits /\ ClosedRests

(* Closing the tab leaves only requests that are still to be stored; the   *)
(* network coming back changes only how far the paused ones have come.     *)
LEMMA AfterClosing ==
    ASSUME TypeOK, CloseTab, NEW r \in Requests
    PROVE  request'[r].pc # "stored"
<1> DEFINE left(kept) == [p \in Requests |->
                  IF p \in kept /\ request[p].pc \in {"sent", "read"}
                  THEN [request[p] EXCEPT !.mine = FALSE] ELSE Idle]
<1>1. PICK kept \in SUBSET InFlight :
              \/ \E p \in Free : request' = [left(kept) EXCEPT ![p] = Sent(screen, FALSE)]
              \/ request' = left(kept)
  BY DEF CloseTab
<1>2. left(kept)[r].pc # "stored"
  <2>1. CASE r \in kept /\ request[r].pc \in {"sent", "read"}
    <3>1. left(kept)[r] = [request[r] EXCEPT !.mine = FALSE]
      BY <2>1
    <3>2. [request[r] EXCEPT !.mine = FALSE].pc = request[r].pc
      BY <2>1, GivenUp DEF TypeOK
    <3> QED BY <2>1, <3>1, <3>2
  <2>2. CASE ~ (r \in kept /\ request[r].pc \in {"sent", "read"})
    BY <2>2, IdleShape
  <2> QED BY <2>1, <2>2
<1>3. DOMAIN left(kept) = Requests
  OBVIOUS
<1>4. Sent(screen, FALSE).pc # "stored"
  BY SentShape DEF TypeOK
<1> HIDE DEF left
<1> QED BY <1>1, <1>2, <1>3, <1>4

LEMMA AfterReconnecting ==
    ASSUME TypeOK, GoOnline, NEW r \in Requests
    PROVE  /\ request'[r] # request[r] => request'[r].pc = "sent"
           /\ request[r] # Idle =>
                 /\ request'[r] # Idle /\ request'[r].note = request[r].note
                 /\ request'[r].pc \in {"paused", "sent", "read"} =>
                       request[r].pc \in {"paused", "sent", "read"}
                       /\ request'[r].mine = request[r].mine
           /\ \/ Dirty /\ \E p \in Free :
                     /\ request'[p] = [pc |-> "sent", note |-> screen, mine |-> TRUE]
                     /\ Observe(p)
              \/ ~ Dirty /\ UNCHANGED <<awaited, failed>>
<1> DEFINE resumed == [p \in Requests |->
               IF request[p].pc = "paused" THEN [request[p] EXCEPT !.pc = "sent"]
               ELSE request[p]]
           new == [pc |-> "sent", note |-> screen, mine |-> TRUE]
<1>1. \/ Dirty /\ \E p \in Free : /\ request' = [resumed EXCEPT ![p] = new]
                                 /\ Observe(p)
      \/ ~ Dirty /\ request' = resumed /\ UNCHANGED <<awaited, failed>>
  BY DEF GoOnline
<1>2. /\ resumed[r] # request[r] => resumed[r].pc = "sent"
      /\ request[r] # Idle =>
            /\ resumed[r] # Idle /\ resumed[r].note = request[r].note
            /\ resumed[r].pc \in {"paused", "sent", "read"} =>
                  request[r].pc \in {"paused", "sent", "read"}
                  /\ resumed[r].mine = request[r].mine
  <2>1. CASE request[r].pc = "paused"
    <3>1. resumed[r] = [request[r] EXCEPT !.pc = "sent"]
      BY <2>1
    <3>2. request[r] \in Request
      BY DEF TypeOK
    <3>3. /\ resumed[r].pc = "sent" /\ resumed[r].note = request[r].note
          /\ resumed[r].mine = request[r].mine
      BY <2>1, <3>1, <3>2, Sends
    <3> HIDE DEF resumed
    <3> QED BY <2>1, <3>3, IdleShape
  <2>2. CASE request[r].pc # "paused"
    BY <2>2
  <2> QED BY <2>1, <2>2
<1>3. DOMAIN resumed = Requests
  OBVIOUS
<1>4. new.pc = "sent"
  OBVIOUS
<1> HIDE DEF resumed, new
<1>5. CASE ~ Dirty /\ request' = resumed /\ UNCHANGED <<awaited, failed>>
  BY <1>2, <1>5
<1>6. CASE Dirty /\ \E p \in Free : /\ request' = [resumed EXCEPT ![p] = new]
                                  /\ Observe(p)
  <2>1. PICK p \in Free : request' = [resumed EXCEPT ![p] = new] /\ Observe(p)
    BY <1>6
  <2>2. request'[p] = new /\ p \in Requests /\ request[p] = Idle
    BY <2>1, <1>3 DEF Free
  <2>3. r # p => request'[r] = resumed[r]
    BY <2>1, <1>3
  <2> QED BY <1>2, <1>4, <1>6, <2>1, <2>2, <2>3 DEF new
<1> QED BY <1>1, <1>5, <1>6

LEMMA StoredStep ==
    ASSUME TypeOK, StoredFits, [Next]_vars
    PROVE  StoredFits'
<1> SUFFICES ASSUME NEW r \in Requests, request'[r].pc = "stored"
             PROVE  request'[r].fresh
                      = Rewritten(request'[r].note, request'[r].fresh.domain)
  BY DEF StoredFits
<1>1. CASE request'[r] = request[r]
  BY <1>1 DEF StoredFits
<1>2. CASE request'[r] # request[r]
  <2>1. request[r] \in Request /\ request \in [Requests -> Request]
    BY DEF TypeOK
  <2>2. PatchWrite(r)
    <3>1. CASE \E p \in Requests : PatchRead(p) \/ PatchWrite(p) \/ Succeeds(p)
      <4>1. PICK p \in Requests : PatchRead(p) \/ PatchWrite(p) \/ Succeeds(p)
        BY <3>1
      <4>2. p = r
        BY <4>1, <1>2, <2>1 DEF PatchRead, PatchWrite, Succeeds, Refused, Answered
      <4> QED BY <4>1, <4>2, <2>1, IdleShape
             DEF PatchRead, PatchWrite, Succeeds, Refused, Answered
    <3>2. CASE \E p \in Requests : Fails(p)
      <4>1. PICK p \in Requests : Fails(p)
        BY <3>2
      <4>2. p = r
        BY <4>1, <1>2, <2>1 DEF Fails
      <4> QED BY <4>1, <4>2, <2>1, GivenUp, IdleShape DEF Fails
    <3>3. CASE Saves \/ Leave
      BY <3>3, <1>2, <2>1, SentShape DEF Saves, DoSave, Leave, Free, TypeOK
    <3>4. CASE CloseTab
      BY <3>4, AfterClosing
    <3>5. CASE GoOnline
      BY <3>5, <1>2, AfterReconnecting
    <3>6. CASE GoOffline \/ Open \/ Type \/ Query \/ Deletion \/ UNCHANGED vars
      BY <3>6, <1>2
      DEF GoOffline, Open, Type, Query, Deletion, FetchRead, FetchLands,
          FetchFails, Refetch, Expire, DeleteSucceeds, Trash, Restore, vars
    <3> QED BY <3>1, <3>2, <3>3, <3>4, <3>5, <3>6
      DEF Next, Server, Screen, Timers, Network, DebounceFires, RetryFires,
          PressSave, Hide
  <2>3. /\ request[r].note \in Note /\ request[r].before \in Domains \cup {NoDomain}
        /\ request[r].pc = "read"
    BY <2>1, <2>2, RequestShape, IdleShape DEF PatchWrite
  <2>4. /\ request'[r].fresh = Rewritten(request[r].note, request[r].before)
        /\ request'[r].note = request[r].note
    BY <2>1, <2>2, <1>2, IdleShape DEF PatchWrite, Refused, Answered
  <2> QED BY <2>3, <2>4 DEF Rewritten
<1> QED BY <1>1, <1>2

Heard(q) == q # Idle /\ (q.pc \in {"paused", "sent", "read"} => q.mine)

(* A step the editor does not see, that leaves its awaited save audible.   *)
LEMMA Unseen ==
    ASSUME TypeOK, EditorInv,
           UNCHANGED <<open, loaded, screen, saved, debounce, awaited, failed>>,
           awaited \in Requests /\ Heard(request[awaited]) =>
              Heard(request'[awaited]) /\ request'[awaited].note = request[awaited].note
    PROVE  EditorInv'
<1>1. UnsavedIsScheduled'
  BY DEF EditorInv, UnsavedIsScheduled, Dirty, Retrying, OnlyRewritten
<1>2. AwaitedFits'
  BY DEF EditorInv, AwaitedFits, Heard, Dirty
<1>3. ClosedRests'
  BY DEF EditorInv, ClosedRests
<1> QED BY <1>1, <1>2, <1>3 DEF EditorInv

(* A save of what is on the screen.                                        *)
LEMMA SavesEditor ==
    ASSUME TypeOK, EditorInv, Saves, loaded
    PROVE  EditorInv'
<1>1. PICK r \in Free : /\ request' = [request EXCEPT ![r] = Sent(screen, TRUE)]
                        /\ awaited' = r /\ failed' = FALSE
  BY DEF Saves, DoSave, Observe
<1>2. /\ request'[r] = Sent(screen, TRUE) /\ r \in Requests /\ screen' = screen
      /\ loaded' /\ r # Nobody
  BY <1>1, NullAssumption DEF Saves, Free, TypeOK
<1>3. /\ request'[r].pc \in {"paused", "sent"} /\ request'[r].note = screen
      /\ request'[r].mine
  BY <1>2, SentShape DEF TypeOK
<1>4. request'[r] # Idle
  BY <1>3, IdleShape
<1>5. open'
  BY DEF Saves, EditorInv, ClosedRests
<1> QED BY <1>1, <1>2, <1>3, <1>4, <1>5
  DEF EditorInv, UnsavedIsScheduled, AwaitedFits, ClosedRests

(* A note adopted is as saved as it was; an editor that is gone has        *)
(* nothing to save.                                                        *)
LEMMA AdoptEditor ==
    ASSUME TypeOK, EditorInv, ~ loaded, open', NEW note, Adopt(note),
           UNCHANGED <<awaited, debounce>> \/ (UNCHANGED awaited /\ Rescheduled)
    PROVE  EditorInv'
<1>1. loaded' /\ screen' = note /\ saved' = note /\ awaited' = Nobody
  BY DEF Adopt, EditorInv, ClosedRests
<1> QED BY <1>1, NullAssumption
  DEF EditorInv, UnsavedIsScheduled, AwaitedFits, ClosedRests, Dirty

LEMMA GoneEditor ==
    ASSUME TypeOK, EditorInv, Unmounted
    PROVE  EditorInv'
  BY NullAssumption
  DEF Unmounted, EditorInv, UnsavedIsScheduled, AwaitedFits, ClosedRests, Dirty

LEMMA SavesWhenLoaded ==
    ASSUME TypeOK, EditorInv, DebounceFires \/ RetryFires \/ PressSave \/ Hide
    PROVE  EditorInv'
<1>1. Saves /\ loaded
  BY DEF DebounceFires, RetryFires, PressSave, Hide, Retrying, Dirty, EditorInv, ClosedRests
<1> QED BY <1>1, SavesEditor

LEMMA ScreenEditor ==
    ASSUME TypeOK, EditorInv, Screen \/ Timers \/ Deletion \/ Query \/ GoOffline
    PROVE  EditorInv'
<1>1. CASE Open
  <2>1. ~ loaded
    BY <1>1 DEF Open, EditorInv, ClosedRests
  <2>2. CASE Adopt(cached)
    BY <1>1, <2>1, <2>2, AdoptEditor DEF Open
  <2>3. CASE UNCHANGED <<loaded, screen, saved>>
    BY <1>1, <2>1, <2>3 DEF Open, EditorInv, UnsavedIsScheduled, AwaitedFits,
       ClosedRests, Dirty, TypeOK
  <2> QED BY <1>1, <2>2, <2>3 DEF Open
<1>2. CASE Leave \/ CloseTab \/ DeleteSucceeds
  BY <1>2, GoneEditor DEF Leave, CloseTab, DeleteSucceeds
<1>3. CASE Type
  <2>1. screen' # screen /\ loaded /\ Rescheduled
    BY <1>3 DEF Type
  <2>2. debounce' = Dirty'
    BY <2>1 DEF Rescheduled
  <2>3. UNCHANGED <<open, loaded, awaited, request>>
    BY <1>3 DEF Type
  <2>4. Dirty' \in BOOLEAN
    BY <2>1, <2>3 DEF Dirty
  <2> QED BY <2>1, <2>2, <2>3, <2>4
    DEF EditorInv, UnsavedIsScheduled, AwaitedFits, ClosedRests
<1>4. CASE PressSave \/ Hide \/ Timers
  BY <1>4, SavesWhenLoaded DEF Timers
<1>5. CASE FetchLands
  <2>1. CASE open /\ ~ loaded /\ Adopt(fetch.note)
    BY <1>5, <2>1, AdoptEditor DEF FetchLands
  <2>2. CASE UNCHANGED <<loaded, screen, saved>>
    BY <1>5, <2>2, Unseen DEF FetchLands
  <2> QED BY <1>5, <2>1, <2>2 DEF FetchLands
<1>6. CASE Trash \/ Restore \/ FetchRead \/ FetchFails \/ Refetch \/ Expire \/ GoOffline
  BY <1>6, Unseen
  DEF Trash, Restore, FetchRead, FetchFails, Refetch, Expire, GoOffline, editor
<1> QED BY <1>1, <1>2, <1>3, <1>4, <1>5, <1>6 DEF Screen, Query, Deletion

LEMMA ReconnectEditor ==
    ASSUME TypeOK, EditorInv, GoOnline
    PROVE  EditorInv'
<1>0. UNCHANGED <<open, loaded, screen, saved, debounce>>
  BY DEF GoOnline
<1>1. CASE ~ Dirty /\ UNCHANGED <<awaited, failed>>
  <2>1. awaited \in Requests /\ Heard(request[awaited]) =>
              Heard(request'[awaited]) /\ request'[awaited].note = request[awaited].note
    BY AfterReconnecting DEF Heard
  <2> QED BY <1>0, <1>1, <2>1, Unseen
<1>2. CASE Dirty /\ \E p \in Free :
                /\ request'[p] = [pc |-> "sent", note |-> screen, mine |-> TRUE]
                /\ Observe(p)
  <2>1. PICK p \in Free :
                /\ request'[p] = [pc |-> "sent", note |-> screen, mine |-> TRUE]
                /\ Observe(p)
    BY <1>2
  <2>2. /\ p \in Requests /\ p # Nobody /\ awaited' = p /\ loaded
        /\ request'[p].note = screen /\ request'[p].mine /\ request'[p] # Idle
    BY <1>2, <2>1, NullAssumption DEF Free, Observe, Dirty, Idle
  <2> QED BY <1>0, <2>2
    DEF EditorInv, UnsavedIsScheduled, AwaitedFits, ClosedRests
<1>3. CASE Requests = {}
  BY <1>0, <1>3, NullAssumption DEF GoOnline, Free, TypeOK, EditorInv,
     UnsavedIsScheduled, AwaitedFits, ClosedRests, Dirty, Retrying, OnlyRewritten
<1>4. CASE Requests # {}
  <2>1. PICK r \in Requests : TRUE
    BY <1>4
  <2> QED BY <1>1, <1>2, <2>1, AfterReconnecting
<1> QED BY <1>3, <1>4

(* The answer: what was sent is what is on the screen, or the debounce is  *)
(* running.                                                                *)
LEMMA SucceedsEditor ==
    ASSUME TypeOK, EditorInv, StoredFits, NEW r \in Requests, Succeeds(r)
    PROVE  EditorInv'
<1> DEFINE q == request[r]
<1>1. q.pc = "stored" /\ q.fresh = Rewritten(q.note, q.fresh.domain)
  BY DEF Succeeds, StoredFits
<1>2. UNCHANGED <<open, failed>> /\ Rescheduled
  BY DEF Succeeds
<1>3. CASE r = awaited /\ saved' = q.fresh /\ awaited' = Nobody
           /\ UNCHANGED <<loaded, screen>>
  <2>1. loaded /\ (Dirty /\ q.note # screen => debounce)
    BY <1>3 DEF EditorInv, AwaitedFits
  <2>2. Dirty' /\ ~ debounce' => Dirty /\ ~ debounce
    BY <1>2, <1>3, <2>1 DEF Rescheduled, Dirty, TypeOK
  <2>3. Dirty' /\ ~ debounce' => OnlyRewritten'
    BY <1>1, <1>3, <2>1, <2>2 DEF OnlyRewritten, Rewritten
  <2> QED BY <1>2, <1>3, <2>1, <2>3, NullAssumption
    DEF EditorInv, UnsavedIsScheduled, AwaitedFits, ClosedRests
<1>4. CASE open /\ ~ loaded /\ Adopt(q.fresh) /\ UNCHANGED awaited
  BY <1>2, <1>4, AdoptEditor
<1>5. CASE r # awaited /\ UNCHANGED <<loaded, screen, saved, awaited>>
  <2>1. UNCHANGED debounce
    BY <1>2, <1>5 DEF Rescheduled, Dirty
  <2>2. awaited \in Requests => request'[awaited] = request[awaited]
    BY <1>5 DEF Succeeds, TypeOK
  <2> QED BY <1>2, <1>5, <2>1, <2>2, Unseen
<1> QED BY <1>3, <1>4, <1>5 DEF Succeeds

LEMMA ServerEditor ==
    ASSUME TypeOK, EditorInv, NEW r \in Requests, PatchRead(r) \/ PatchWrite(r)
    PROVE  EditorInv'
<1>1. UNCHANGED <<open, loaded, screen, saved, debounce, awaited, failed>>
  BY DEF PatchRead, PatchWrite, editor
<1>2. ASSUME r = awaited, Heard(request[r])
      PROVE  Heard(request'[r]) /\ request'[r].note = request[r].note
  <2>1. request[r].mine /\ request[r] \in Request
    BY <1>2 DEF Heard, PatchRead, PatchWrite, TypeOK
  <2>2. \/ request'[r] = [pc |-> "read", note |-> request[r].note,
                          mine |-> request[r].mine, before |-> row.domain]
        \/ request'[r] = [pc |-> "refused", note |-> request[r].note]
        \/ request'[r] = [pc |-> "stored", note |-> request[r].note, fresh |-> row']
    BY <2>1 DEF PatchRead, PatchWrite, Refused, Answered, TypeOK
  <2> QED BY <2>1, <2>2 DEF Heard, Idle
<1>3. r # awaited => (awaited \in Requests => request'[awaited] = request[awaited])
  BY DEF PatchRead, PatchWrite, Refused, Answered, TypeOK
<1> QED BY <1>1, <1>2, <1>3, Unseen

LEMMA FailsEditor ==
    ASSUME TypeOK, EditorInv, NEW r \in Requests, Fails(r)
    PROVE  EditorInv'
<1>1. UNCHANGED <<open, loaded, screen, saved, debounce>>
  BY DEF Fails
<1>2. CASE r = awaited
  <2>1. failed' = TRUE /\ awaited' = Nobody /\ loaded
    BY <1>2 DEF Fails, EditorInv, AwaitedFits
  <2> QED BY <1>1, <2>1, NullAssumption
    DEF EditorInv, UnsavedIsScheduled, AwaitedFits, ClosedRests, Retrying
<1>3. CASE r # awaited
  <2>1. awaited \in Requests => request'[awaited] = request[awaited]
    BY <1>3 DEF Fails, TypeOK
  <2> QED BY <1>1, <1>3, <2>1, Unseen DEF Fails
<1> QED BY <1>2, <1>3

-----------------------------------------------------------------------------
LEMMA IInvInit == Init => IInv
<1> SUFFICES ASSUME Init PROVE IInv
  OBVIOUS
<1>1. TypeOK
  BY TypeInit
<1>2. StoredFits
  BY IdleShape DEF Init, StoredFits
<1>3. UnsavedIsScheduled /\ AwaitedFits /\ ClosedRests
  BY NullAssumption DEF Init, UnsavedIsScheduled, AwaitedFits, ClosedRests, Dirty
<1> QED BY <1>1, <1>2, <1>3 DEF IInv

LEMMA IInvStep == IInv /\ [Next]_vars => IInv'
<1> SUFFICES ASSUME IInv, [Next]_vars PROVE IInv'
  OBVIOUS
<1>0. TypeOK /\ StoredFits /\ EditorInv
  BY DEF IInv, EditorInv
<1>1. TypeOK' /\ StoredFits'
  BY <1>0, TypeStep, StoredStep
<1>2. EditorInv'
  <2>1. CASE Server
    BY <1>0, <2>1, ServerEditor, SucceedsEditor DEF Server
  <2>2. CASE Network
    BY <1>0, <2>2, ScreenEditor, ReconnectEditor, FailsEditor DEF Network
  <2>3. CASE Screen \/ Timers \/ Deletion \/ Query
    BY <1>0, <2>3, ScreenEditor
  <2>4. CASE UNCHANGED vars
    BY <1>0, <2>4, Unseen DEF vars, editor
  <2> QED BY <2>1, <2>2, <2>3, <2>4 DEF Next
<1> QED BY <1>1, <1>2 DEF IInv, EditorInv

(* Whatever saves overlap, fail or answer late, text that is not stored    *)
(* has a save coming: the argument over the effects' dependencies          *)
(* (NoteEditorPage.tsx:96-179), for any number of requests.                *)
THEOREM UnsavedIsScheduledHolds == Spec => []UnsavedIsScheduled
<1>1. IInv => UnsavedIsScheduled
  BY DEF IInv
<1> QED BY <1>1, IInvInit, IInvStep, PTL DEF Spec

(* No save reaches a note that is in the trash: the guard is in the UPDATE *)
(* itself, not in the read before it (notes.sql:20-27).                    *)
THEOREM DeletedStaysDeletedHolds == Spec => DeletedStaysDeleted
<1>1. ASSUME [Next]_vars, status = "trashed" PROVE row' = row
  <2>1. CASE Server
    <3>1. PICK r \in Requests : PatchRead(r) \/ PatchWrite(r) \/ Succeeds(r)
      BY <2>1 DEF Server
    <3> QED BY <1>1, <3>1 DEF PatchRead, PatchWrite, Succeeds, Updatable, server
  <2>2. CASE Screen \/ Timers
    BY <2>2 DEF Screen, Timers, Open, Leave, CloseTab, Type, PressSave, Hide,
       DebounceFires, RetryFires, Saves, server
  <2>3. CASE Network
    <3>1. GoOffline \/ GoOnline \/ \E r \in Requests : Fails(r)
      BY <2>3 DEF Network
    <3>2. UNCHANGED server
      BY <3>1 DEF GoOffline, GoOnline, Fails
    <3> QED BY <3>2 DEF server
  <2>4. CASE Query \/ Deletion \/ UNCHANGED vars
    BY <2>4 DEF Query, Deletion, FetchRead, FetchLands, FetchFails, Refetch, Expire,
       DeleteSucceeds, Trash, Restore, vars, server
  <2> QED BY <1>1, <2>1, <2>2, <2>3, <2>4 DEF Next
<1>2. [Next]_vars => [status = "trashed" => row' = row]_vars
  BY <1>1
<1> QED BY <1>2, PTL DEF Spec, DeletedStaysDeleted

-----------------------------------------------------------------------------
(* What is typed last is stored.                                           *)

(* The row holds this note, in the server's own form; without a domain,    *)
(* whatever the row has.                                                   *)
Kept(note) == row = Rewritten(note, row.domain)

(* The saves that are to reach the row yet carry one and the same text;    *)
(* what one has read is what the row has; or none of them would change it. *)
Agree == \A p, q \in Unstored : request[p].note = request[q].note
ReadsHold ==
    \A p \in Requests :
        request[p].pc = "read" /\ request[p].note.domain = NoDomain =>
            request[p].before = row.domain
Harmless == \A p \in Unstored : Kept(request[p].note)

(* Behind a screen that is left, what was on it is in the row or on its    *)
(* way.  While none is awaited, what counts as saved is in the row.  An    *)
(* awaited answer brings the row.                                          *)
LeftKept ==
    /\ \A p \in Unstored : request[p].note = screen
    /\ Unstored = {} => Kept(screen)
SavedKept == Kept(saved) /\ Harmless
AnswerKept ==
    request[awaited].pc = "stored" => request[awaited].fresh = row /\ Harmless

NoLoss ==
    /\ Agree /\ ReadsHold
    /\ ~ loaded => LeftKept
    /\ loaded /\ awaited = Nobody => SavedKept
    /\ loaded /\ awaited \in Requests => AnswerKept

(* A row is in the server's form; the debounce runs for something; an      *)
(* awaited save is of something new.                                       *)
RaceInv ==
    /\ Trimmed[row.text] = row.text
    /\ debounce => Dirty
    /\ awaited \in Requests => request[awaited].note # saved
    /\ ~ exposed => NoLoss

LEMMA RowIsKept ==
    ASSUME TypeOK, Trimmed[row.text] = row.text
    PROVE  Kept(row)
  BY DEF TypeOK, Kept, Rewritten, Note

(* What a write leaves: the note it was given, and the row as it was if    *)
(* that held it.                                                           *)
LEMMA WriteKeeps ==
    ASSUME TypeOK, NEW note \in Note, NEW before \in Domains \cup {NoDomain},
           row' = Rewritten(note, before)
    PROVE  /\ Kept(note)'
           /\ Trimmed[row'.text] = row'.text
           /\ Kept(note) /\ (note.domain = NoDomain => before = row.domain) => row' = row
           /\ note.domain = NoDomain /\ before = row.domain => row'.domain = row.domain
<1>1. note.text \in Texts /\ Trimmed[Trimmed[note.text]] = Trimmed[note.text]
  BY TrimmedAssumption DEF Note
<1>2. row'.text = Trimmed[note.text]
      /\ row'.domain = IF note.domain = NoDomain THEN before ELSE note.domain
  BY DEF Rewritten
<1> QED BY <1>1, <1>2 DEF Kept, Rewritten

(* The server's own form of a note is kept exactly when the note is.       *)
LEMMA KeptThrough ==
    ASSUME TypeOK, Kept(saved), OnlyRewritten
    PROVE  Kept(screen)
<1>1. screen.text \in Texts /\ Trimmed[Trimmed[screen.text]] = Trimmed[screen.text]
  BY TrimmedAssumption DEF TypeOK, Note
<1>2. saved.text = Trimmed[screen.text]
      /\ saved.domain = IF screen.domain = NoDomain THEN saved.domain ELSE screen.domain
  BY DEF OnlyRewritten, Rewritten
<1> QED BY <1>1, <1>2 DEF Kept, Rewritten

-----------------------------------------------------------------------------
(* What a step does to the saves on their way.                             *)

LEMMA UnstoredIs ==
    ASSUME TypeOK, NEW p
    PROVE  p \in Unstored <=>
              p \in Requests /\ request[p].pc \in {"paused", "sent", "read", "refused"}
<1>1. ASSUME p \in Requests
      PROVE  request[p] # Idle /\ request[p].pc # "stored"
                <=> request[p].pc \in {"paused", "sent", "read", "refused"}
  BY <1>1, RequestShape, IdleShape DEF TypeOK
<1> QED BY <1>1 DEF Unstored, InFlight

LEMMA Started ==
    ASSUME TypeOK, TypeOK', NEW r \in Free, NEW note \in Note, NEW mine \in BOOLEAN,
           request' = [request EXCEPT ![r] = Sent(note, mine)]
    PROVE  /\ Unstored' = Unstored \cup {r}
           /\ request'[r].note = note /\ request'[r].pc \in {"paused", "sent"}
           /\ \A p \in Requests \ {r} : request'[p] = request[p]
<1>1. r \in Requests /\ request'[r] = Sent(note, mine)
  BY DEF Free, TypeOK
<1>2. \A p \in Requests \ {r} : request'[p] = request[p]
  BY DEF TypeOK
<1>3. request'[r].note = note /\ request'[r].pc \in {"paused", "sent"}
  BY <1>1, SentShape
<1>4. request'[r] # Idle /\ request'[r].pc # "stored"
  BY <1>3, IdleShape
<1> QED BY <1>1, <1>2, <1>3, <1>4 DEF Unstored, InFlight

LEMMA Ended ==
    ASSUME TypeOK, NEW r \in Requests, request' = [request EXCEPT ![r] = Idle]
    PROVE  /\ Unstored' = Unstored \ {r}
           /\ request'[r] = Idle
           /\ \A p \in Requests \ {r} : request'[p] = request[p]
  BY DEF TypeOK, Unstored, InFlight

LEMMA Reconnected ==
    ASSUME TypeOK, GoOnline
    PROVE  /\ \A p \in Unstored : request'[p].note = request[p].note
           /\ \A p \in Requests : request'[p].pc \in {"read", "stored"} =>
                                   request'[p] = request[p]
           /\ \/ /\ ~ Dirty /\ Unstored' = Unstored
                 /\ UNCHANGED <<awaited, exposed>>
                 /\ \A p \in Requests : request[p] # Idle =>
                                          request'[p].note = request[p].note
              \/ /\ Dirty /\ exposed' = (exposed \/ Others(screen) # {})
                 /\ \E r \in Free : /\ Unstored' = Unstored \cup {r} /\ awaited' = r
                                    /\ request'[r].note = screen
                                    /\ request'[r].pc = "sent"
<1> DEFINE resumed == [p \in Requests |->
               IF request[p].pc = "paused" THEN [request[p] EXCEPT !.pc = "sent"]
               ELSE request[p]]
           new == [pc |-> "sent", note |-> screen, mine |-> TRUE]
<1>1. \/ /\ Dirty /\ exposed' = (exposed \/ Others(screen) # {})
         /\ \E r \in Free : request' = [resumed EXCEPT ![r] = new] /\ awaited' = r
      \/ ~ Dirty /\ request' = resumed /\ UNCHANGED <<awaited, exposed>>
  BY DEF GoOnline, Observe
<1>2. \A p \in Requests :
         /\ resumed[p] # request[p] => resumed[p].pc = "sent"
         /\ request[p] # Idle <=> resumed[p] # Idle
         /\ request[p] # Idle => resumed[p].note = request[p].note
         /\ request[p].pc = "stored" <=> resumed[p].pc = "stored"
  <2> TAKE p \in Requests
  <2>1. CASE request[p].pc = "paused"
    <3>1. resumed[p] = [request[p] EXCEPT !.pc = "sent"] /\ request[p] \in Request
      BY <2>1 DEF TypeOK
    <3>2. resumed[p].pc = "sent" /\ resumed[p].note = request[p].note
      BY <2>1, <3>1, Sends
    <3> HIDE DEF resumed
    <3> QED BY <2>1, <3>2, IdleShape
  <2>2. CASE request[p].pc # "paused"
    BY <2>2
  <2> QED BY <2>1, <2>2
<1>3. DOMAIN resumed = Requests /\ new.pc = "sent" /\ new.note = screen
  OBVIOUS
<1> HIDE DEF resumed, new
<1>4. CASE ~ Dirty /\ request' = resumed /\ UNCHANGED <<awaited, exposed>>
  <2>1. Unstored' = Unstored
    BY <1>2, <1>4 DEF Unstored, InFlight
  <2> QED BY <1>2, <1>4, <2>1 DEF Unstored, InFlight
<1>5. CASE /\ Dirty /\ exposed' = (exposed \/ Others(screen) # {})
           /\ \E r \in Free : request' = [resumed EXCEPT ![r] = new] /\ awaited' = r
  <2>1. PICK r \in Free : request' = [resumed EXCEPT ![r] = new] /\ awaited' = r
    BY <1>5
  <2>2. request'[r] = new /\ r \in Requests /\ request[r] = Idle
    BY <2>1, <1>3 DEF Free
  <2>3. \A p \in Requests \ {r} : request'[p] = resumed[p]
    BY <2>1, <1>3
  <2>4. new # Idle /\ new.pc # "stored"
    BY <1>3, IdleShape
  <2>5. Unstored' = Unstored \cup {r}
    BY <1>2, <2>2, <2>3, <2>4 DEF Unstored, InFlight
  <2>6. r \notin Unstored
    BY <2>2 DEF Unstored, InFlight
  <2> QED BY <1>2, <1>3, <1>5, <2>1, <2>2, <2>3, <2>5, <2>6 DEF Unstored, InFlight
<1> QED BY <1>1, <1>4, <1>5

(* Closing the tab: what is left of the saves, and the one more.           *)
LEMMA Closed ==
    ASSUME TypeOK, CloseTab
    PROVE  /\ \A p \in Unstored' :
                 \/ p \in Unstored /\ request'[p].note = request[p].note
                 \/ Dirty /\ request'[p].note = screen
           /\ \A p \in Requests : request'[p].pc = "read" =>
                 /\ request[p].pc = "read"
                 /\ request'[p].note = request[p].note
                 /\ request'[p].before = request[p].before
           /\ Dirty /\ online => Unstored' # {}
<1> DEFINE left(kept) == [p \in Requests |->
                  IF p \in kept /\ request[p].pc \in {"sent", "read"}
                  THEN [request[p] EXCEPT !.mine = FALSE] ELSE Idle]
<1>1. PICK kept \in SUBSET InFlight :
              \/ /\ Dirty /\ online
                 /\ \E p \in Free : request' = [left(kept) EXCEPT ![p] = Sent(screen, FALSE)]
              \/ ~ (Dirty /\ online) /\ request' = left(kept)
  BY DEF CloseTab
<1> DEFINE rest == left(kept)
           new == Sent(screen, FALSE)
<1>2. \A p \in Requests :
         \/ rest[p] = Idle
         \/ /\ request[p].pc \in {"sent", "read"}
            /\ rest[p].pc = request[p].pc /\ rest[p].note = request[p].note
            /\ rest[p].pc = "read" => rest[p].before = request[p].before
  <2> TAKE p \in Requests
  <2>1. CASE p \in kept /\ request[p].pc \in {"sent", "read"}
    <3>1. rest[p] = [request[p] EXCEPT !.mine = FALSE] /\ request[p] \in Request
      BY <2>1 DEF TypeOK
    <3>2. rest[p].pc = request[p].pc /\ rest[p].note = request[p].note
      BY <2>1, <3>1, GivenUp
    <3>3. request[p].pc = "read" => rest[p].before = request[p].before
      BY <3>1 DEF Request, Idle
    <3> QED BY <2>1, <3>2, <3>3
  <2>2. CASE ~ (p \in kept /\ request[p].pc \in {"sent", "read"})
    BY <2>2
  <2> QED BY <2>1, <2>2
<1>3. DOMAIN rest = Requests
  OBVIOUS
<1>4. new.pc \in {"paused", "sent"} /\ new.note = screen /\ new # Idle
  BY SentShape, IdleShape DEF TypeOK
<1> HIDE DEF rest, new
<1>5. ASSUME NEW p \in Requests, request'[p] = rest[p]
      PROVE  /\ p \in Unstored' => p \in Unstored /\ request'[p].note = request[p].note
             /\ request'[p].pc = "read" =>
                   /\ request[p].pc = "read"
                   /\ request'[p].note = request[p].note
                   /\ request'[p].before = request[p].before
  BY <1>2, <1>5, IdleShape, UnstoredIs DEF Unstored, InFlight
<1>6. CASE ~ (Dirty /\ online) /\ request' = rest
  BY <1>5, <1>6 DEF Unstored, InFlight
<1>7. CASE /\ Dirty /\ online
           /\ \E r \in Free : request' = [rest EXCEPT ![r] = new]
  <2>1. PICK r \in Free : request' = [rest EXCEPT ![r] = new]
    BY <1>7
  <2>2. request'[r] = new /\ r \in Requests
    BY <2>1, <1>3 DEF Free
  <2>3. \A p \in Requests \ {r} : request'[p] = rest[p]
    BY <2>1, <1>3
  <2>4. r \in Unstored'
    BY <1>4, <2>2 DEF Unstored, InFlight
  <2>5. \A p \in Unstored' : p \in Requests
    BY DEF Unstored, InFlight
  <2> QED BY <1>4, <1>5, <1>7, <2>2, <2>3, <2>4, <2>5
<1> QED BY <1>1, <1>6, <1>7 DEF rest, new

-----------------------------------------------------------------------------
(* Step by step.                                                           *)

(* What changes neither the row nor what a save on its way carries, and    *)
(* ends nothing that is not stored.                                        *)
LEMMA RaceUnseen ==
    ASSUME TypeOK, RaceInv,
           UNCHANGED <<row, loaded, screen, saved, awaited>>,
           exposed => exposed', debounce' => debounce,
           Unstored' = Unstored,
           awaited \in Requests => request'[awaited] = request[awaited],
           \A p \in Requests : request'[p] \in {request[p], Idle}
    PROVE  RaceInv'
<1>1. \A p \in Unstored : request'[p] = request[p]
  BY DEF Unstored, InFlight
<1>2. ~ exposed' => NoLoss'
  <2> SUFFICES ASSUME NoLoss PROVE NoLoss'
    BY DEF RaceInv
  <2>1. Agree' /\ (Harmless => Harmless')
    BY <1>1 DEF NoLoss, Agree, Harmless, Kept
  <2>2. ReadsHold'
    BY IdleShape DEF NoLoss, ReadsHold
  <2>3. LeftKept => LeftKept'
    BY <1>1 DEF LeftKept, Kept
  <2>4. SavedKept => SavedKept'
    BY <2>1 DEF SavedKept, Kept
  <2>5. awaited \in Requests /\ AnswerKept => AnswerKept'
    BY <2>1 DEF AnswerKept
  <2> QED BY <2>1, <2>2, <2>3, <2>4, <2>5 DEF NoLoss
<1> QED BY <1>2 DEF RaceInv, Dirty

(* A note is adopted: it is the row, or the editor is exposed.             *)
LEMMA RaceAdopts ==
    ASSUME TypeOK, TypeOK', RaceInv, ClosedRests, ~ loaded, NEW note \in Note, Adopt(note),
           UNCHANGED <<row, awaited>>, debounce' => Dirty',
           Unstored' = Unstored,
           \A p \in Requests : request'[p] \in {request[p], Idle}
    PROVE  RaceInv'
<1>0. loaded' /\ saved' = note /\ awaited' = Nobody /\ awaited' \notin Requests
  BY NullAssumption DEF Adopt, ClosedRests
<1>1. \A p \in Unstored : request'[p] = request[p]
  BY DEF Unstored, InFlight
<1>2. ~ exposed' => NoLoss'
  <2> SUFFICES ASSUME NoLoss, note = row, Others(note) = {} PROVE NoLoss'
    BY DEF RaceInv, Adopt
  <2>1. \A p \in Unstored : request[p].note = row
    BY DEF Others
  <2>2. Kept(row)' /\ Kept(row)
    BY RowIsKept DEF RaceInv, Kept
  <2>3. Agree' /\ Harmless' /\ SavedKept'
    BY <1>0, <1>1, <2>1, <2>2 DEF Agree, Harmless, SavedKept, Kept
  <2>4. ReadsHold'
    BY IdleShape DEF NoLoss, ReadsHold
  <2> QED BY <1>0, <2>3, <2>4 DEF NoLoss
<1> QED BY <1>0, <1>2 DEF RaceInv

(* A save of what is on the screen.                                        *)
LEMMA RaceSaves ==
    ASSUME TypeOK, TypeOK', RaceInv, Saves, Dirty, debounce' => debounce
    PROVE  RaceInv'
<1>1. PICK r \in Free : /\ request' = [request EXCEPT ![r] = Sent(screen, TRUE)]
                        /\ awaited' = r
                        /\ exposed' = (exposed \/ Others(screen) # {})
  BY DEF Saves, DoSave, Observe
<1>2. UNCHANGED <<row, loaded, screen, saved>> /\ loaded /\ screen # saved
  BY DEF Saves, server, Dirty
<1>3. /\ Unstored' = Unstored \cup {r} /\ r \in Requests /\ r # Nobody
      /\ request'[r].note = screen /\ request'[r].pc \in {"paused", "sent"}
      /\ \A p \in Requests \ {r} : request'[p] = request[p]
  BY <1>1, Started, NullAssumption DEF Free, TypeOK
<1>4. ~ exposed' => NoLoss'
  <2> SUFFICES ASSUME NoLoss, Others(screen) = {} PROVE NoLoss'
    BY <1>1 DEF RaceInv
  <2>1. \A p \in Unstored' : request'[p].note = screen
    BY <1>3 DEF Others, Unstored, InFlight
  <2>2. Agree'
    BY <2>1 DEF Agree
  <2>3. ReadsHold'
    BY <1>2, <1>3 DEF NoLoss, ReadsHold
  <2>4. AnswerKept'
    BY <1>1, <1>3 DEF AnswerKept
  <2> QED BY <1>1, <1>2, <1>3, <2>2, <2>3, <2>4 DEF NoLoss
<1> QED BY <1>1, <1>2, <1>3, <1>4 DEF RaceInv, Dirty

LEMMA RaceReconnects ==
    ASSUME TypeOK, RaceInv, AwaitedFits, GoOnline
    PROVE  RaceInv'
<1>0. UNCHANGED <<row, loaded, screen, saved, debounce>>
  BY DEF GoOnline, server
<1>1. CASE /\ ~ Dirty /\ Unstored' = Unstored /\ UNCHANGED <<awaited, exposed>>
           /\ \A p \in Requests : request[p] # Idle => request'[p].note = request[p].note
  <2> DEFINE same == \A p \in Unstored : request'[p].note = request[p].note
  <2>1. same
    BY <1>1 DEF Unstored, InFlight
  <2> HIDE DEF same
  <2>2. NoLoss => NoLoss'
    <3> SUFFICES ASSUME NoLoss PROVE NoLoss'
      OBVIOUS
    <3>1. Agree' /\ (Harmless => Harmless')
      BY <1>0, <1>1, <2>1 DEF NoLoss, Agree, Harmless, Kept, same
    <3>2. ReadsHold'
      BY <1>0, Reconnected DEF NoLoss, ReadsHold
    <3>3. LeftKept => LeftKept'
      BY <1>0, <1>1, <2>1 DEF LeftKept, Kept, same
    <3>4. SavedKept => SavedKept'
      BY <1>0, <3>1 DEF SavedKept, Kept
    <3>5. awaited \in Requests /\ AnswerKept => AnswerKept'
      <4>1. awaited \in Requests /\ request'[awaited].pc = "stored" =>
               request'[awaited] = request[awaited]
        BY Reconnected
      <4> QED BY <1>0, <1>1, <3>1, <4>1 DEF AnswerKept
    <3> QED BY <1>0, <1>1, <3>1, <3>2, <3>3, <3>4, <3>5 DEF NoLoss
  <2>3. awaited \in Requests => request'[awaited].note = request[awaited].note
    <3>1. awaited \in Requests /\ request[awaited] = Idle => FALSE
      BY DEF AwaitedFits
    <3> QED BY <1>1, <3>1
  <2> QED BY <1>0, <1>1, <2>2, <2>3 DEF RaceInv, Dirty
<1>2. CASE /\ Dirty /\ exposed' = (exposed \/ Others(screen) # {})
           /\ \E r \in Free : /\ Unstored' = Unstored \cup {r} /\ awaited' = r
                              /\ request'[r].note = screen
                              /\ request'[r].pc = "sent"
  <2>1. PICK r \in Free : /\ Unstored' = Unstored \cup {r} /\ awaited' = r
                          /\ request'[r].note = screen /\ request'[r].pc = "sent"
    BY <1>2
  <2>2. r \in Requests /\ r # Nobody /\ loaded /\ screen # saved
    BY <1>2, NullAssumption DEF Free, Dirty
  <2>3. ~ exposed' => NoLoss'
    <3> SUFFICES ASSUME NoLoss, Others(screen) = {} PROVE NoLoss'
      BY <1>2 DEF RaceInv
    <3>1. \A p \in Unstored' : request'[p].note = screen
      BY <2>1, Reconnected DEF Others
    <3>2. Agree'
      BY <3>1 DEF Agree
    <3>3. ReadsHold'
      BY <1>0, Reconnected DEF NoLoss, ReadsHold
    <3>4. AnswerKept'
      BY <2>1 DEF AnswerKept
    <3> QED BY <1>0, <2>1, <2>2, <3>2, <3>3, <3>4 DEF NoLoss
  <2> QED BY <1>0, <2>1, <2>2, <2>3 DEF RaceInv, Dirty
<1> QED BY <1>1, <1>2, Reconnected

(* The editor is left, with nothing to save.                               *)
LEMMA NothingToSave ==
    ASSUME TypeOK, RaceInv, AwaitedFits, ClosedRests, NoLoss, ~ Dirty, ~ LeftBehind,
           loaded
    PROVE  Kept(screen) /\ \A p \in Unstored : request[p].note = screen
<1>1. screen = saved /\ Others(screen) = {}
  BY DEF Dirty, LeftBehind
<1>2. awaited = Nobody
  BY <1>1 DEF LeftBehind, RaceInv, TypeOK
<1> QED BY <1>1, <1>2 DEF NoLoss, SavedKept, Others

LEMMA RaceLeaves ==
    ASSUME TypeOK, TypeOK', RaceInv, AwaitedFits, ClosedRests, Leave
    PROVE  RaceInv'
<1>1. /\ ~ loaded' /\ ~ debounce' /\ awaited' = Nobody /\ awaited' \notin Requests
      /\ row' = row /\ screen' = screen
      /\ exposed' = (exposed \/ LeftBehind)
  BY NullAssumption DEF Leave, Unmounted, server
<1>2. ~ exposed' => NoLoss'
  <2> SUFFICES ASSUME NoLoss, ~ LeftBehind PROVE NoLoss'
    BY <1>1 DEF RaceInv
  <2>1. \A p \in Unstored : request[p].note = screen
    BY DEF LeftBehind, Others
  <2>2. CASE Dirty
    <3>1. PICK r \in Free : request' = [request EXCEPT ![r] = Sent(screen, TRUE)]
      BY <2>2 DEF Leave, SavesOnLeaving
    <3>2. /\ Unstored' = Unstored \cup {r}
          /\ request'[r].note = screen /\ request'[r].pc \in {"paused", "sent"}
          /\ \A p \in Requests \ {r} : request'[p] = request[p]
      BY <3>1, Started DEF TypeOK
    <3>3. \A p \in Unstored' : request'[p].note = screen
      BY <2>1, <3>2 DEF Unstored, InFlight
    <3>4. Agree' /\ LeftKept'
      BY <1>1, <3>2, <3>3 DEF Agree, LeftKept
    <3>5. ReadsHold'
      BY <1>1, <3>2 DEF NoLoss, ReadsHold
    <3> QED BY <1>1, <3>4, <3>5 DEF NoLoss
  <2>3. CASE ~ Dirty
    <3>1. UNCHANGED request
      BY <2>3 DEF Leave, SavesOnLeaving
    <3>2. loaded => Kept(screen)
      BY <2>3, NothingToSave
    <3>3. Unstored = {} => Kept(screen)
      BY <3>2 DEF NoLoss, LeftKept
    <3>4. Agree' /\ ReadsHold'
      BY <1>1, <3>1 DEF NoLoss, Agree, ReadsHold, Unstored, InFlight
    <3>5. LeftKept'
      BY <1>1, <2>1, <3>1, <3>3 DEF LeftKept, Unstored, InFlight, Kept
    <3> QED BY <1>1, <3>4, <3>5 DEF NoLoss
  <2> QED BY <2>2, <2>3
<1> QED BY <1>1, <1>2 DEF RaceInv

LEMMA RaceCloses ==
    ASSUME TypeOK, RaceInv, AwaitedFits, ClosedRests, CloseTab
    PROVE  RaceInv'
<1>1. /\ ~ loaded' /\ ~ debounce' /\ awaited' = Nobody /\ awaited' \notin Requests
      /\ row' = row /\ screen' = screen
      /\ exposed' = (exposed \/ LeftBehind \/ (Dirty /\ ~ online)
                             \/ (~ loaded /\ Unstored # {}))
  BY NullAssumption DEF CloseTab, Unmounted, server
<1>2. ~ exposed' => NoLoss'
  <2> SUFFICES ASSUME NoLoss, ~ LeftBehind, Dirty => online,
                      ~ loaded => Unstored = {}
               PROVE  NoLoss'
    BY <1>1 DEF RaceInv
  <2>1. \A p \in Unstored : request[p].note = screen
    BY DEF LeftBehind, Others
  <2>2. \A p \in Unstored' : request'[p].note = screen
    BY <2>1, Closed
  <2>3. ReadsHold'
    BY <1>1, Closed DEF NoLoss, ReadsHold
  <2>4. ~ Dirty => Kept(screen)
    BY NothingToSave DEF NoLoss, LeftKept
  <2>5. Unstored' = {} => Kept(screen)'
    BY <1>1, <2>4, Closed DEF Kept
  <2> QED BY <1>1, <2>2, <2>3, <2>5 DEF NoLoss, Agree, LeftKept
<1> QED BY <1>1, <1>2 DEF RaceInv

LEMMA RaceDeletes ==
    ASSUME TypeOK, RaceInv, AwaitedFits, ClosedRests, DeleteSucceeds
    PROVE  RaceInv'
<1>1. /\ ~ loaded' /\ ~ debounce' /\ awaited' = Nobody /\ awaited' \notin Requests
      /\ loaded /\ UNCHANGED <<row, screen, request>>
      /\ exposed' = (exposed \/ Dirty \/ LeftBehind)
  BY NullAssumption DEF DeleteSucceeds, Unmounted, server
<1>2. ~ exposed' => NoLoss'
  <2> SUFFICES ASSUME NoLoss, ~ Dirty, ~ LeftBehind PROVE NoLoss'
    BY <1>1 DEF RaceInv
  <2>1. Kept(screen) /\ \A p \in Unstored : request[p].note = screen
    BY <1>1, NothingToSave
  <2>2. LeftKept'
    BY <1>1, <2>1 DEF LeftKept, Kept, Unstored, InFlight
  <2>3. Agree' /\ ReadsHold'
    BY <1>1 DEF NoLoss, Agree, ReadsHold, Unstored, InFlight
  <2> QED BY <1>1, <2>2, <2>3 DEF NoLoss
<1> QED BY <1>1, <1>2 DEF RaceInv

LEMMA RaceTypes ==
    ASSUME TypeOK, RaceInv, Type
    PROVE  RaceInv'
<1>1. /\ loaded /\ screen' # screen
      /\ UNCHANGED <<row, request, loaded, saved, awaited, exposed>>
      /\ debounce' = Dirty'
  BY DEF Type, Rescheduled, server
<1>2. NoLoss => NoLoss'
  BY <1>1 DEF NoLoss, Agree, ReadsHold, SavedKept, AnswerKept, Harmless, Kept,
     Unstored, InFlight
<1> QED BY <1>1, <1>2 DEF RaceInv

(* A save on its way takes a step that changes neither its text nor the    *)
(* row: it is read, or refused to a client that waits for it.              *)
LEMMA RaceCarries ==
    ASSUME TypeOK, RaceInv, NEW r \in Unstored,
           UNCHANGED <<row, loaded, screen, saved, awaited, debounce, exposed>>,
           Unstored' = Unstored,
           request'[r].note = request[r].note, request'[r].pc # "stored",
           request'[r].pc = "read" => request'[r].before = row.domain,
           \A p \in Requests \ {r} : request'[p] = request[p]
    PROVE  RaceInv'
<1>0. r \in Requests /\ \A p \in Unstored : p \in Requests
  BY DEF Unstored, InFlight
<1>1. \A p \in Requests : request'[p].note = request[p].note
  BY <1>0
<1>2. NoLoss => NoLoss'
  <2> SUFFICES ASSUME NoLoss PROVE NoLoss'
    OBVIOUS
  <2>1. Agree' /\ (Harmless => Harmless')
    BY <1>0, <1>1 DEF NoLoss, Agree, Harmless, Kept
  <2>2. ReadsHold'
    BY <1>0 DEF NoLoss, ReadsHold
  <2>3. LeftKept => LeftKept'
    BY <1>0, <1>1 DEF LeftKept, Kept
  <2>4. SavedKept => SavedKept'
    BY <2>1 DEF SavedKept, Kept
  <2>5. awaited \in Requests /\ AnswerKept => AnswerKept'
    BY <2>1 DEF AnswerKept
  <2> QED BY <2>1, <2>2, <2>3, <2>4, <2>5 DEF NoLoss
<1> QED BY <1>1, <1>2 DEF RaceInv, Dirty

(* A refusal is heard, or leaves the editor exposed.                       *)
LEMMA RaceRefuses ==
    ASSUME TypeOK, RaceInv, AwaitedFits, NEW r \in Requests,
           request[r].pc \in {"sent", "read"}, Refused(r),
           UNCHANGED <<row, loaded, screen, saved, awaited, debounce>>
    PROVE  RaceInv'
<1>1. request[r] \in Request /\ request[r] # Idle /\ r \in Unstored
      /\ request[r].mine \in BOOLEAN
  BY RequestShape, IdleShape, UnstoredIs DEF TypeOK
<1>2. \A p \in Requests \ {r} : request'[p] = request[p]
  BY DEF Refused, Answered, TypeOK
<1>3. CASE request[r].mine
  <2>1. request'[r] = [pc |-> "refused", note |-> request[r].note] /\ exposed' = exposed
    BY <1>1, <1>3 DEF Refused, Answered, TypeOK
  <2>2. request'[r] # Idle /\ request'[r].pc = "refused"
        /\ request'[r].note = request[r].note
    BY <2>1 DEF Idle
  <2>3. Unstored' = Unstored
    BY <1>1, <1>2, <2>2 DEF Unstored, InFlight
  <2> QED BY <1>1, <1>2, <2>1, <2>2, <2>3, RaceCarries
<1>4. CASE ~ request[r].mine
  <2>1. exposed' /\ awaited # r
    BY <1>1, <1>4 DEF Refused, AwaitedFits
  <2>2. awaited \in Requests => request'[awaited] = request[awaited]
    BY <1>2, <2>1
  <2> QED BY <2>1, <2>2 DEF RaceInv, Dirty
<1> QED BY <1>1, <1>3, <1>4

LEMMA RaceReads ==
    ASSUME TypeOK, RaceInv, AwaitedFits, NEW r \in Requests, PatchRead(r)
    PROVE  RaceInv'
<1>1. UNCHANGED <<row, loaded, screen, saved, awaited, debounce>>
  BY DEF PatchRead, server, editor
<1>2. request[r] \in Request /\ r \in Unstored
  BY UnstoredIs DEF PatchRead, TypeOK
<1>3. CASE status = "live"
  <2>1. /\ request'[r] = [pc |-> "read", note |-> request[r].note,
                         mine |-> request[r].mine, before |-> row.domain]
        /\ \A p \in Requests \ {r} : request'[p] = request[p]
        /\ exposed' = exposed
    BY <1>3 DEF PatchRead, TypeOK
  <2>2. request'[r] # Idle /\ request'[r].pc = "read"
        /\ request'[r].note = request[r].note /\ request'[r].before = row.domain
    BY <2>1 DEF Idle
  <2>3. Unstored' = Unstored
    BY <1>2, <2>1, <2>2 DEF Unstored, InFlight
  <2> QED BY <1>1, <1>2, <2>1, <2>2, <2>3, RaceCarries
<1>4. CASE status # "live"
  BY <1>1, <1>4, RaceRefuses DEF PatchRead
<1> QED BY <1>3, <1>4

LEMMA RaceWrites ==
    ASSUME TypeOK, RaceInv, AwaitedFits, ClosedRests, NEW r \in Requests, PatchWrite(r)
    PROVE  RaceInv'
<1>0. UNCHANGED <<loaded, screen, saved, awaited, debounce>> /\ request[r].pc = "read"
  BY DEF PatchWrite, editor
<1>1. /\ request[r] \in Request /\ r \in Unstored
      /\ request[r].note \in Note /\ request[r].before \in Domains \cup {NoDomain}
      /\ request[r].mine \in BOOLEAN
  BY <1>0, RequestShape, IdleShape, UnstoredIs DEF TypeOK
<1> PICK note \in Note, before \in Domains \cup {NoDomain} :
         note = request[r].note /\ before = request[r].before
  BY <1>1
<1>2. CASE ~ Updatable
  <2>1. Refused(r) /\ UNCHANGED row
    BY <1>2 DEF PatchWrite
  <2> QED BY <1>0, <2>1, RaceRefuses
<1>3. CASE Updatable
  <2>2. row' = Rewritten(note, before) /\ exposed' = exposed
    BY <1>3 DEF PatchWrite
  <2>3. /\ Kept(note)' /\ Trimmed[row'.text] = row'.text
        /\ Kept(note) /\ (note.domain = NoDomain => before = row.domain) => row' = row
        /\ note.domain = NoDomain /\ before = row.domain => row'.domain = row.domain
    BY <2>2, WriteKeeps
  <2>4. /\ \A p \in Requests \ {r} : request'[p] = request[p]
        /\ \/ ~ request[r].mine /\ request'[r] = Idle
           \/ request'[r] = [pc |-> "stored", note |-> note, fresh |-> row']
    BY <1>3, <1>1 DEF PatchWrite, Answered, TypeOK
  <2>5. /\ request'[r] = Idle \/ request'[r].pc = "stored"
        /\ request'[r].pc \in {"idle", "stored"}
        /\ request'[r].pc = "stored" =>
              request'[r].note = note /\ request'[r].fresh = row'
    BY <2>4, IdleShape
  <2>6. Unstored' = Unstored \ {r} /\ \A p \in Unstored : p \in Requests
    BY <2>4, <2>5 DEF Unstored, InFlight
  <2>7. awaited \in Requests => request'[awaited].note = request[awaited].note
    <3>1. CASE awaited = r
      BY <1>0, <2>4, <2>5, <3>1 DEF AwaitedFits
    <3>2. CASE awaited # r
      BY <2>4, <3>2
    <3> QED BY <3>1, <3>2
  <2>8. NoLoss => NoLoss'
    <3> SUFFICES ASSUME NoLoss PROVE NoLoss'
      OBVIOUS
    <3>1. /\ \A p \in Unstored : request[p].note = note
          /\ note.domain = NoDomain => before = row.domain
      BY <1>0, <1>1 DEF NoLoss, Agree, ReadsHold
    <3>2. \A p \in Unstored' : request'[p].note = note
      BY <2>4, <2>6, <3>1
    <3>3. Agree' /\ Harmless'
      BY <2>3, <3>2 DEF Agree, Harmless, Kept
    <3>4. ReadsHold'
      <4> SUFFICES ASSUME NEW p \in Requests, request'[p].pc = "read",
                          request'[p].note.domain = NoDomain
                   PROVE  request'[p].before = row'.domain
        BY DEF ReadsHold
      <4>1. p # r /\ request'[p] = request[p]
        BY <2>4, <2>5
      <4>2. p \in Unstored
        BY <4>1, UnstoredIs
      <4>3. note.domain = NoDomain
        BY <3>1, <4>1, <4>2
      <4> QED BY <2>3, <3>1, <4>1, <4>3 DEF NoLoss, ReadsHold
    <3>5. ~ loaded' => LeftKept'
      <4>1. ~ loaded => note = screen
        BY <1>1 DEF NoLoss, LeftKept
      <4> QED BY <1>0, <2>3, <3>2, <4>1 DEF LeftKept, Kept
    <3>6. Harmless => row' = row
      BY <1>1, <2>3, <3>1 DEF Harmless
    <3>7. loaded' /\ awaited' = Nobody => SavedKept'
      BY <1>0, <3>3, <3>6 DEF NoLoss, SavedKept, Kept
    <3>8. loaded' /\ awaited' \in Requests => AnswerKept'
      <4> SUFFICES ASSUME loaded, awaited \in Requests, request'[awaited].pc = "stored"
                   PROVE  request'[awaited].fresh = row'
        BY <1>0, <3>3 DEF AnswerKept
      <4>1. CASE awaited = r
        BY <2>5, <4>1
      <4>2. CASE awaited # r
        <5>1. request'[awaited] = request[awaited]
          BY <2>4, <4>2
        <5> QED BY <3>6, <5>1 DEF NoLoss, AnswerKept
      <4> QED BY <4>1, <4>2
    <3> QED BY <3>3, <3>4, <3>5, <3>7, <3>8 DEF NoLoss
  <2> QED BY <1>0, <2>2, <2>3, <2>7, <2>8 DEF RaceInv, Dirty
<1> QED BY <1>2, <1>3

(* The answer.                                                             *)
LEMMA RaceSucceeds ==
    ASSUME TypeOK, TypeOK', RaceInv, AwaitedFits, ClosedRests,
           NEW r \in Requests, Succeeds(r)
    PROVE  RaceInv'
<1> DEFINE fresh == request[r].fresh
<1>1. /\ request[r].pc = "stored" /\ request' = [request EXCEPT ![r] = Idle]
      /\ UNCHANGED row /\ Rescheduled
  BY DEF Succeeds, server
<1>2. /\ Unstored' = Unstored /\ request'[r] = Idle /\ fresh \in Note
      /\ \A p \in Requests \ {r} : request'[p] = request[p]
  <2>1. r \notin Unstored
    BY <1>1 DEF Unstored
  <2>2. fresh \in Note
    BY <1>1, RequestShape, IdleShape DEF TypeOK
  <2> QED BY <1>1, <2>1, <2>2, Ended
<1>3. debounce' => Dirty'
  BY <1>1 DEF Rescheduled, RaceInv
<1> HIDE DEF fresh
<1>4. CASE /\ r = awaited /\ saved' = fresh /\ awaited' = Nobody
           /\ UNCHANGED <<loaded, screen, exposed>>
  <2>1. loaded /\ awaited' \notin Requests
    BY <1>4, NullAssumption DEF AwaitedFits
  <2>2. NoLoss => NoLoss'
    <3> SUFFICES ASSUME NoLoss PROVE NoLoss'
      OBVIOUS
    <3>1. fresh = row /\ Harmless
      BY <1>1, <1>4, <2>1 DEF NoLoss, AnswerKept, fresh
    <3>2. Kept(row)
      BY RowIsKept DEF RaceInv
    <3>3. \A p \in Unstored : p \in Requests \ {r} /\ request'[p] = request[p]
      BY <1>1, <1>2 DEF Unstored, InFlight
    <3>4. Agree' /\ Harmless'
      BY <1>1, <1>2, <3>1, <3>3 DEF NoLoss, Agree, Harmless, Kept
    <3>5. ReadsHold'
      BY <1>1, <1>2, IdleShape DEF NoLoss, ReadsHold
    <3>6. SavedKept'
      BY <1>1, <1>4, <3>1, <3>2, <3>4 DEF SavedKept, Kept
    <3> QED BY <1>4, <2>1, <3>4, <3>5, <3>6 DEF NoLoss
  <2> QED BY <1>1, <1>3, <1>4, <2>1, <2>2 DEF RaceInv
<1>5. CASE open /\ ~ loaded /\ Adopt(fresh) /\ UNCHANGED awaited
  BY <1>1, <1>2, <1>3, <1>5, RaceAdopts
<1>6. CASE r # awaited /\ UNCHANGED <<loaded, screen, saved, awaited, exposed>>
  <2>1. debounce' => debounce
    BY <1>1, <1>6 DEF Rescheduled, Dirty
  <2> QED BY <1>1, <1>2, <1>6, <2>1, RaceUnseen
<1> QED BY <1>4, <1>5, <1>6 DEF Succeeds, fresh

LEMMA RaceFails ==
    ASSUME TypeOK, RaceInv, AwaitedFits, ClosedRests, NEW r \in Requests, Fails(r)
    PROVE  RaceInv'
<1>1. UNCHANGED <<row, loaded, screen, saved, debounce>>
  BY DEF Fails, server
<1>2. /\ r = awaited => awaited' = Nobody
      /\ r # awaited => awaited' = awaited
      /\ \A p \in Requests \ {r} : request'[p] = request[p]
  BY DEF Fails, TypeOK
<1>3. awaited' \in Requests => awaited' = awaited /\ request'[awaited] = request[awaited]
  BY <1>2, NullAssumption
<1>4. ~ exposed' => NoLoss'
  <2> SUFFICES ASSUME NoLoss, loaded, request'[r] = Idle,
                      r = awaited => row = saved /\ Unstored \ {r} = {}
               PROVE  NoLoss'
    BY DEF RaceInv, Fails
  <2>1. request' = [request EXCEPT ![r] = Idle]
    BY DEF Fails, TypeOK, Idle
  <2>2. Unstored' = Unstored \ {r} /\ \A p \in Unstored : p \in Requests
    BY <2>1, Ended DEF Unstored, InFlight
  <2>3. Agree' /\ ReadsHold' /\ (Harmless => Harmless')
    BY <1>1, <1>2, <2>2, IdleShape DEF NoLoss, Agree, ReadsHold, Harmless, Kept
  <2>4. awaited' = Nobody => SavedKept'
    <3>1. CASE r = awaited
      BY <1>1, <2>2, <3>1, RowIsKept DEF RaceInv, SavedKept, Harmless, Kept
    <3>2. CASE r # awaited
      BY <1>1, <1>2, <2>3, <3>2 DEF NoLoss, SavedKept, Kept
    <3> QED BY <3>1, <3>2
  <2>5. awaited' \in Requests => AnswerKept'
    BY <1>1, <1>3, <2>3 DEF NoLoss, AnswerKept
  <2> QED BY <1>1, <2>3, <2>4, <2>5 DEF NoLoss
<1> QED BY <1>1, <1>3, <1>4 DEF RaceInv, Dirty

LEMMA RaceInit == Init => RaceInv
<1> SUFFICES ASSUME Init PROVE RaceInv
  OBVIOUS
<1>1. TypeOK /\ Trimmed[row.text] = row.text
  BY TypeInit DEF Init
<1>2. Kept(row)
  BY <1>1, RowIsKept
<1>3. Unstored = {} /\ screen = row /\ ~ loaded /\ ~ debounce /\ awaited \notin Requests
  BY NullAssumption DEF Init, Unstored, InFlight
<1>4. NoLoss
  BY <1>2, <1>3, IdleShape DEF Init, NoLoss, Agree, ReadsHold, LeftKept
<1> QED BY <1>1, <1>3, <1>4 DEF RaceInv

LEMMA RaceScreen ==
    ASSUME IInv, TypeOK', RaceInv, Screen \/ Timers \/ Query
    PROVE  RaceInv'
<1>0. TypeOK /\ AwaitedFits /\ ClosedRests
  BY DEF IInv
<1>1. CASE Saves /\ Dirty /\ (debounce' => debounce)
  BY <1>0, <1>1, RaceSaves
<1>2. CASE PressSave \/ Hide \/ Timers
  <2>1. Saves /\ Dirty /\ (debounce' => debounce)
    BY <1>2 DEF PressSave, Hide, Timers, DebounceFires, RetryFires, Retrying, RaceInv
  <2> QED BY <1>1, <2>1
<1>3. ASSUME NEW note \in Note, ~ loaded, Adopt(note),
             UNCHANGED <<row, request, awaited, debounce>>
      PROVE  RaceInv'
  <2>1. Unstored' = Unstored /\ ~ debounce
    BY <1>0, <1>3 DEF Unstored, InFlight, ClosedRests
  <2> QED BY <1>0, <1>3, <2>1, RaceAdopts
<1>4. CASE UNCHANGED <<row, request, loaded, screen, saved, awaited, debounce, exposed>>
  <2>1. Unstored' = Unstored
    BY <1>4 DEF Unstored, InFlight
  <2> QED BY <1>0, <1>4, <2>1, RaceUnseen
<1>5. CASE Open
  <2>1. ~ loaded
    BY <1>0, <1>5 DEF Open, ClosedRests
  <2>2. UNCHANGED <<row, request, awaited, debounce>>
    BY <1>5 DEF Open, server
  <2>3. CASE Available(cached) /\ Adopt(cached)
    <3>1. cached \in Note
      BY <1>0, <2>3 DEF TypeOK, Available
    <3> QED BY <1>3, <2>1, <2>2, <2>3, <3>1
  <2>4. CASE UNCHANGED <<loaded, screen, saved, exposed>>
    BY <1>4, <2>2, <2>4
  <2> QED BY <1>5, <2>3, <2>4 DEF Open
<1>6. CASE FetchLands
  <2>1. UNCHANGED <<row, request, awaited, debounce>>
    BY <1>6 DEF FetchLands, server
  <2>2. CASE open /\ ~ loaded /\ Adopt(fetch.note)
    <3>1. fetch.note \in Note
      BY <1>0, <1>6 DEF FetchLands, TypeOK, Fetch, NoFetch, Asked
    <3> QED BY <1>3, <2>1, <2>2, <3>1
  <2>3. CASE UNCHANGED <<loaded, screen, saved, exposed>>
    BY <1>4, <2>1, <2>3
  <2> QED BY <1>6, <2>2, <2>3 DEF FetchLands
<1>7. CASE FetchRead \/ FetchFails \/ Refetch \/ Expire
  BY <1>4, <1>7 DEF FetchRead, FetchFails, Refetch, Expire, server, editor
<1> QED BY <1>0, <1>2, <1>5, <1>6, <1>7, RaceLeaves, RaceCloses, RaceTypes
        DEF Screen, Query

LEMMA RaceStep ==
    ASSUME IInv, TypeOK', RaceInv, [Next]_vars
    PROVE  RaceInv'
<1>0. TypeOK /\ AwaitedFits /\ ClosedRests
  BY DEF IInv
<1>1. CASE UNCHANGED <<row, request, loaded, screen, saved, awaited, debounce, exposed>>
  <2>1. Unstored' = Unstored
    BY <1>1 DEF Unstored, InFlight
  <2> QED BY <1>0, <1>1, <2>1, RaceUnseen
<1>2. CASE Server
  BY <1>0, <1>2, RaceReads, RaceWrites, RaceSucceeds DEF Server
<1>3. CASE Network
  BY <1>0, <1>1, <1>3, RaceReconnects, RaceFails DEF Network, GoOffline, server, editor
<1>4. CASE Deletion
  BY <1>0, <1>1, <1>4, RaceDeletes DEF Deletion, Trash, Restore, editor
<1>5. CASE UNCHANGED vars
  BY <1>1, <1>5 DEF vars, server, editor
<1> QED BY <1>2, <1>3, <1>4, <1>5, RaceScreen DEF Next

(* At rest, text that counts as saved is in the row, and text that does    *)
(* not is what the server rewrote.                                         *)
LEMMA RaceQuiet ==
    ASSUME IInv, RaceInv
    PROVE  LossNeedsARace
<1> SUFFICES ASSUME Quiet, NoLoss PROVE Kept(screen)
  BY DEF LossNeedsARace, RaceInv, Kept
<1>0. TypeOK /\ ClosedRests /\ UnsavedIsScheduled
  BY DEF IInv
<1>1. CASE ~ loaded
  BY <1>1 DEF Quiet, NoLoss, LeftKept
<1>2. CASE loaded
  <2>1. ~ debounce /\ ~ Retrying /\ awaited = Nobody
    BY <1>0, <1>2 DEF Quiet, ClosedRests
  <2>2. Kept(saved)
    BY <1>2, <2>1 DEF NoLoss, SavedKept
  <2>3. CASE ~ Dirty
    BY <1>2, <2>2, <2>3 DEF Dirty
  <2>4. CASE Dirty
    <3>1. OnlyRewritten
      BY <1>0, <2>1, <2>4 DEF UnsavedIsScheduled
    <3> QED BY <1>0, <2>2, <3>1, KeptThrough
  <2> QED BY <2>3, <2>4
<1> QED BY <1>1, <1>2

(* Whatever is typed, saved, failed, retried, left and opened again: once  *)
(* everything has come to rest the row holds what was typed last, unless   *)
(* one of the named races has put it at risk (NoteEditorPage.tsx:96-210,   *)
(* useSaveNote, handleUpdateNote); for any number of saves at once.        *)
THEOREM LossNeedsARaceHolds == Spec => []LossNeedsARace
<1>1. IInv /\ RaceInv /\ [Next]_vars => IInv' /\ RaceInv'
  <2> SUFFICES ASSUME IInv, RaceInv, [Next]_vars PROVE IInv' /\ RaceInv'
    OBVIOUS
  <2>1. IInv'
    BY IInvStep
  <2>2. TypeOK'
    BY <2>1 DEF IInv
  <2> QED BY <2>1, <2>2, RaceStep
<1>2. IInv /\ RaceInv => LossNeedsARace
  BY RaceQuiet
<1> QED BY IInvInit, RaceInit, <1>1, <1>2, PTL DEF Spec
=============================================================================
