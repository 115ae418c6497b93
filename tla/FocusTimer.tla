----------------------------- MODULE FocusTimer -----------------------------
(***************************************************************************)
(* The focus timer: web/src/features/timer/useTimer.ts, the effects of     *)
(* TimerProvider.tsx, the capture prompt and the POST of                   *)
(* internal/api/sessions.go.                                               *)
(*                                                                         *)
(* Every tab keeps a timer of its own and writes each change of it to one  *)
(* localStorage key, which is read only when a tab opens.  The code keeps  *)
(* the wall-clock instant a session ends; "left" is that instant minus     *)
(* now, so the clock needs no bound.                                       *)
(***************************************************************************)
EXTENDS Naturals, FiniteSets

CONSTANTS
    Tabs,
    Durations,  \* the minutes the picker offers; the domain is picked and
                \* kept like them
    Usual,      \* the one of them a tab falls back to
    Defaults,   \* the minutes an account's default may be: the server takes
                \* any from 1 to 480, on the picker or off it
    Sessions,   \* names of the sessions started
    NoSession,
    Closed,     \* a tab that is not open
    Requests,   \* requests on their way at once
    Rows        \* room in the focus_sessions table

ASSUME DurationsAssumption ==
    /\ Durations \cup Defaults \subseteq Nat \ {0} /\ IsFiniteSet(Durations \cup Defaults)
    /\ Usual \in Durations
ASSUME NullAssumption == NoSession \notin Sessions /\ Closed \notin Tabs

VARIABLES
    tab,        \* the timer of each open tab
    stored,     \* localStorage
    request,    \* what is on its way to the server
    failed,     \* the session whose record the tab says has failed
    log,        \* the focus_sessions rows
    focused,    \* observer: the time each session has really run; bound:
                \* counted up to the longest duration
    planned,    \* observer: the minutes each session was started for
    phase,      \* observer: a session is new, underway, finished and sent to
                \* be recorded, or given up
    crowded,    \* observer: sessions for which two tabs were open at once
    unheard     \* observer: sessions whose tab stopped waiting to hear that
                \* they are recorded

screen == <<tab, stored>>
observers == <<focused, planned, phase, crowded, unheard>>
vars == <<screen, request, failed, log, observers>>

-----------------------------------------------------------------------------
Minutes == Durations \cup Defaults

Timer == [status: {"idle", "running", "paused", "done"}, minutes: Minutes,
          left: Nat, logged: BOOLEAN, session: Sessions \cup {NoSession}]

Fresh(minutes) == [status |-> "idle", minutes |-> minutes, left |-> 0,
                   logged |-> FALSE, session |-> NoSession]

ASSUME ClosedAssumption == Closed \notin Timer

Free == [pc |-> "free"]
Request ==
    {Free}
    \cup [pc: {"log", "logged"}, session: Sessions, minutes: Minutes,
          again: BOOLEAN, tab: Tabs \cup {Closed}]
    \cup [pc: {"capture"}, session: Sessions, tab: Tabs]

Vacant == {r \in Requests : request[r] = Free}

NoRow == [session |-> NoSession]
Row == {NoRow} \cup [session: Sessions, minutes: Minutes, again: BOOLEAN]

Open == {t \in Tabs : tab[t] # Closed}
Holds(t, s) == t \in Open /\ tab[t].session = s
Running(s) ==
    \/ \E t \in Open : tab[t].session = s /\ tab[t].status = "running"
    \/ stored.session = s /\ stored.status = "running"

TypeOK ==
    /\ tab \in [Tabs -> Timer \cup {Closed}] /\ stored \in Timer
    /\ request \in [Requests -> Request]
    /\ failed \in [Tabs -> Sessions \cup {NoSession}]
    /\ log \in [Rows -> Row]
    /\ focused \in [Sessions -> Nat]
    /\ planned \in [Sessions -> Minutes \cup {0}]
    /\ phase \in [Sessions -> {"new", "underway", "finished", "dropped"}]
    /\ crowded \subseteq Sessions /\ unheard \subseteq Sessions

Init ==
    /\ tab = [t \in Tabs |-> Closed]
    /\ \E minutes \in Durations : stored = Fresh(minutes)
    /\ request = [r \in Requests |-> Free]
    /\ failed = [t \in Tabs |-> NoSession]
    /\ log = [w \in Rows |-> NoRow]
    /\ focused = [s \in Sessions |-> 0]
    /\ planned = [s \in Sessions |-> 0]
    /\ phase = [s \in Sessions |-> "new"] /\ crowded = {} /\ unheard = {}

-----------------------------------------------------------------------------
(* useTimer.                                                               *)

(* A change of the state, and the effect that stores it.  Storing it is    *)
(* what can lose the session of another tab.                               *)
Becomes(t, timer) ==
    /\ tab' = [tab EXCEPT ![t] = timer]
    /\ stored' = timer
    /\ crowded' = IF Open \subseteq {t} THEN crowded
                  ELSE crowded \cup {s \in Sessions :
                          timer.session = s \/ \E u \in Open : Holds(u, s)}

Same == UNCHANGED <<request, failed, log, focused, unheard>>
Change(t, timer) == Becomes(t, timer) /\ Same
Enters(s, stage) == phase' = [phase EXCEPT ![s] = stage]

SetDuration(t, minutes) ==
    /\ t \in Open /\ tab[t].status = "idle"
    /\ Change(t, [tab[t] EXCEPT !.minutes = minutes])
    /\ UNCHANGED <<planned, phase>>

Start(t) ==
    /\ t \in Open /\ tab[t].status = "idle"
    /\ \E s \in Sessions :
          /\ phase[s] = "new" /\ Enters(s, "underway")
          /\ planned' = [planned EXCEPT ![s] = tab[t].minutes]
          /\ Change(t, [tab[t] EXCEPT !.status = "running", !.left = tab[t].minutes,
                                      !.logged = FALSE, !.session = s])

Pause(t) ==
    /\ t \in Open /\ tab[t].status = "running"
    /\ Change(t, [tab[t] EXCEPT !.status = "paused"])
    /\ UNCHANGED <<planned, phase>>

Resume(t) ==
    /\ t \in Open /\ tab[t].status = "paused"
    /\ Change(t, [tab[t] EXCEPT !.status = "running"])
    /\ UNCHANGED <<planned, phase>>

Reset(t) ==
    /\ t \in Open /\ tab[t].status \in {"running", "paused"}
    /\ Change(t, Fresh(tab[t].minutes))
    /\ Enters(tab[t].session, "dropped") /\ UNCHANGED planned

(* The clock.  It goes on for a session whose tab is closed, and a tab may *)
(* look at it late.  The slip: what is left is not kept above zero.        *)
Unclamped(timer) ==
    IF timer.status = "running" THEN [timer EXCEPT !.left = @ - 1] ELSE timer
Later(timer) ==
    IF timer.status = "running" /\ timer.left > 0
    THEN [timer EXCEPT !.left = @ - 1] ELSE timer

Advance ==
    /\ \E s \in Sessions : Running(s)
    /\ tab' = [t \in Tabs |-> IF t \in Open THEN Later(tab[t]) ELSE Closed]
    /\ stored' = Later(stored)
    /\ <<tab, stored>>' # <<tab, stored>>
    /\ focused' = [s \in Sessions |->
           IF Running(s) /\ \E m \in Minutes : focused[s] < m
           THEN focused[s] + 1 ELSE focused[s]]
    /\ UNCHANGED <<request, failed, log, planned, phase, crowded, unheard>>

(* The interval, or the tab becoming visible, looks at the clock.          *)
Over(timer) == timer.status = "running" /\ timer.left = 0

Ended(timer) == [timer EXCEPT !.status = "done"]

Tick(t) ==
    /\ t \in Open /\ Over(tab[t])
    /\ Change(t, Ended(tab[t]))
    /\ UNCHANGED <<planned, phase>>

(* What a tab makes of what is stored: minutes the picker does not offer   *)
(* are replaced, those of a session underway too, whose end is kept.  The  *)
(* slip: "logged" is not stored.                                           *)
Offered(timer) ==
    IF timer.minutes \in Durations THEN timer ELSE [timer EXCEPT !.minutes = Usual]
Settle(timer) == IF Over(timer) THEN Ended(timer) ELSE timer

Unlogged(timer) == Settle([Offered(timer) EXCEPT !.logged = FALSE])
Load(timer) == Settle(Offered(timer))

OpenTab(t) ==
    /\ t \notin Open
    /\ Becomes(t, Load(stored)) /\ Same
    /\ UNCHANGED <<planned, phase>>

(* The sessions a tab has sent and waits to hear of, or says have failed.  *)
Awaited(t) ==
    {s \in Sessions :
        \/ failed[t] = s
        \/ \E r \in Requests : request[r].pc = "log" /\ request[r].tab = t
                               /\ request[r].session = s}

(* Closed or refreshed: its requests may still arrive, or be cut off.      *)
CloseTab(t) ==
    /\ t \in Open
    /\ tab' = [tab EXCEPT ![t] = Closed]
    /\ failed' = [failed EXCEPT ![t] = NoSession]
    /\ \E kept \in SUBSET Requests :
          request' = [r \in Requests |->
              IF request[r] = Free \/ request[r].tab # t THEN request[r]
              ELSE IF r \in kept /\ request[r].pc = "log"
              THEN [request[r] EXCEPT !.tab = Closed] ELSE Free]
    /\ unheard' = unheard \cup (Awaited(t) \ crowded)
    /\ UNCHANGED <<stored, log, focused, planned, phase, crowded>>

-----------------------------------------------------------------------------
(* TimerProvider.                                                          *)

(* The account's default arrives, or changes: it moves an idle timer only. *)
(* The slip: whatever the timer does.                                      *)
AnyTimer(timer) == TRUE
TakesDefault(timer) == timer.status = "idle"

DefaultArrives(t, minutes) ==
    /\ t \in Open /\ TakesDefault(tab[t]) /\ tab[t].minutes # minutes
    /\ Change(t, [tab[t] EXCEPT !.minutes = minutes])
    /\ UNCHANGED <<planned, phase>>

(* The tab hears the answer of the last one only.                          *)
Unheard(t, r) ==
    IF request[r].pc = "log" /\ request[r].tab = t
    THEN [request[r] EXCEPT !.tab = Closed]
    ELSE IF request[r].pc = "logged" /\ request[r].tab = t THEN Free ELSE request[r]

Send(t, session, again) ==
    /\ \E q \in Vacant :
          request' = [r \in Requests |->
              IF r = q
              THEN [pc |-> "log", session |-> session, minutes |-> tab[t].minutes,
                    again |-> again, tab |-> t]
              ELSE Unheard(t, r)]
    /\ failed' = [failed EXCEPT ![t] = NoSession]
    /\ unheard' = unheard \cup (Awaited(t) \ ({session} \cup crowded))

(* The effect of a finished session: marked as logged, then sent.          *)
Record(t) ==
    /\ t \in Open /\ tab[t].status = "done" /\ ~ tab[t].logged
    /\ Becomes(t, [tab[t] EXCEPT !.logged = TRUE])
    /\ Send(t, tab[t].session, FALSE)
    /\ Enters(tab[t].session, "finished")
    /\ UNCHANGED <<log, focused, planned>>

(* The button under the notice sends what the timer is set to now.         *)
RetryLog(t) ==
    /\ t \in Open /\ failed[t] # NoSession
    /\ Send(t, failed[t], TRUE)
    /\ UNCHANGED <<screen, log, focused, planned, phase, crowded>>

-----------------------------------------------------------------------------
(* The capture prompt, open while a session is done.                       *)

Asking(t, s) == Holds(t, s) /\ tab[t].status = "done"

Skip(t) ==
    /\ t \in Open /\ tab[t].status = "done" /\ tab[t].logged
    /\ Change(t, Fresh(tab[t].minutes))
    /\ UNCHANGED <<planned, phase>>

SaveCapture(t) ==
    /\ t \in Open /\ tab[t].status = "done" /\ tab[t].logged
    /\ LET capture == [pc |-> "capture", session |-> tab[t].session, tab |-> t]
       IN  /\ \A r \in Requests : request[r] # capture
           /\ \E r \in Vacant : request' = [request EXCEPT ![r] = capture]
    /\ UNCHANGED <<screen, failed, log, observers>>

(* The note was created: a prompt that is still open closes and resets the *)
(* timer; one that was dismissed meanwhile does nothing more.  The slip:   *)
(* the answer is not tied to its prompt.                                   *)
AnyPrompt(t, s) == t \in Open
PromptOf(t, s) == Asking(t, s)

Captured(r) ==
    /\ request[r].pc = "capture"
    /\ request' = [request EXCEPT ![r] = Free]
    /\ LET t == request[r].tab
       IN  IF PromptOf(t, request[r].session)
           THEN Becomes(t, Fresh(tab[t].minutes))
           ELSE UNCHANGED <<tab, stored, crowded>>
    /\ UNCHANGED <<failed, log, focused, planned, phase, unheard>>

-----------------------------------------------------------------------------
(* The server, and its answers.                                            *)

InsertSession(r) ==
    /\ request[r].pc = "log"
    /\ \E w \in Rows :
          /\ log[w] = NoRow
          /\ log' = [log EXCEPT ![w] =
                 [session |-> request[r].session, minutes |-> request[r].minutes,
                  again |-> request[r].again]]
    /\ request' = [request EXCEPT ![r] =
           IF @.tab = Closed THEN Free ELSE [@ EXCEPT !.pc = "logged"]]
    /\ UNCHANGED <<screen, failed, observers>>

Succeeds(r) ==
    /\ request[r].pc = "logged"
    /\ request' = [request EXCEPT ![r] = Free]
    /\ UNCHANGED <<screen, failed, log, observers>>

(* Refused, unreachable, or the answer lost after the insert.              *)
Fails(r) ==
    /\ request[r] # Free
    /\ request' = [request EXCEPT ![r] = Free]
    /\ failed' = [t \in Tabs |->
           IF request[r].pc # "capture" /\ request[r].tab = t
           THEN request[r].session ELSE failed[t]]
    /\ UNCHANGED <<screen, log, observers>>

Next ==
    \/ Advance
    \/ \E t \in Tabs :
          \/ \E minutes \in Durations : SetDuration(t, minutes)
          \/ \E minutes \in Defaults : DefaultArrives(t, minutes)
          \/ Start(t) \/ Pause(t) \/ Resume(t) \/ Reset(t) \/ Tick(t)
          \/ OpenTab(t) \/ CloseTab(t)
          \/ Record(t) \/ RetryLog(t) \/ Skip(t) \/ SaveCapture(t)
    \/ \E r \in Requests :
          Captured(r) \/ InsertSession(r) \/ Succeeds(r) \/ Fails(r)

Spec == Init /\ [][Next]_vars

-----------------------------------------------------------------------------
(* A session is recorded on its own only after it has run the minutes it   *)
(* was started for, and as those minutes when the picker offers them,      *)
(* whatever was paused, reloaded, throttled or changed in the settings     *)
(* meanwhile (useTimer.ts:75-83, TimerProvider.tsx:47-48).                 *)
NeverEarly ==
    \A w \in Rows :
        log[w] # NoRow /\ ~ log[w].again =>
            LET s == log[w].session
            IN  /\ focused[s] >= planned[s]
                /\ planned[s] \in Durations => log[w].minutes = planned[s]

(* It is recorded on its own once, refreshed or not, and not sent again    *)
(* once it is, unless two tabs were open (TimerProvider.tsx:64-69).        *)
Sending(s) == {r \in Requests : request[r].pc = "log" /\ ~ request[r].again
                                /\ request[r].session = s}
Recorded(s) == {w \in Rows : log[w] # NoRow /\ ~ log[w].again /\ log[w].session = s}

RecordedOnce ==
    \A s \in Sessions \ crowded :
        /\ \A v, w \in Recorded(s) : v = w
        /\ Recorded(s) # {} => Sending(s) = {}

(* A session nobody gave up is held by a tab or the storage until it is    *)
(* sent; from then on it is in the log, on its way, or shown as failed,    *)
(* unless its tab was closed, or sent another session, before it heard     *)
(* that this one is recorded, or two tabs were open: no refresh, no late   *)
(* answer to a prompt, no retry and no new default loses it                *)
(* (useTimer.ts:44-49, TimerProvider.tsx:26).                              *)
InLog(s) == \E w \in Rows : log[w] # NoRow /\ log[w].session = s
Accounted(s) == InLog(s) \/ \E t \in Open : s \in Awaited(t)

SessionIsHeld ==
    \A s \in Sessions \ crowded :
        /\ phase[s] = "underway" => stored.session = s \/ \E t \in Tabs : Holds(t, s)
        /\ phase[s] = "finished" /\ s \notin unheard => Accounted(s)

-----------------------------------------------------------------------------
(* What the comments say and the code does not do.                         *)

(* What the log says was focused was focused, retried or not: "The         *)
(* finished session failed to record. The user can retry."                 *)
(* (TimerProvider.tsx:26).                                                 *)
RetryRecordsTheSession ==
    \A w \in Rows :
        log[w] # NoRow => focused[log[w].session] >= log[w].minutes

(* A session that comes back finished ran the minutes it is recorded as:   *)
(* "the twenty minutes really did pass" (useTimer.ts:47).                  *)
RestoredMinutesPassed ==
    \A w \in Rows :
        log[w] # NoRow /\ ~ log[w].again => focused[log[w].session] >= log[w].minutes

(* "A finished session is recorded exactly once" (TimerProvider.tsx:64):   *)
(* it is in the log, on its way there, or shown as failed.                 *)
FinishedIsRecorded ==
    \A s \in Sessions : phase[s] = "finished" => Accounted(s)

(* "A finished session is recorded exactly once" (TimerProvider.tsx:64):   *)
(* no two rows are of one session.                                         *)
FinishedIsRecordedOnce ==
    \A s \in Sessions : \A v, w \in Recorded(s) : v = w
=============================================================================
