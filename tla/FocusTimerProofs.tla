-------------------------- MODULE FocusTimerProofs --------------------------
(* Proofs about FocusTimer, for any number of tabs, sessions, requests and *)
(* rows, and for any durations.                                            *)
EXTENDS FocusTimer, TLAPS

-----------------------------------------------------------------------------
(* The inductive invariant.                                                *)

(* Every copy of a timer: the open tabs' and the stored one.               *)
Kept == {tab[t] : t \in Open} \cup {stored}

(* What a session is over: sent to be recorded, or given up.               *)
IsOver(s) == phase[s] \in {"finished", "dropped"}

(* Minutes a session of these planned ones may carry.                      *)
Fits(s, minutes) ==
    /\ phase[s] # "new"
    /\ planned[s] \in Durations => minutes = planned[s]

Sound(timer) ==
    /\ timer.status = "idle" <=> timer.session = NoSession
    /\ timer.status # "idle" => Fits(timer.session, timer.minutes)
    /\ timer.status \in {"running", "paused"} =>
          ~ timer.logged /\ focused[timer.session] + timer.left >= planned[timer.session]
    /\ timer.status = "done" => focused[timer.session] >= planned[timer.session]
    /\ timer.status = "done" /\ timer.logged => IsOver(timer.session)

TimersSound == \A timer \in Kept : Sound(timer)

(* What is recorded of a session on its own.                               *)
Due(s, minutes) == Fits(s, minutes) /\ focused[s] >= planned[s]

RequestSound(r) ==
    /\ request[r].pc = "log" /\ ~ request[r].again =>
          Due(request[r].session, request[r].minutes)
    /\ request[r].pc = "capture" => IsOver(request[r].session)
RequestsSound == \A r \in Requests : RequestSound(r)

RowsSound ==
    \A w \in Rows :
        log[w] # NoRow /\ ~ log[w].again => Due(log[w].session, log[w].minutes)

(* A session that is underway in one tab at most is all there is.          *)
Held ==
    \A s \in Sessions \ crowded :
        phase[s] = "underway" => \A timer \in Kept : timer.session = s

Evidence(s) == Sending(s) # {} \/ Recorded(s) # {}
Settled(timer) == timer.status = "done" /\ timer.logged

Single(s) ==
    /\ \A r, q \in Sending(s) : r = q
    /\ \A v, w \in Recorded(s) : v = w
    /\ Sending(s) = {} \/ Recorded(s) = {}
Final(s) ==
    /\ IsOver(s)
    /\ \A timer \in Kept : timer.session = s => Settled(timer)

Once ==
    \A s \in Sessions \ crowded : Single(s) /\ (Evidence(s) => Final(s))

IInv == TypeOK /\ RowsSound /\ TimersSound /\ RequestsSound /\ Held /\ Once

-----------------------------------------------------------------------------
(* Records.                                                                *)

LEMMA TimerShape ==
    ASSUME NEW timer \in Timer
    PROVE  /\ timer.status \in {"idle", "running", "paused", "done"}
           /\ timer.minutes \in Minutes /\ timer.minutes \in Nat
           /\ timer.left \in Nat /\ timer.logged \in BOOLEAN
           /\ timer.session \in Sessions \cup {NoSession}
  BY DurationsAssumption DEF Timer, Minutes

LEMMA FreshShape ==
    ASSUME NEW minutes \in Minutes
    PROVE  /\ Fresh(minutes) \in Timer /\ Fresh(minutes).status = "idle"
           /\ Fresh(minutes).session = NoSession
  BY DEF Fresh, Timer

LEMMA MinutesShape ==
    ASSUME NEW timer \in Timer, NEW minutes \in Minutes
    PROVE  /\ [timer EXCEPT !.minutes = minutes] \in Timer
           /\ [timer EXCEPT !.minutes = minutes].status = timer.status
           /\ [timer EXCEPT !.minutes = minutes].session = timer.session
  BY DEF Timer

(* The same updates, named.                                                *)
WithStatus(timer, status) == [timer EXCEPT !.status = status]
Marked(timer) == [timer EXCEPT !.logged = TRUE]
Begun(timer, s) == [timer EXCEPT !.status = "running", !.left = timer.minutes,
                                 !.logged = FALSE, !.session = s]

LEMMA StatusShape ==
    ASSUME NEW timer \in Timer, NEW status \in {"running", "paused", "done"},
           NEW new, new = WithStatus(timer, status)
    PROVE  /\ new \in Timer /\ new.status = status
           /\ new.session = timer.session /\ new.minutes = timer.minutes
           /\ new.left = timer.left /\ new.logged = timer.logged
  BY DEF Timer, WithStatus

LEMMA MarkedShape ==
    ASSUME NEW timer \in Timer, NEW new, new = Marked(timer)
    PROVE  /\ new \in Timer /\ new.status = timer.status
           /\ new.session = timer.session /\ new.minutes = timer.minutes
           /\ new.left = timer.left /\ new.logged
  BY DEF Timer, Marked

LEMMA BegunShape ==
    ASSUME NEW timer \in Timer, NEW s \in Sessions, NEW new, new = Begun(timer, s)
    PROVE  /\ new \in Timer /\ new.status = "running" /\ new.session = s
           /\ new.left = new.minutes /\ new.minutes = timer.minutes /\ ~ new.logged
  BY TimerShape DEF Timer, Begun

LEMMA LaterShape ==
    ASSUME NEW timer \in Timer
    PROVE  /\ Later(timer) \in Timer
           /\ Later(timer).status = timer.status /\ Later(timer).logged = timer.logged
           /\ Later(timer).session = timer.session /\ Later(timer).minutes = timer.minutes
           /\ timer.status # "running" => Later(timer).left = timer.left
           /\ Later(timer).left + 1 >= timer.left
<1>1. CASE timer.status = "running" /\ timer.left > 0
  <2>1. timer.left - 1 \in Nat
    BY <1>1, TimerShape
  <2>2. Later(timer) = [timer EXCEPT !.left = timer.left - 1]
    BY <1>1 DEF Later
  <2> QED BY <1>1, <2>1, <2>2 DEF Timer
<1>2. CASE ~ (timer.status = "running" /\ timer.left > 0)
  <2>1. Later(timer) = timer
    BY <1>2 DEF Later
  <2> QED BY <2>1, TimerShape
<1> QED BY <1>1, <1>2

LEMMA LoadShape ==
    ASSUME NEW timer \in Timer
    PROVE  /\ Load(timer) \in Timer
           /\ Load(timer).session = timer.session /\ Load(timer).logged = timer.logged
           /\ Load(timer).left = timer.left
           /\ timer.minutes \in Durations => Load(timer).minutes = timer.minutes
           /\ \/ Load(timer).status = timer.status
              \/ Over(timer) /\ Load(timer).status = "done"
<1>1. PICK read \in Timer :
          /\ read = Offered(timer) /\ read.status = timer.status
          /\ read.session = timer.session /\ read.logged = timer.logged
          /\ read.left = timer.left
          /\ timer.minutes \in Durations => read.minutes = timer.minutes
  <2>1. CASE timer.minutes \in Durations
    BY <2>1 DEF Offered
  <2>2. CASE timer.minutes \notin Durations
    <3>1. Offered(timer) = [timer EXCEPT !.minutes = Usual] /\ Usual \in Minutes
      BY <2>2, DurationsAssumption DEF Offered, Minutes
    <3> QED BY <2>2, <3>1 DEF Timer
  <2> QED BY <2>1, <2>2
<1>2. Load(timer) = IF Over(timer) THEN WithStatus(read, "done") ELSE read
  BY <1>1 DEF Load, Settle, Over, Ended, WithStatus
<1>3. PICK new \in Timer :
          /\ new = WithStatus(read, "done") /\ new.status = "done"
          /\ new.session = read.session /\ new.minutes = read.minutes
          /\ new.left = read.left /\ new.logged = read.logged
  BY <1>1, StatusShape
<1> QED BY <1>1, <1>2, <1>3

LEMMA RequestShape ==
    ASSUME NEW q \in Request
    PROVE  /\ q.pc \in {"free", "log", "logged", "capture"}
           /\ q.pc = "free" <=> q = Free
           /\ q.pc # "free" => q.session \in Sessions /\ q.tab \in Tabs \cup {Closed}
           /\ q.pc \in {"log", "logged"} =>
                 q.minutes \in Minutes /\ q.minutes \in Nat /\ q.again \in BOOLEAN
           /\ q.pc = "capture" => q.tab \in Tabs
<1>1. CASE q = Free
  BY <1>1 DEF Free
<1>2. CASE q \in [pc: {"log", "logged"}, session: Sessions, minutes: Minutes,
                  again: BOOLEAN, tab: Tabs \cup {Closed}]
  <2>1. q.pc \in {"log", "logged"} /\ q.session \in Sessions /\ q.minutes \in Minutes
        /\ q.again \in BOOLEAN /\ q.tab \in Tabs \cup {Closed}
    BY <1>2
  <2>2. q.minutes \in Nat
    BY <2>1, DurationsAssumption DEF Minutes
  <2>3. q # Free
    BY <2>1 DEF Free
  <2> QED BY <2>1, <2>2, <2>3
<1>3. CASE q \in [pc: {"capture"}, session: Sessions, tab: Tabs]
  BY <1>3 DEF Free
<1> QED BY <1>1, <1>2, <1>3 DEF Request

LEMMA FreeShape == Free \in Request /\ Free.pc = "free"
  BY DEF Request, Free

LEMMA LogShape ==
    ASSUME NEW s \in Sessions, NEW minutes \in Minutes, NEW again \in BOOLEAN,
           NEW t \in Tabs
    PROVE  LET q == [pc |-> "log", session |-> s, minutes |-> minutes,
                     again |-> again, tab |-> t]
           IN  /\ q \in Request /\ q.pc = "log" /\ q.session = s
               /\ q.minutes = minutes /\ q.again = again
  BY DEF Request

LEMMA CaptureShape ==
    ASSUME NEW s \in Sessions, NEW t \in Tabs
    PROVE  LET q == [pc |-> "capture", session |-> s, tab |-> t]
           IN  q \in Request /\ q.pc = "capture" /\ q.session = s
  BY DEF Request

(* A request that goes on, if at all, as what it was.                      *)
Keeps(q, p) ==
    \/ p.pc \notin {"log", "capture"}
    \/ /\ p.pc = q.pc /\ p.session = q.session
       /\ p.pc = "log" => p.minutes = q.minutes /\ p.again = q.again

LEMMA LeftShape ==
    ASSUME NEW q \in Request, q.pc = "log"
    PROVE  [q EXCEPT !.tab = Closed] \in Request /\ Keeps(q, [q EXCEPT !.tab = Closed])
<1>1. q \in [pc: {"log", "logged"}, session: Sessions, minutes: Minutes,
             again: BOOLEAN, tab: Tabs \cup {Closed}]
  BY DEF Request, Free
<1> QED BY <1>1 DEF Request, Keeps

LEMMA LandedShape ==
    ASSUME NEW q \in Request, q.pc = "log"
    PROVE  [q EXCEPT !.pc = "logged"] \in Request /\ Keeps(q, [q EXCEPT !.pc = "logged"])
<1>1. q \in [pc: {"log", "logged"}, session: Sessions, minutes: Minutes,
             again: BOOLEAN, tab: Tabs \cup {Closed}]
  BY DEF Request, Free
<1> QED BY <1>1 DEF Request, Keeps

LEMMA UnheardShape ==
    ASSUME TypeOK, NEW t \in Tabs, NEW r \in Requests
    PROVE  Unheard(t, r) \in Request /\ Keeps(request[r], Unheard(t, r))
<1> DEFINE q == request[r]
<1>1. q \in Request
  BY DEF TypeOK
<1>2. CASE q.pc = "log" /\ q.tab = t
  <2>1. Unheard(t, r) = [q EXCEPT !.tab = Closed]
    BY <1>2 DEF Unheard
  <2> QED BY <1>1, <1>2, <2>1, LeftShape
<1>3. CASE q.pc = "logged" /\ q.tab = t
  BY <1>3, FreeShape DEF Unheard, Keeps
<1>4. CASE ~ (q.pc = "log" /\ q.tab = t) /\ ~ (q.pc = "logged" /\ q.tab = t)
  BY <1>1, <1>4 DEF Unheard, Keeps
<1> QED BY <1>2, <1>3, <1>4

LEMMA TabShape ==
    ASSUME TypeOK, NEW t \in Open
    PROVE  tab[t] \in Timer /\ tab[t] \in Kept /\ t \in Tabs
  BY DEF TypeOK, Open, Kept

LEMMA KeptShape == TypeOK => Kept \subseteq Timer
  BY DEF TypeOK, Open, Kept

-----------------------------------------------------------------------------
(* What steps have in common: time and phases go one way, and a request    *)
(* that goes on is what it was.                                            *)

Ages ==
    /\ focused' \in [Sessions -> Nat]
    /\ planned' \in [Sessions -> Minutes \cup {0}]
    /\ phase' \in [Sessions -> {"new", "underway", "finished", "dropped"}]
    /\ \A s \in Sessions :
          /\ focused'[s] >= focused[s]
          /\ phase[s] # "new" => phase'[s] # "new" /\ planned'[s] = planned[s]
          /\ IsOver(s) => IsOver(s)'
GoesOn ==
    /\ request' \in [Requests -> Request]
    /\ \A r \in Requests : Keeps(request[r], request'[r])

LEMMA StillAges ==
    TypeOK /\ UNCHANGED <<focused, planned, phase>> => Ages
  BY DEF TypeOK, Ages, IsOver

LEMMA OverAges ==
    ASSUME TypeOK, UNCHANGED <<focused, planned>>, NEW s,
           NEW stage \in {"finished", "dropped"}, Enters(s, stage)
    PROVE  Ages
<1>1. phase' \in [Sessions -> {"new", "underway", "finished", "dropped"}]
      /\ \A u \in Sessions : phase'[u] = phase[u] \/ phase'[u] = stage
  BY DEF TypeOK, Enters
<1>2. \A u \in Sessions : focused[u] \in Nat /\ focused'[u] = focused[u]
  BY DEF TypeOK
<1>3. \A u \in Sessions : /\ phase[u] # "new" => phase'[u] # "new"
                          /\ IsOver(u) => IsOver(u)'
  BY <1>1 DEF IsOver
<1> QED BY <1>1, <1>2, <1>3 DEF Ages, TypeOK

LEMMA StillGoesOn ==
    TypeOK /\ UNCHANGED request => GoesOn
  BY DEF TypeOK, GoesOn, Keeps

LEMMA PlannedShape ==
    ASSUME TypeOK, NEW s \in Sessions
    PROVE  planned[s] \in Nat /\ focused[s] \in Nat
  BY DurationsAssumption DEF TypeOK, Minutes

LEMMA DueStays ==
    ASSUME TypeOK, Ages, NEW s \in Sessions, NEW minutes, Due(s, minutes)
    PROVE  Due(s, minutes)'
<1>1. focused'[s] \in Nat /\ focused'[s] >= focused[s] /\ planned'[s] = planned[s]
      /\ phase'[s] # "new"
  BY DEF Ages, Due, Fits
<1> QED BY <1>1, PlannedShape DEF Due, Fits

LEMMA SoundStays ==
    ASSUME TypeOK, Ages, NEW timer \in Timer, Sound(timer)
    PROVE  Sound(timer)'
<1>1. timer.left \in Nat /\ timer.session \in Sessions \cup {NoSession}
      /\ timer.status \in {"idle", "running", "paused", "done"}
  BY TimerShape
<1>2. CASE timer.session \in Sessions
  <2> DEFINE s == timer.session
  <2>1. timer.status # "idle" /\ phase[s] # "new"
    BY <1>2, NullAssumption DEF Sound, Fits
  <2>2. focused'[s] \in Nat /\ focused[s] \in Nat /\ focused'[s] >= focused[s]
        /\ planned'[s] = planned[s] /\ planned[s] \in Nat /\ phase'[s] # "new"
        /\ (IsOver(s) => IsOver(s)')
    BY <1>2, <2>1, PlannedShape DEF Ages
  <2>3. Fits(s, timer.minutes)'
    BY <2>1, <2>2 DEF Sound, Fits
  <2>4. timer.status \in {"running", "paused"} =>
           ~ timer.logged /\ focused'[s] + timer.left >= planned'[s]
    BY <1>1, <2>2 DEF Sound
  <2>5. timer.status = "done" => focused'[s] >= planned'[s]
    BY <2>2 DEF Sound
  <2>6. timer.status = "done" /\ timer.logged => IsOver(s)'
    BY <2>2 DEF Sound
  <2> QED BY <2>1, <2>3, <2>4, <2>5, <2>6, <1>2, NullAssumption DEF Sound
<1>3. CASE timer.session = NoSession
  BY <1>1, <1>3 DEF Sound
<1> QED BY <1>1, <1>2, <1>3

LEMMA RequestsStaySound ==
    ASSUME TypeOK, Ages, GoesOn, RequestsSound
    PROVE  RequestsSound'
<1> SUFFICES ASSUME NEW r \in Requests
             PROVE  RequestSound(r)'
  BY DEF RequestsSound
<1> DEFINE q == request[r]
           p == request'[r]
<1>1. q \in Request /\ p \in Request /\ Keeps(q, p)
  BY DEF TypeOK, GoesOn
<1>2. CASE p.pc = "log" /\ ~ p.again
  <2>1. q.pc = "log" /\ q.session = p.session /\ q.minutes = p.minutes /\ ~ q.again
    BY <1>1, <1>2 DEF Keeps
  <2>2. PICK s \in Sessions, minutes \in Minutes : s = q.session /\ minutes = q.minutes
    BY <1>1, <2>1, RequestShape
  <2>3. Due(s, minutes)
    BY <2>1, <2>2 DEF RequestsSound, RequestSound
  <2>4. Due(s, minutes)'
    BY <2>3, DueStays
  <2>5. s = p.session /\ minutes = p.minutes
    BY <2>1, <2>2
  <2> QED BY <1>2, <2>4, <2>5 DEF RequestSound, Due, Fits
<1>3. CASE p.pc = "capture"
  <2>1. q.pc = "capture" /\ q.session = p.session
    BY <1>1, <1>3 DEF Keeps
  <2>2. PICK s \in Sessions : s = q.session
    BY <1>1, <2>1, RequestShape
  <2>3. IsOver(s)'
    BY <2>1, <2>2 DEF RequestsSound, RequestSound, Ages
  <2>4. s = p.session
    BY <2>1, <2>2
  <2> QED BY <1>3, <2>3, <2>4 DEF RequestSound, IsOver
<1> QED BY <1>2, <1>3 DEF RequestSound

LEMMA SendingShrinks ==
    ASSUME GoesOn, NEW s \in Sessions
    PROVE  Sending(s)' \subseteq Sending(s)
  BY DEF GoesOn, Keeps, Sending

(* The rows written so far hold as long as time goes forward.              *)
LEMMA RowsStay ==
    ASSUME TypeOK, Ages, UNCHANGED log, RowsSound
    PROVE  RowsSound'
<1> SUFFICES ASSUME NEW w \in Rows, log[w] # NoRow, ~ log[w].again
             PROVE  Due(log[w].session, log[w].minutes)'
  BY DEF RowsSound
<1>1. PICK s \in Sessions, minutes \in Minutes :
          s = log[w].session /\ minutes = log[w].minutes
  <2>1. log[w] \in [session: Sessions, minutes: Minutes, again: BOOLEAN]
    BY DEF TypeOK, Row
  <2> QED BY <2>1
<1>2. Due(s, minutes)
  BY <1>1 DEF RowsSound
<1>3. Due(s, minutes)'
  BY <1>2, DueStays
<1> QED BY <1>1, <1>3

LEMMA OnceStays ==
    ASSUME Ages, UNCHANGED log, Once, NEW s \in Sessions \ crowded,
           Sending(s)' \subseteq Sending(s),
           Final(s) => \A timer \in Kept' : timer.session = s => Settled(timer)
    PROVE  Single(s)' /\ (Evidence(s) => Final(s))'
<1>1. Sending(s)' \subseteq Sending(s) /\ Recorded(s)' = Recorded(s)
  BY DEF Recorded
<1>2. Single(s) /\ (Evidence(s) => Final(s))
  BY DEF Once
<1>3. Single(s)'
  BY <1>1, <1>2 DEF Single
<1>4. ASSUME Evidence(s)' PROVE Final(s)'
  <2>1. Final(s)
    BY <1>1, <1>2, <1>4 DEF Evidence
  <2> QED BY <2>1 DEF Final, Ages
<1> QED BY <1>3, <1>4

(* A step that leaves the timers, the table and the clock alone.           *)
LEMMA ScreenStays ==
    ASSUME IInv, TypeOK', RequestsSound', Kept' \subseteq Kept,
           UNCHANGED <<log, focused, planned, phase, crowded>>,
           \A s \in Sessions : Sending(s)' \subseteq Sending(s)
    PROVE  IInv'
<1> USE DEF IInv
<1>1. Ages
  BY StillAges
<1>2. TimersSound'
  <2> SUFFICES ASSUME NEW other \in Kept' PROVE Sound(other)'
    BY DEF TimersSound
  <2>1. other \in Timer /\ Sound(other)
    BY KeptShape DEF TimersSound
  <2> QED BY <1>1, <2>1, SoundStays
<1>3. Held'
  BY DEF Held
<1>4. Once'
  <2> SUFFICES ASSUME NEW s \in Sessions, s \notin crowded
               PROVE  Single(s)' /\ (Evidence(s) => Final(s))'
    BY DEF Once
  <2>1. s \in Sessions \ crowded
    OBVIOUS
  <2>2. Final(s) => \A other \in Kept' : other.session = s => Settled(other)
    BY DEF Final
  <2> QED BY <1>1, <2>1, <2>2, OnceStays
<1> QED BY <1>1, <1>2, <1>3, <1>4, RowsStay

-----------------------------------------------------------------------------
(* A step in which one tab changes its timer.                              *)

LEMMA BecomesShape ==
    ASSUME TypeOK, NEW t \in Tabs, NEW timer \in Timer, Becomes(t, timer)
    PROVE  /\ tab' \in [Tabs -> Timer \cup {Closed}] /\ stored' \in Timer
           /\ crowded' \subseteq Sessions /\ crowded \subseteq crowded'
           /\ Kept' \subseteq Kept \cup {timer}
           /\ Open \subseteq {t} => Kept' \subseteq {timer}
           /\ \A s \in Sessions : ~ (Open \subseteq {t}) /\ timer.session = s =>
                 s \in crowded'
<1>1. Open' \subseteq Open \cup {t}
      /\ \A u \in Open' : u # t => tab'[u] = tab[u]
  BY DEF Becomes, TypeOK, Open
<1>2. tab'[t] = timer /\ stored' = timer
  BY DEF Becomes, TypeOK
<1>3. Kept' \subseteq Kept \cup {timer} /\ (Open \subseteq {t} => Kept' \subseteq {timer})
  BY <1>1, <1>2 DEF Kept
<1> QED BY <1>3 DEF Becomes, TypeOK

LEMMA BecomesKeeps ==
    ASSUME IInv, NEW t \in Tabs, NEW timer \in Timer, Becomes(t, timer),
           UNCHANGED <<failed, log, focused, unheard>>, GoesOn, Ages, Sound(timer)',
           \A s \in Sessions \ crowded : phase'[s] = "underway" => timer.session = s,
           \A s \in Sessions \ crowded : Final(s) /\ timer.session = s => Settled(timer)
    PROVE  IInv'
<1> USE DEF IInv
<1>1. TypeOK'
  BY BecomesShape DEF TypeOK, GoesOn, Ages
<1>2. TimersSound'
  <2> SUFFICES ASSUME NEW other \in Kept' PROVE Sound(other)'
    BY DEF TimersSound
  <2>1. CASE other \in Kept
    <3>1. other \in Timer /\ Sound(other)
      BY <2>1, KeptShape DEF TimersSound
    <3> QED BY <3>1, SoundStays
  <2> QED BY <2>1, BecomesShape
<1>3. Held'
  <2> SUFFICES ASSUME NEW s \in Sessions, s \notin crowded', phase'[s] = "underway",
                      NEW other \in Kept'
               PROVE  other.session = s
    BY DEF Held
  <2>1. s \notin crowded /\ timer.session = s
    BY BecomesShape
  <2>2. Open \subseteq {t}
    BY <2>1, BecomesShape
  <2> QED BY <2>1, <2>2, BecomesShape
<1>4. Once'
  <2> SUFFICES ASSUME NEW s \in Sessions, s \notin crowded'
               PROVE  Single(s)' /\ (Evidence(s) => Final(s))'
    BY DEF Once
  <2>1. s \in Sessions \ crowded
    BY BecomesShape
  <2>2. Final(s) => \A other \in Kept' : other.session = s => Settled(other)
    BY <2>1, BecomesShape DEF Final
  <2> QED BY <2>1, <2>2, OnceStays, SendingShrinks
<1> QED BY <1>1, <1>2, <1>3, <1>4, RequestsStaySound, RowsStay

-----------------------------------------------------------------------------
(* The steps of the clock, the buttons and the settings.                   *)

LEMMA Started == Init => IInv
<1> SUFFICES ASSUME Init PROVE IInv
  OBVIOUS
<1>1. PICK minutes \in Minutes : stored = Fresh(minutes)
  BY DEF Init, Minutes
<1>2. TypeOK
  BY <1>1, FreshShape, FreeShape DEF Init, TypeOK, Row
<1>3. Kept = {Fresh(minutes)}
  BY <1>1 DEF Init, Kept, Open
<1>4. TimersSound
  BY <1>3, FreshShape DEF TimersSound, Sound
<1>5. RequestsSound /\ RowsSound /\ Held
  BY FreeShape DEF Init, RequestsSound, RequestSound, RowsSound, Held
<1>6. \A s \in Sessions : Sending(s) = {} /\ Recorded(s) = {}
  BY FreeShape DEF Init, Sending, Recorded
<1>7. Once
  BY <1>6 DEF Once, Single, Evidence
<1> QED BY <1>2, <1>4, <1>5, <1>7 DEF IInv

LEMMA SetKeeps ==
    ASSUME IInv, NEW t \in Tabs, NEW minutes \in Minutes,
           SetDuration(t, minutes) \/ DefaultArrives(t, minutes)
    PROVE  IInv'
<1>1. t \in Open /\ tab[t].status = "idle" /\ UNCHANGED <<planned, phase>>
      /\ Change(t, [tab[t] EXCEPT !.minutes = minutes])
  BY DEF SetDuration, DefaultArrives, TakesDefault
<1>2. tab[t] \in Timer /\ tab[t] \in Kept /\ Sound(tab[t])
  BY <1>1, TabShape DEF IInv, TimersSound
<1>3. PICK timer \in Timer : /\ timer.status = "idle" /\ timer.session = tab[t].session
                             /\ Change(t, timer)
  BY <1>1, <1>2, MinutesShape
<1>4. tab[t].session = NoSession
  BY <1>1, <1>2 DEF Sound
<1>5. Sound(timer)'
  BY <1>3, <1>4 DEF Sound
<1>6. Becomes(t, timer) /\ Same /\ Ages /\ GoesOn
  BY <1>1, <1>3, StillAges, StillGoesOn DEF Change, Same, IInv
<1>7. \A s \in Sessions \ crowded : phase'[s] = "underway" => timer.session = s
  BY <1>1, <1>2, <1>3 DEF IInv, Held
<1>8. \A s \in Sessions : timer.session # s
  BY <1>3, <1>4, NullAssumption
<1> QED BY <1>3, <1>5, <1>6, <1>7, <1>8, BecomesKeeps DEF Same

LEMMA StartKeeps ==
    ASSUME IInv, NEW t \in Tabs, Start(t)
    PROVE  IInv'
<1>1. PICK new \in Sessions :
          /\ phase[new] = "new" /\ phase' = [phase EXCEPT ![new] = "underway"]
          /\ planned' = [planned EXCEPT ![new] = tab[t].minutes]
          /\ Change(t, Begun(tab[t], new))
  BY DEF Start, Begun, Enters
<1>2. t \in Open /\ tab[t].status = "idle" /\ tab[t] \in Timer /\ tab[t] \in Kept
  BY TabShape DEF Start, IInv
<1>3. PICK timer \in Timer : /\ timer.status = "running" /\ timer.session = new
                             /\ timer.left = timer.minutes /\ ~ timer.logged
                             /\ timer.minutes = tab[t].minutes
                             /\ Change(t, timer)
  BY <1>1, <1>2, BegunShape
<1>4. Becomes(t, timer) /\ Same
  BY <1>3 DEF Change
<1>5. Ages
  <2>1. planned' \in [Sessions -> Minutes \cup {0}]
    BY <1>1, <1>2, TimerShape DEF IInv, TypeOK
  <2>2. \A s \in Sessions : phase[s] # "new" =>
           phase'[s] = phase[s] /\ planned'[s] = planned[s]
    BY <1>1 DEF IInv, TypeOK
  <2>3. phase' \in [Sessions -> {"new", "underway", "finished", "dropped"}]
    BY <1>1 DEF IInv, TypeOK
  <2>4. focused' \in [Sessions -> Nat]
        /\ \A s \in Sessions : focused'[s] \in Nat /\ focused'[s] = focused[s]
    BY <1>4 DEF Same, IInv, TypeOK
  <2> QED BY <2>1, <2>2, <2>3, <2>4 DEF Ages, IsOver
<1>6. GoesOn
  BY <1>4, StillGoesOn DEF Same, IInv
<1>7. Sound(timer)'
  <2>1. focused'[new] \in Nat /\ timer.minutes \in Nat
    BY <1>3, <1>5, TimerShape DEF Ages
  <2>2. planned'[new] = timer.minutes /\ phase'[new] = "underway"
    BY <1>1, <1>3 DEF IInv, TypeOK
  <2>3. focused'[new] + timer.left >= planned'[new]
    BY <1>3, <2>1, <2>2
  <2> QED BY <1>3, <2>2, <2>3, NullAssumption DEF Sound, Fits
<1>8. tab[t].session = NoSession
  BY <1>2 DEF IInv, TimersSound, Sound
<1>9. \A s \in Sessions \ crowded : phase'[s] = "underway" => timer.session = s
  <2> SUFFICES ASSUME NEW s \in Sessions, s \notin crowded, phase'[s] = "underway", s # new
               PROVE  FALSE
    BY <1>3
  <2>1. phase[s] = "underway"
    BY <1>1 DEF IInv, TypeOK
  <2>2. tab[t].session = s
    BY <1>2, <2>1 DEF IInv, Held
  <2> QED BY <1>8, <2>2, NullAssumption
<1>10. \A s \in Sessions \ crowded : Final(s) /\ timer.session = s => Settled(timer)
  BY <1>1, <1>3 DEF Final, IsOver
<1> QED BY <1>3, <1>4, <1>5, <1>6, <1>7, <1>9, <1>10, BecomesKeeps DEF Same

(* Pausing, resuming and ending change the status of a session underway.   *)
LEMMA StatusKeeps ==
    ASSUME IInv, NEW t \in Tabs, Pause(t) \/ Resume(t) \/ Tick(t)
    PROVE  IInv'
<1>1. PICK status \in {"running", "paused", "done"} :
          /\ Change(t, WithStatus(tab[t], status))
          /\ status = "done" => tab[t].left = 0
  BY DEF Pause, Resume, Tick, Over, Ended, WithStatus
<1>2. t \in Open /\ tab[t].status \in {"running", "paused"} /\ UNCHANGED <<planned, phase>>
      /\ tab[t] \in Timer /\ tab[t] \in Kept /\ Sound(tab[t])
  BY TabShape DEF Pause, Resume, Tick, Over, IInv, TimersSound
<1>3. PICK timer \in Timer :
          /\ Change(t, timer) /\ timer.status = status
          /\ timer.session = tab[t].session /\ timer.minutes = tab[t].minutes
          /\ timer.left = tab[t].left /\ timer.logged = tab[t].logged
  BY <1>1, <1>2, StatusShape
<1>4. Becomes(t, timer) /\ Same
  BY <1>3 DEF Change
<1>5. Ages /\ GoesOn
  BY <1>2, <1>4, StillAges, StillGoesOn DEF Same, IInv
<1>6. tab[t].session \in Sessions
  BY <1>2, TimerShape DEF Sound
<1>7. \A s \in Sessions \ crowded : phase'[s] = "underway" => timer.session = s
  BY <1>2, <1>3 DEF IInv, Held
<1>8. \A s \in Sessions \ crowded : Final(s) /\ timer.session = s => Settled(timer)
  BY <1>2, <1>3 DEF Final, Settled
<1>9. Sound(timer)'
  <2>1. tab[t].left \in Nat /\ tab[t].logged \in BOOLEAN
        /\ focused[tab[t].session] \in Nat /\ planned[tab[t].session] \in Nat
    BY <1>2, <1>6, TimerShape, PlannedShape DEF IInv
  <2>2. focused[tab[t].session] + tab[t].left >= planned[tab[t].session]
        /\ Fits(tab[t].session, tab[t].minutes)
    BY <1>2 DEF Sound
  <2>3. ~ tab[t].logged /\ (status = "done" => tab[t].left = 0)
    BY <1>1, <1>2 DEF Sound
  <2>4. focused' = focused
    BY <1>4 DEF Same
  <2> QED BY <1>2, <1>3, <1>6, <2>1, <2>2, <2>3, <2>4, NullAssumption DEF Sound, Fits
<1> QED BY <1>3, <1>4, <1>5, <1>7, <1>8, <1>9, BecomesKeeps DEF Same

(* A tab that returns to a fresh timer: its session is over.               *)
LEMMA FreshKeeps ==
    ASSUME IInv, NEW t \in Open, Becomes(t, Fresh(tab[t].minutes)),
           UNCHANGED <<failed, log, focused, unheard>>, GoesOn, Ages,
           \A s \in Sessions : phase'[s] = "underway" =>
              phase[s] = "underway" /\ tab[t].session # s
    PROVE  IInv'
<1>1. t \in Tabs /\ tab[t] \in Timer /\ tab[t] \in Kept
  BY TabShape DEF IInv
<1>2. PICK timer \in Timer : timer = Fresh(tab[t].minutes)
  BY <1>1, TimerShape, FreshShape
<1>3. timer.status = "idle" /\ timer.session = NoSession /\ Becomes(t, timer)
  BY <1>1, <1>2, TimerShape, FreshShape
<1>4. Sound(timer)'
  BY <1>3 DEF Sound
<1>5. \A s \in Sessions \ crowded : phase'[s] = "underway" => timer.session = s
  BY <1>1 DEF IInv, Held
<1>6. \A s \in Sessions : timer.session # s
  BY <1>3, NullAssumption
<1> QED BY <1>1, <1>3, <1>4, <1>5, <1>6, BecomesKeeps

LEMMA ResetKeeps ==
    ASSUME IInv, NEW t \in Tabs, Reset(t)
    PROVE  IInv'
<1>1. t \in Open /\ tab[t].status \in {"running", "paused"} /\ Same
      /\ Becomes(t, Fresh(tab[t].minutes))
      /\ Enters(tab[t].session, "dropped") /\ UNCHANGED planned
  BY DEF Reset, Change
<1>2. Ages
  BY <1>1, OverAges DEF Same, IInv
<1>3. GoesOn
  BY <1>1, StillGoesOn DEF Same, IInv
<1>4. \A s \in Sessions : phase'[s] = "underway" =>
         phase[s] = "underway" /\ tab[t].session # s
  BY <1>1 DEF IInv, TypeOK, Enters
<1> QED BY <1>1, <1>2, <1>3, <1>4, FreshKeeps DEF Same

LEMMA SkipKeeps ==
    ASSUME IInv, NEW t \in Tabs, Skip(t)
    PROVE  IInv'
<1>1. t \in Open /\ tab[t].status = "done" /\ tab[t].logged /\ Same
      /\ UNCHANGED <<planned, phase>> /\ Becomes(t, Fresh(tab[t].minutes))
  BY DEF Skip, Change
<1>2. Ages /\ GoesOn
  BY <1>1, StillAges, StillGoesOn DEF Same, IInv
<1>3. phase[tab[t].session] # "underway"
  BY <1>1, TabShape DEF IInv, TimersSound, Sound, IsOver
<1> QED BY <1>1, <1>2, <1>3, FreshKeeps DEF Same

LEMMA CapturedKeeps ==
    ASSUME IInv, NEW r \in Requests, Captured(r)
    PROVE  IInv'
<1> DEFINE t == request[r].tab
           s == request[r].session
<1>1. request[r].pc = "capture" /\ request' = [request EXCEPT ![r] = Free]
      /\ UNCHANGED <<failed, log, focused, planned, phase, unheard>>
  BY DEF Captured
<1>2. phase[s] # "underway"
  BY <1>1 DEF IInv, RequestsSound, RequestSound, IsOver
<1>3. GoesOn /\ Ages
  BY <1>1, StillAges, FreeShape DEF GoesOn, Keeps, IInv, TypeOK
<1>4. CASE PromptOf(t, s)
  <2>1. t \in Open /\ tab[t].session = s
    BY <1>4 DEF PromptOf, Asking, Holds
  <2>2. Becomes(t, Fresh(tab[t].minutes))
    BY <1>4 DEF Captured
  <2> QED BY <1>1, <1>2, <1>3, <2>1, <2>2, FreshKeeps
<1>5. CASE ~ PromptOf(t, s)
  <2>1. UNCHANGED <<tab, stored, crowded>>
    BY <1>5 DEF Captured
  <2>2. Kept' \subseteq Kept /\ TypeOK'
    BY <1>1, <1>3, <2>1 DEF Kept, Open, IInv, TypeOK, GoesOn
  <2> QED BY <1>1, <1>3, <2>1, <2>2, ScreenStays, SendingShrinks, RequestsStaySound DEF IInv
<1> QED BY <1>4, <1>5

LEMMA OpenKeeps ==
    ASSUME IInv, NEW t \in Tabs, OpenTab(t)
    PROVE  IInv'
<1>1. Becomes(t, Load(stored)) /\ Same /\ UNCHANGED <<planned, phase>>
  BY DEF OpenTab
<1>2. stored \in Timer /\ stored \in Kept /\ Sound(stored)
  BY DEF IInv, TypeOK, Kept, TimersSound
<1>3. PICK timer \in Timer :
          /\ timer = Load(stored)
          /\ timer.session = stored.session /\ timer.logged = stored.logged
          /\ timer.left = stored.left
          /\ stored.minutes \in Durations => timer.minutes = stored.minutes
          /\ \/ timer.status = stored.status
             \/ Over(stored) /\ timer.status = "done"
  BY <1>2, LoadShape
<1>4. Becomes(t, timer) /\ Ages /\ GoesOn
  BY <1>1, <1>3, StillAges, StillGoesOn DEF Same, IInv
<1>5. stored.status # "idle" => Fits(timer.session, timer.minutes)
  BY <1>2, <1>3 DEF Sound, Fits
<1>6. Sound(timer)
  <2>1. CASE timer.status = stored.status
    BY <1>2, <1>3, <1>5, <2>1 DEF Sound
  <2>2. CASE Over(stored) /\ timer.status = "done"
    <3>1. stored.status = "running" /\ stored.left = 0 /\ ~ stored.logged
          /\ stored.session # NoSession
          /\ focused[stored.session] + stored.left >= planned[stored.session]
      BY <1>2, <2>2 DEF Over, Sound
    <3>2. stored.session \in Sessions
      BY <1>2, <3>1, TimerShape
    <3>3. focused[stored.session] >= planned[stored.session]
      BY <3>1, <3>2, PlannedShape DEF IInv
    <3> QED BY <1>3, <1>5, <2>2, <3>1, <3>3 DEF Sound
  <2> QED BY <1>3, <2>1, <2>2
<1>7. Sound(timer)'
  BY <1>4, <1>6, SoundStays DEF IInv
<1>8. Settled(stored) => Settled(timer)
  BY <1>3 DEF Settled, Over
<1>9. \A s \in Sessions \ crowded : phase'[s] = "underway" => timer.session = s
  BY <1>1, <1>2, <1>3 DEF IInv, Held
<1>10. \A s \in Sessions \ crowded : Final(s) /\ timer.session = s => Settled(timer)
  BY <1>2, <1>3, <1>8 DEF Final
<1> QED BY <1>1, <1>4, <1>7, <1>9, <1>10, BecomesKeeps DEF Same

(* Time passes: every copy of a timer that runs, and every session one of  *)
(* them runs, move on together.                                            *)
LEMMA AdvanceKeeps ==
    ASSUME IInv, Advance
    PROVE  IInv'
<1> USE DEF IInv
<1>1. /\ tab' = [t \in Tabs |-> IF t \in Open THEN Later(tab[t]) ELSE Closed]
      /\ stored' = Later(stored)
      /\ UNCHANGED <<request, failed, log, planned, phase, crowded, unheard>>
  BY DEF Advance
<1>2. focused' = [s \in Sessions |->
           IF Running(s) /\ \E m \in Minutes : focused[s] < m
           THEN focused[s] + 1 ELSE focused[s]]
  BY DEF Advance
<1>3. Ages
  <2>1. \A s \in Sessions : focused[s] \in Nat
    BY DEF TypeOK
  <2>2. \A s \in Sessions : focused'[s] \in Nat /\ focused'[s] >= focused[s]
    BY <1>2, <2>1
  <2> QED BY <1>1, <1>2, <2>2 DEF Ages, TypeOK, IsOver
<1>4. TypeOK'
  <2>1. \A t \in Open : tab[t] \in Timer /\ Later(tab[t]) \in Timer
    BY TabShape, LaterShape
  <2>2. tab' \in [Tabs -> Timer \cup {Closed}]
    BY <1>1, <2>1
  <2>3. stored' \in Timer
    BY <1>1, LaterShape DEF TypeOK
  <2> QED BY <1>1, <1>3, <2>2, <2>3 DEF TypeOK, Ages
<1>5. \A other \in Kept' : \E timer \in Kept : other = Later(timer)
  BY <1>1 DEF Kept, Open
<1>6. ASSUME NEW timer \in Kept, NEW other, other = Later(timer)
      PROVE  Sound(other)'
  <2>1. timer \in Timer /\ Sound(timer)
    BY KeptShape DEF TimersSound
  <2>2. /\ other.status = timer.status /\ other.logged = timer.logged
        /\ other.session = timer.session /\ other.minutes = timer.minutes
        /\ timer.status # "running" => other.left = timer.left
        /\ other.left + 1 >= timer.left /\ other.left \in Nat
    BY <1>6, <2>1, LaterShape, TimerShape
  <2>3. CASE timer.status # "running"
    <3>1. Sound(timer)'
      BY <1>3, <2>1, SoundStays
    <3> QED BY <2>2, <2>3, <3>1 DEF Sound
  <2>4. CASE timer.status = "running"
    <3> DEFINE s == timer.session
    <3>1. s \in Sessions /\ Running(s)
      BY <2>1, <2>4, TimerShape DEF Sound, Running, Kept, Open
    <3>2. focused[s] + timer.left >= planned[s] /\ ~ timer.logged /\ s # NoSession
          /\ Fits(s, timer.minutes)
      BY <2>1, <2>4 DEF Sound
    <3>3. planned[s] \in Nat /\ timer.left \in Nat /\ focused[s] \in Nat
          /\ planned[s] \in Minutes \cup {0}
      BY <2>1, <3>1, TimerShape, PlannedShape DEF TypeOK
    <3>4. focused'[s] + other.left >= planned[s]
      <4>1. CASE \E m \in Minutes : focused[s] < m
        <5>1. focused'[s] = focused[s] + 1
          BY <1>2, <3>1, <4>1
        <5> QED BY <2>2, <3>2, <3>3, <5>1
      <4>2. CASE ~ \E m \in Minutes : focused[s] < m
        <5>1. focused'[s] = focused[s] /\ focused[s] >= planned[s]
          BY <1>2, <3>1, <3>3, <4>2
        <5> QED BY <2>2, <3>3, <5>1
      <4> QED BY <4>1, <4>2
    <3>5. Fits(s, timer.minutes)'
      BY <1>1, <3>2 DEF Fits
    <3> QED BY <1>1, <2>2, <2>4, <3>2, <3>4, <3>5 DEF Sound
  <2> QED BY <2>3, <2>4
<1>7. TimersSound'
  BY <1>5, <1>6 DEF TimersSound
<1>8. \A timer \in Kept : /\ Later(timer).session = timer.session
                          /\ Settled(timer) => Settled(Later(timer))
  BY KeptShape, LaterShape DEF Settled
<1>9. Held'
  BY <1>1, <1>5, <1>8 DEF Held
<1>10. Once'
  <2> SUFFICES ASSUME NEW s \in Sessions, s \notin crowded
               PROVE  Single(s)' /\ (Evidence(s) => Final(s))'
    BY <1>1 DEF Once
  <2>1. Final(s) => \A other \in Kept' : other.session = s => Settled(other)
    BY <1>5, <1>8 DEF Final
  <2>2. Sending(s)' \subseteq Sending(s)
    BY <1>1 DEF Sending
  <2>3. s \in Sessions \ crowded
    OBVIOUS
  <2> QED BY <1>1, <1>3, <2>1, <2>2, <2>3, OnceStays
<1> QED BY <1>1, <1>3, <1>4, <1>7, <1>9, <1>10, RequestsStaySound, StillGoesOn, RowsStay

-----------------------------------------------------------------------------
(* Recording a session.                                                    *)

(* What Send leaves on its way: one new request beside the others.         *)
LEMMA Sent ==
    ASSUME TypeOK, NEW t \in Open, NEW s \in Sessions, NEW again \in BOOLEAN,
           Send(t, s, again)
    PROVE  /\ request' \in [Requests -> Request]
           /\ failed' \in [Tabs -> Sessions \cup {NoSession}]
           /\ \E q \in Requests :
                 /\ request[q].pc = "free"
                 /\ request'[q].pc = "log" /\ request'[q].session = s
                 /\ request'[q].minutes = tab[t].minutes /\ request'[q].again = again
                 /\ \A r \in Requests : r # q => Keeps(request[r], request'[r])
<1>1. t \in Tabs /\ tab[t].minutes \in Minutes
  BY TabShape, TimerShape
<1> DEFINE new == [pc |-> "log", session |-> s, minutes |-> tab[t].minutes,
                   again |-> again, tab |-> t]
<1>2. PICK q \in Vacant :
          request' = [r \in Requests |-> IF r = q THEN new ELSE Unheard(t, r)]
  BY DEF Send
<1>3. new \in Request /\ new.pc = "log" /\ new.session = s
      /\ new.minutes = tab[t].minutes /\ new.again = again
  BY <1>1, LogShape
<1>4. \A r \in Requests : Unheard(t, r) \in Request /\ Keeps(request[r], Unheard(t, r))
  BY <1>1, UnheardShape
<1> HIDE DEF new
<1>5. q \in Requests /\ request[q].pc = "free"
  BY FreeShape DEF Vacant
<1>6. request' \in [Requests -> Request]
  BY <1>2, <1>3, <1>4
<1>7. failed' \in [Tabs -> Sessions \cup {NoSession}]
  BY DEF Send, TypeOK
<1> QED BY <1>2, <1>3, <1>4, <1>5, <1>6, <1>7

LEMMA RecordKeeps ==
    ASSUME IInv, NEW t \in Tabs, Record(t)
    PROVE  IInv'
<1> USE DEF IInv
<1> DEFINE s == tab[t].session
<1>1. /\ t \in Open /\ tab[t].status = "done" /\ ~ tab[t].logged
      /\ Becomes(t, Marked(tab[t])) /\ Send(t, s, FALSE)
      /\ Enters(s, "finished") /\ UNCHANGED <<log, focused, planned>>
  BY DEF Record, Marked
<1>2. tab[t] \in Timer /\ tab[t] \in Kept /\ Sound(tab[t])
  BY <1>1, TabShape DEF TimersSound
<1>3. s \in Sessions /\ Due(s, tab[t].minutes)
  BY <1>1, <1>2, TimerShape DEF Sound, Due
<1>4. PICK timer \in Timer :
          /\ Becomes(t, timer) /\ timer.status = "done" /\ timer.logged
          /\ timer.session = s /\ timer.minutes = tab[t].minutes
  BY <1>1, <1>2, MarkedShape
<1>4a. PICK again \in BOOLEAN : ~ again /\ Send(t, s, again)
  <2> WITNESS FALSE \in BOOLEAN
  <2> QED BY <1>1
<1>5. PICK q \in Requests :
          /\ request[q].pc = "free"
          /\ request'[q].pc = "log" /\ request'[q].session = s
          /\ request'[q].minutes = tab[t].minutes /\ ~ request'[q].again
          /\ \A r \in Requests : r # q => Keeps(request[r], request'[r])
  BY <1>4a, <1>1, <1>3, Sent
<1>6. Ages
  BY <1>1, OverAges
<1>7. TypeOK'
  <2>1. unheard' \subseteq Sessions
    BY <1>1 DEF Send, Awaited, TypeOK
  <2> QED BY <1>4a, <1>1, <1>3, <1>4, <1>6, <2>1, Sent, BecomesShape DEF TypeOK, Ages
<1>7a. PICK own \in Sessions, minutes \in Minutes : own = s /\ minutes = tab[t].minutes
  BY <1>2, <1>3, TimerShape
<1>7b. Due(own, minutes)' /\ phase'[own] = "finished"
  <2>1. Due(own, minutes)
    BY <1>3, <1>7a
  <2> QED BY <1>1, <1>6, <1>7a, <2>1, DueStays DEF TypeOK, Enters
<1>8. Sound(timer)'
  <2>1. focused'[own] >= planned'[own] /\ phase'[own] # "new"
        /\ (planned'[own] \in Durations => timer.minutes = planned'[own])
    BY <1>4, <1>7a, <1>7b DEF Due, Fits
  <2> QED BY <1>3, <1>4, <1>7a, <1>7b, <2>1, NullAssumption DEF Sound, Fits, IsOver
<1>9. TimersSound'
  <2> SUFFICES ASSUME NEW other \in Kept' PROVE Sound(other)'
    BY DEF TimersSound
  <2>1. CASE other \in Kept
    <3>1. other \in Timer /\ Sound(other)
      BY <2>1, KeptShape DEF TimersSound
    <3> QED BY <1>6, <3>1, SoundStays
  <2> QED BY <1>4, <1>8, <2>1, BecomesShape
<1>10. RequestsSound'
  <2> SUFFICES ASSUME NEW r \in Requests
               PROVE  RequestSound(r)'
    BY DEF RequestsSound
  <2>1. CASE r = q
    <3>1. request'[r].pc = "log" /\ request'[r].session = own
          /\ request'[r].minutes = minutes
      BY <1>5, <1>7a, <2>1
    <3> QED BY <1>7b, <3>1 DEF RequestSound, Due, Fits
  <2>2. CASE r # q
    <3>1. Keeps(request[r], request'[r]) /\ request[r] \in Request
      BY <1>5, <2>2 DEF TypeOK
    <3>2. CASE request'[r].pc = "log" /\ ~ request'[r].again
      <4>1. PICK u \in Sessions, sent \in Minutes :
                /\ u = request[r].session /\ sent = request[r].minutes
                /\ u = request'[r].session /\ sent = request'[r].minutes
        BY <3>1, <3>2, RequestShape DEF Keeps
      <4>2. Due(u, sent)
        BY <3>1, <3>2, <4>1 DEF Keeps, RequestsSound, RequestSound
      <4>3. Due(u, sent)'
        BY <1>6, <4>2, DueStays
      <4> QED BY <3>2, <4>1, <4>3 DEF RequestSound, Due, Fits
    <3>3. CASE request'[r].pc = "capture"
      <4>1. PICK u \in Sessions : u = request[r].session /\ u = request'[r].session
        BY <3>1, <3>3, RequestShape DEF Keeps
      <4>2. IsOver(u)'
        BY <1>6, <3>1, <3>3, <4>1 DEF Keeps, RequestsSound, RequestSound, Ages
      <4> QED BY <3>3, <4>1, <4>2 DEF RequestSound, IsOver
    <3> QED BY <3>2, <3>3 DEF RequestSound
  <2> QED BY <2>1, <2>2
<1>11. Held'
  <2> SUFFICES ASSUME NEW u \in Sessions, u \notin crowded', phase'[u] = "underway"
               PROVE  FALSE
    BY DEF Held
  <2>1. u \notin crowded /\ phase[u] = "underway" /\ u # s
    BY <1>1, <1>4, BecomesShape DEF TypeOK, Enters
  <2> QED BY <1>2, <2>1 DEF Held
<1>12. Once'
  <2> SUFFICES ASSUME NEW u \in Sessions, u \notin crowded'
               PROVE  Single(u)' /\ (Evidence(u) => Final(u))'
    BY DEF Once
  <2>1. u \in Sessions \ crowded
    BY <1>4, BecomesShape
  <2>2. CASE u # s
    <3>1. Sending(u)' \subseteq Sending(u)
      BY <1>5, <2>2 DEF Sending, Keeps
    <3>2. Final(u) => \A other \in Kept' : other.session = u => Settled(other)
      BY <1>4, <2>2, BecomesShape DEF Final
    <3> QED BY <1>1, <1>6, <2>1, <3>1, <3>2, OnceStays
  <2>3. CASE u = s
    <3>1. Kept' \subseteq {timer}
      BY <1>4, <2>3, BecomesShape
    <3>2. Sending(u) = {} /\ Recorded(u) = {}
      BY <1>1, <1>2, <2>1, <2>3 DEF Once, Evidence, Final, Settled
    <3>3. Sending(u)' \subseteq {q}
      BY <1>5, <3>2 DEF Sending, Keeps
    <3>4. Recorded(u)' = {}
      BY <1>1, <3>2 DEF Recorded
    <3>5. Single(u)'
      BY <3>3, <3>4 DEF Single
    <3>6. IsOver(u)'
      BY <1>7a, <1>7b, <2>3 DEF IsOver
    <3>7. \A other \in Kept' : Settled(other)
      BY <1>4, <3>1 DEF Settled
    <3> QED BY <3>5, <3>6, <3>7 DEF Final
  <2> QED BY <2>2, <2>3
<1> QED BY <1>1, <1>6, <1>7, <1>9, <1>10, <1>11, <1>12, RowsStay

LEMMA RetryKeeps ==
    ASSUME IInv, NEW t \in Tabs, RetryLog(t)
    PROVE  IInv'
<1> USE DEF IInv
<1>1. t \in Open /\ UNCHANGED <<tab, stored, log, focused, planned, phase, crowded>>
  BY DEF RetryLog, screen
<1>2. PICK u \in Sessions, again \in BOOLEAN : again = TRUE /\ Send(t, u, again)
  <2>1. failed[t] \in Sessions
    BY DEF RetryLog, TypeOK
  <2> WITNESS failed[t] \in Sessions, TRUE \in BOOLEAN
  <2> QED BY DEF RetryLog
<1>3. /\ request' \in [Requests -> Request]
      /\ failed' \in [Tabs -> Sessions \cup {NoSession}]
      /\ \E q \in Requests :
            /\ request[q].pc = "free"
            /\ request'[q].pc = "log" /\ request'[q].session = u
            /\ request'[q].minutes = tab[t].minutes /\ request'[q].again = again
            /\ \A r \in Requests : r # q => Keeps(request[r], request'[r])
  <2>1. t \in Open /\ TypeOK
    BY <1>1
  <2>2. Send(t, u, again)
    BY <1>2
  <2> QED BY <2>1, <2>2, Sent
<1>4. TypeOK' /\ Kept' \subseteq Kept
  <2>1. unheard' \subseteq Sessions
    BY <1>2 DEF Send, Awaited, TypeOK
  <2> QED BY <1>1, <1>3, <2>1 DEF TypeOK, Kept, Open
<1>5. PICK q \in Requests :
          /\ request[q].pc = "free" /\ request'[q].pc = "log" /\ request'[q].again
          /\ \A r \in Requests : r # q => Keeps(request[r], request'[r])
  <2>1. PICK q \in Requests :
            /\ request[q].pc = "free" /\ request'[q].pc = "log"
            /\ request'[q].again = again
            /\ \A r \in Requests : r # q => Keeps(request[r], request'[r])
    BY <1>3
  <2>2. request'[q].again
    BY <1>2, <2>1
  <2> QED BY <2>1, <2>2
<1>6. RequestsSound'
  BY <1>1, <1>5 DEF RequestsSound, RequestSound, Keeps, Due, Fits, IsOver
<1>7. \A s \in Sessions : Sending(s)' \subseteq Sending(s)
  BY <1>5 DEF Sending, Keeps
<1> QED BY <1>1, <1>4, <1>6, <1>7, ScreenStays

LEMMA CaptureKeeps ==
    ASSUME IInv, NEW t \in Tabs, SaveCapture(t)
    PROVE  IInv'
<1> USE DEF IInv
<1> DEFINE capture == [pc |-> "capture", session |-> tab[t].session, tab |-> t]
<1>1. PICK q \in Requests :
          /\ request[q].pc = "free" /\ request' = [request EXCEPT ![q] = capture]
  BY FreeShape DEF SaveCapture, Vacant
<1>2. /\ t \in Open /\ tab[t].status = "done" /\ tab[t].logged
      /\ UNCHANGED <<tab, stored, failed, log, focused, planned, phase, crowded, unheard>>
  BY DEF SaveCapture, screen, observers
<1>3. tab[t].session \in Sessions /\ IsOver(tab[t].session)
  BY <1>2, TabShape, TimerShape DEF TimersSound, Sound
<1>4. capture \in Request /\ capture.pc = "capture" /\ capture.session = tab[t].session
  BY <1>3, CaptureShape
<1> HIDE DEF capture
<1>5. TypeOK' /\ Kept' \subseteq Kept
  BY <1>1, <1>2, <1>4 DEF TypeOK, Kept, Open
<1>6. RequestsSound'
  BY <1>1, <1>2, <1>3, <1>4 DEF RequestsSound, RequestSound, TypeOK, Due, Fits, IsOver
<1>7. \A s \in Sessions : Sending(s)' \subseteq Sending(s)
  BY <1>1, <1>4 DEF Sending, TypeOK
<1> QED BY <1>2, <1>5, <1>6, <1>7, ScreenStays

LEMMA CloseKeeps ==
    ASSUME IInv, NEW t \in Tabs, CloseTab(t)
    PROVE  IInv'
<1> USE DEF IInv
<1>1. PICK kept \in SUBSET Requests :
          request' = [r \in Requests |->
              IF request[r] = Free \/ request[r].tab # t THEN request[r]
              ELSE IF r \in kept /\ request[r].pc = "log"
              THEN [request[r] EXCEPT !.tab = Closed] ELSE Free]
  BY DEF CloseTab
<1>2. tab' = [tab EXCEPT ![t] = Closed] /\ failed' = [failed EXCEPT ![t] = NoSession]
      /\ UNCHANGED <<stored, log, focused, planned, phase, crowded>>
      /\ unheard' = unheard \cup (Awaited(t) \ crowded)
  BY DEF CloseTab
<1>3. ASSUME NEW r \in Requests
      PROVE  request'[r] \in Request /\ Keeps(request[r], request'[r])
  <2>1. request[r] \in Request
    BY DEF TypeOK
  <2>2. CASE request[r].pc = "log" /\ request'[r] = [request[r] EXCEPT !.tab = Closed]
    BY <2>1, <2>2, LeftShape
  <2>3. CASE request'[r] = request[r]
    BY <2>1, <2>3 DEF Keeps
  <2>4. CASE request'[r] = Free
    BY <2>4, FreeShape DEF Keeps
  <2> QED BY <1>1, <2>2, <2>3, <2>4
<1>4. request' \in [Requests -> Request]
  BY <1>1, <1>3
<1>5. TypeOK' /\ Kept' \subseteq Kept
  <2>1. unheard' \subseteq Sessions
    BY <1>2 DEF Awaited, TypeOK
  <2> QED BY <1>2, <1>4, <2>1 DEF TypeOK, Kept, Open
<1>6. GoesOn /\ Ages
  BY <1>2, <1>3, <1>4, StillAges DEF GoesOn
<1> QED BY <1>2, <1>5, <1>6, ScreenStays, SendingShrinks, RequestsStaySound

(* The answer of a request, whichever it is.                               *)
LEMMA AnswerKeeps ==
    ASSUME IInv, NEW r \in Requests, Succeeds(r) \/ Fails(r)
    PROVE  IInv'
<1> USE DEF IInv
<1>1. request' = [request EXCEPT ![r] = Free] /\ request[r] # Free
      /\ UNCHANGED <<tab, stored, log, focused, planned, phase, crowded, unheard>>
  BY FreeShape DEF Succeeds, Fails, screen, observers
<1>2. failed' \in [Tabs -> Sessions \cup {NoSession}]
  <2>1. request[r].session \in Sessions
    BY <1>1, RequestShape DEF TypeOK
  <2> QED BY <2>1 DEF Succeeds, Fails, TypeOK
<1>3. GoesOn /\ Ages
  BY <1>1, FreeShape, StillAges DEF GoesOn, Keeps, TypeOK
<1>4. TypeOK' /\ Kept' \subseteq Kept
  BY <1>1, <1>2, <1>3 DEF TypeOK, Kept, Open, GoesOn
<1> QED BY <1>1, <1>3, <1>4, ScreenStays, SendingShrinks, RequestsStaySound

LEMMA InsertKeeps ==
    ASSUME IInv, NEW r \in Requests, InsertSession(r)
    PROVE  IInv'
<1> USE DEF IInv
<1> DEFINE q == request[r]
           row == [session |-> q.session, minutes |-> q.minutes, again |-> q.again]
<1>1. PICK w \in Rows : log[w] = NoRow /\ log' = [log EXCEPT ![w] = row]
  BY DEF InsertSession
<1>2. q.pc = "log"
      /\ UNCHANGED <<tab, stored, failed, focused, planned, phase, crowded, unheard>>
      /\ request' = [request EXCEPT ![r] =
             IF q.tab = Closed THEN Free ELSE [q EXCEPT !.pc = "logged"]]
  BY DEF InsertSession, screen, observers
<1>3. q \in Request /\ q.session \in Sessions /\ q.minutes \in Minutes
      /\ q.again \in BOOLEAN
  BY <1>2, RequestShape DEF TypeOK
<1>4. request'[r] \in Request /\ request'[r].pc \in {"free", "logged"}
  <2>1. [q EXCEPT !.pc = "logged"] \in Request /\ [q EXCEPT !.pc = "logged"].pc = "logged"
    BY <1>2, <1>3, LandedShape
  <2>2. request'[r] = IF q.tab = Closed THEN Free ELSE [q EXCEPT !.pc = "logged"]
    BY <1>2 DEF TypeOK
  <2> QED BY <2>1, <2>2, FreeShape
<1>5. row.session = q.session /\ row.minutes = q.minutes /\ row.again = q.again
      /\ row \in Row /\ row # NoRow
  <2>1. row.session # NoSession
    BY <1>3, NullAssumption
  <2> QED BY <1>3, <2>1 DEF Row, NoRow
<1>6. \A u \in Requests : u # r => request'[u] = request[u]
  BY <1>2 DEF TypeOK
<1> HIDE DEF row
<1>7. GoesOn /\ Ages
  BY <1>2, <1>4, <1>6, StillAges DEF GoesOn, Keeps, TypeOK
<1>8. TypeOK' /\ Kept' = Kept
  BY <1>1, <1>2, <1>5, <1>7 DEF TypeOK, Kept, Open, GoesOn
<1>9. RowsSound'
  BY <1>1, <1>2, <1>5 DEF RowsSound, RequestsSound, RequestSound, Due, Fits, TypeOK
<1>10. TimersSound'
  <2> SUFFICES ASSUME NEW timer \in Kept PROVE Sound(timer)'
    BY <1>8 DEF TimersSound
  <2>1. timer \in Timer /\ Sound(timer)
    BY KeptShape DEF TimersSound
  <2> QED BY <1>7, <2>1, SoundStays
<1>11. Held'
  BY <1>2, <1>8 DEF Held
<1>12. Once'
  <2> SUFFICES ASSUME NEW s \in Sessions, s \notin crowded
               PROVE  Single(s)' /\ (Evidence(s) => Final(s))'
    BY <1>2 DEF Once
  <2>1. Single(s) /\ (Evidence(s) => Final(s))
    BY DEF Once
  <2>2. Sending(s)' \subseteq Sending(s) /\ r \notin Sending(s)'
    BY <1>4, <1>7, SendingShrinks DEF Sending
  <2>3. Final(s) => Final(s)'
    BY <1>2, <1>8 DEF Final, IsOver
  <2>4. CASE r \in Sending(s)
    <3>1. Sending(s)' = {} /\ Recorded(s) = {} /\ Evidence(s)
      BY <2>1, <2>2, <2>4 DEF Single, Evidence
    <3>2. Recorded(s)' \subseteq {w}
      BY <1>1, <3>1 DEF Recorded, TypeOK
    <3> QED BY <2>1, <2>3, <3>1, <3>2 DEF Single
  <2>5. CASE r \notin Sending(s)
    <3>1. Recorded(s)' \subseteq Recorded(s)
      BY <1>1, <1>2, <1>5, <2>5 DEF Recorded, Sending, TypeOK
    <3> QED BY <2>1, <2>2, <2>3, <3>1 DEF Single, Evidence
  <2> QED BY <2>4, <2>5
<1> QED BY <1>7, <1>8, <1>9, <1>10, <1>11, <1>12, RequestsStaySound

-----------------------------------------------------------------------------
(* The theorems.                                                           *)

LEMMA StepKeeps == IInv /\ [Next]_vars => IInv'
<1> SUFFICES ASSUME IInv, [Next]_vars PROVE IInv'
  OBVIOUS
<1>1. CASE UNCHANGED vars
  <2>1. UNCHANGED <<tab, stored, request, failed, log, focused, planned, phase,
                    crowded, unheard>>
    BY <1>1 DEF vars, screen, observers
  <2> QED BY <2>1, ScreenStays DEF IInv, TypeOK, RequestsSound, RequestSound, Due, Fits, IsOver,
                                   Kept, Open, Sending
<1>2. CASE Advance
  BY <1>2, AdvanceKeeps
<1>3. ASSUME NEW t \in Tabs, NEW minutes \in Minutes,
             SetDuration(t, minutes) \/ DefaultArrives(t, minutes)
      PROVE  IInv'
  BY <1>3, SetKeeps
<1>4. ASSUME NEW t \in Tabs, Start(t) \/ Pause(t) \/ Resume(t) \/ Reset(t) \/ Tick(t)
      PROVE  IInv'
  BY <1>4, StartKeeps, StatusKeeps, ResetKeeps
<1>5. ASSUME NEW t \in Tabs, OpenTab(t) \/ CloseTab(t) \/ Record(t) \/ RetryLog(t)
                             \/ Skip(t) \/ SaveCapture(t)
      PROVE  IInv'
  BY <1>5, OpenKeeps, CloseKeeps, RecordKeeps, RetryKeeps, SkipKeeps, CaptureKeeps
<1>6. ASSUME NEW r \in Requests,
             Captured(r) \/ InsertSession(r) \/ Succeeds(r) \/ Fails(r)
      PROVE  IInv'
  BY <1>6, CapturedKeeps, InsertKeeps, AnswerKeeps
<1> QED BY <1>1, <1>2, <1>3, <1>4, <1>5, <1>6 DEF Next, Minutes

LEMMA Inductive == Spec => []IInv
  BY Started, StepKeeps, PTL DEF Spec

(* The timers, the requests and the rows keep their shapes.                *)
THEOREM TypeCorrect == Spec => []TypeOK
<1>1. IInv => TypeOK
  BY DEF IInv
<1> QED BY <1>1, Inductive, PTL

(* A session is recorded on its own only after it has run its minutes,     *)
(* however many tabs are open: every copy of its timer has what it ran and *)
(* what is left add up to its minutes at least.                            *)
THEOREM NeverEarlyHolds == Spec => []NeverEarly
<1>1. IInv => NeverEarly
  BY DEF IInv, RowsSound, Due, Fits, NeverEarly
<1> QED BY <1>1, Inductive, PTL

(* A session no second tab was open for is recorded on its own once: what  *)
(* has been sent or recorded leaves no copy of the timer that is not       *)
(* marked as logged.                                                       *)
THEOREM RecordedOnceHolds == Spec => []RecordedOnce
<1>1. IInv => RecordedOnce
  BY DEF IInv, Once, Single, RecordedOnce
<1> QED BY <1>1, Inductive, PTL

-----------------------------------------------------------------------------
(* What becomes of a session that was sent.                                *)

(* The answers a tab still listens to.                                     *)
Waiting(t) == {r \in Requests : request[r].pc \in {"log", "logged"} /\ request[r].tab = t}

(* A tab waits for one answer, or says that one has failed.                *)
OneAnswer ==
    \A t \in Tabs : /\ \A r, q \in Waiting(t) : r = q
                    /\ failed[t] # NoSession => Waiting(t) = {}

Reported ==
    \A s \in Sessions \ crowded :
        phase[s] = "finished" /\ s \notin unheard => Accounted(s)

HInv == OneAnswer /\ Reported

LEMMA HeardAtFirst == Init => HInv
  BY FreeShape DEF Init, HInv, OneAnswer, Reported, Waiting

(* Steps that send no record and hear of none.                             *)
LEMMA NothingHeard ==
    ASSUME HInv, Open \subseteq Open', crowded \subseteq crowded',
           UNCHANGED <<failed, log, unheard>>,
           \A r \in Requests :
              request[r].pc \in {"log", "logged"} \/ request'[r].pc \in {"log", "logged"} =>
                 request'[r] = request[r],
           \A s \in Sessions : phase'[s] = "finished" => phase[s] = "finished"
    PROVE  HInv'
<1>1. \A t \in Tabs : Waiting(t)' = Waiting(t)
  BY DEF Waiting
<1>2. OneAnswer'
  BY <1>1 DEF HInv, OneAnswer
<1>3. Reported'
  <2> SUFFICES ASSUME NEW s \in Sessions, s \notin crowded', phase'[s] = "finished",
                      s \notin unheard'
               PROVE  Accounted(s)'
    BY DEF Reported
  <2>1. Accounted(s)
    BY DEF HInv, Reported
  <2>2. CASE InLog(s)
    BY <2>2 DEF InLog, Accounted
  <2>3. ASSUME NEW t \in Open, s \in Awaited(t)
        PROVE  t \in Open' /\ s \in Awaited(t)'
    BY <2>3 DEF Awaited
  <2> QED BY <2>1, <2>2, <2>3 DEF Accounted
<1> QED BY <1>2, <1>3 DEF HInv

(* A tab that changes its timer, in whatever way, is open.                 *)
LEMMA BecomesOpen ==
    ASSUME TypeOK, TypeOK', NEW t \in Tabs, NEW timer, Becomes(t, timer)
    PROVE  Open \subseteq Open' /\ crowded \subseteq crowded'
<1>1. timer # Closed
  BY ClosedAssumption DEF Becomes, TypeOK
<1> QED BY <1>1 DEF Becomes, Open, TypeOK

LEMMA ButtonsHeard ==
    ASSUME IInv, IInv', HInv, NEW t \in Tabs, NEW timer, Change(t, timer),
           \A s \in Sessions : phase'[s] = "finished" => phase[s] = "finished"
    PROVE  HInv'
<1>1. Open \subseteq Open' /\ crowded \subseteq crowded'
  BY BecomesOpen DEF Change, IInv
<1> QED BY <1>1, NothingHeard DEF Change, Same

LEMMA ChangesHeard ==
    ASSUME IInv, IInv', HInv, NEW t \in Tabs,
           \/ \E minutes \in Minutes : SetDuration(t, minutes) \/ DefaultArrives(t, minutes)
           \/ Start(t) \/ Pause(t) \/ Resume(t) \/ Reset(t) \/ Tick(t)
           \/ OpenTab(t) \/ Skip(t)
    PROVE  HInv'
<1>1. \A s \in Sessions : phase'[s] = "finished" => phase[s] = "finished"
  BY DEF SetDuration, DefaultArrives, Start, Pause, Resume, Reset, Tick, OpenTab, Skip,
         Enters, IInv, TypeOK
<1>2. PICK timer : Change(t, timer)
  BY DEF SetDuration, DefaultArrives, Start, Pause, Resume, Reset, Tick, OpenTab, Skip,
         Change
<1> QED BY <1>1, <1>2, ButtonsHeard

LEMMA AdvanceHeard ==
    ASSUME IInv, IInv', HInv, Advance
    PROVE  HInv'
<1>1. \A t \in Open : tab'[t] = Later(tab[t]) /\ Later(tab[t]) \in Timer
  BY TabShape, LaterShape DEF Advance, Open, IInv
<1>2. Open \subseteq Open'
  BY <1>1, ClosedAssumption DEF Open
<1> QED BY <1>2, NothingHeard DEF Advance

LEMMA CaptureHeard ==
    ASSUME IInv, IInv', HInv,
           \/ \E t \in Tabs : SaveCapture(t)
           \/ \E r \in Requests : Captured(r)
    PROVE  HInv'
<1>1. CASE \E t \in Tabs : SaveCapture(t)
  <2>1. PICK t \in Tabs : SaveCapture(t)
    BY <1>1
  <2>2. PICK q \in Requests :
            /\ request[q].pc = "free"
            /\ request' = [request EXCEPT ![q] =
                   [pc |-> "capture", session |-> tab[t].session, tab |-> t]]
    BY <2>1, FreeShape DEF SaveCapture, Vacant
  <2>3. \A r \in Requests :
           request[r].pc \in {"log", "logged"} \/ request'[r].pc \in {"log", "logged"} =>
              request'[r] = request[r]
    BY <2>2 DEF IInv, TypeOK
  <2> QED BY <2>1, <2>3, NothingHeard DEF SaveCapture, screen, observers, Open
<1>2. ASSUME NEW r \in Requests, Captured(r) PROVE HInv'
  <2>1. \A q \in Requests :
           request[q].pc \in {"log", "logged"} \/ request'[q].pc \in {"log", "logged"} =>
              request'[q] = request[q]
    BY <1>2, FreeShape DEF Captured, IInv, TypeOK
  <2>2. Open \subseteq Open' /\ crowded \subseteq crowded'
    <3>1. CASE UNCHANGED <<tab, stored, crowded>>
      BY <3>1 DEF Open
    <3>2. CASE PromptOf(request[r].tab, request[r].session)
      <4>1. request[r].tab \in Tabs
        BY <3>2 DEF PromptOf, Asking, Holds, Open
      <4>2. PICK timer : Becomes(request[r].tab, timer)
        BY <1>2, <3>2 DEF Captured
      <4> QED BY <4>1, <4>2, BecomesOpen DEF IInv
    <3> QED BY <1>2, <3>1, <3>2 DEF Captured
  <2> QED BY <1>2, <2>1, <2>2, NothingHeard DEF Captured
<1> QED BY <1>1, <1>2

(* A record that is sent, for the first time or again.                     *)
LEMMA SentHeard ==
    ASSUME IInv, HInv, NEW t \in Open, NEW s \in Sessions, NEW again, Send(t, s, again),
           Open \subseteq Open', crowded \subseteq crowded', UNCHANGED log,
           \A u \in Sessions : phase'[u] = "finished" => phase[u] = "finished" \/ u = s
    PROVE  HInv'
<1>1. PICK q \in Vacant : request' = [r \in Requests |->
          IF r = q
          THEN [pc |-> "log", session |-> s, minutes |-> tab[t].minutes,
                again |-> again, tab |-> t]
          ELSE Unheard(t, r)]
  BY DEF Send
<1>2. q \in Requests /\ t \in Tabs /\ t # Closed
  BY NullAssumption DEF Vacant, Open
<1>3. request'[q].pc = "log" /\ request'[q].session = s /\ request'[q].tab = t
  BY <1>1, <1>2
<1>4. ASSUME NEW r \in Requests, r # q
      PROVE  /\ request'[r].pc \in {"log", "logged"} => request'[r].tab # t
             /\ request[r].pc \in {"log", "logged"} /\ request[r].tab # t =>
                   request'[r] = request[r]
             /\ request'[r].pc \in {"log", "logged"} /\ request'[r].tab # Closed =>
                   request'[r] = request[r]
  <2>1. request'[r] = Unheard(t, r) /\ request[r] \in Request
    BY <1>1, <1>4 DEF IInv, TypeOK
  <2>2. CASE request[r].pc = "log" /\ request[r].tab = t
    <3>1. request'[r] = [request[r] EXCEPT !.tab = Closed]
      BY <2>1, <2>2 DEF Unheard
    <3>2. request[r] \in [pc: {"log", "logged"}, session: Sessions, minutes: Minutes,
                         again: BOOLEAN, tab: Tabs \cup {Closed}]
      BY <2>1, <2>2 DEF Request, Free
    <3>3. request'[r].tab = Closed
      BY <3>1, <3>2
    <3> QED BY <1>2, <2>2, <3>3
  <2>3. CASE request[r].pc = "logged" /\ request[r].tab = t
    <3>1. request'[r] = Free
      BY <2>1, <2>3 DEF Unheard
    <3> QED BY <2>3, <3>1, FreeShape
  <2>4. CASE ~ (request[r].pc \in {"log", "logged"} /\ request[r].tab = t)
    <3>1. request'[r] = request[r]
      BY <2>1, <2>4 DEF Unheard
    <3> QED BY <2>4, <3>1
  <2> QED BY <2>2, <2>3, <2>4
<1>5. failed' = [failed EXCEPT ![t] = NoSession]
      /\ unheard' = unheard \cup (Awaited(t) \ ({s} \cup crowded))
  BY DEF Send
<1>6. Waiting(t)' \subseteq {q} /\ \A u \in Tabs \ {t} : Waiting(u)' \subseteq Waiting(u)
  BY <1>2, <1>3, <1>4, NullAssumption DEF Waiting
<1>7. OneAnswer'
  BY <1>5, <1>6 DEF OneAnswer, HInv, IInv, TypeOK
<1>8. Reported'
  <2> SUFFICES ASSUME NEW u \in Sessions, u \notin crowded', phase'[u] = "finished",
                      u \notin unheard'
               PROVE  Accounted(u)'
    BY DEF Reported
  <2>1. CASE u = s
    <3>1. u \in Awaited(t)' /\ t \in Open'
      BY <1>2, <1>3, <2>1 DEF Awaited
    <3> QED BY <3>1 DEF Accounted
  <2>2. CASE u # s
    <3>1. Accounted(u) /\ u \notin Awaited(t)
      BY <1>5, <2>2 DEF HInv, Reported
    <3>2. CASE InLog(u)
      BY <3>2 DEF InLog, Accounted
    <3>3. ASSUME NEW v \in Open, u \in Awaited(v)
          PROVE  v \in Open' /\ u \in Awaited(v)'
      <4>1. v # t /\ v \in Tabs
        BY <3>1, <3>3 DEF Open
      <4>2. failed'[v] = failed[v]
        BY <1>5, <4>1 DEF IInv, TypeOK
      <4>3. ASSUME NEW r \in Requests, request[r].pc = "log", request[r].tab = v
            PROVE  request'[r] = request[r]
        <5>1. r # q
          BY <4>3, FreeShape DEF Vacant
        <5> QED BY <1>4, <4>1, <4>3, <5>1
      <4> QED BY <3>3, <4>2, <4>3 DEF Awaited
    <3> QED BY <3>1, <3>2, <3>3 DEF Accounted
  <2> QED BY <2>1, <2>2
<1> QED BY <1>7, <1>8 DEF HInv

LEMMA RecordsHeard ==
    ASSUME IInv, IInv', HInv, NEW t \in Tabs, Record(t) \/ RetryLog(t)
    PROVE  HInv'
<1>1. CASE Record(t)
  <2>1. t \in Open /\ Send(t, tab[t].session, FALSE) /\ UNCHANGED log
        /\ Enters(tab[t].session, "finished")
    BY <1>1 DEF Record
  <2>2. tab[t].session \in Sessions
    BY <1>1, <2>1, TabShape, TimerShape DEF Record, IInv, TimersSound, Sound
  <2>3. PICK timer : Becomes(t, timer)
    BY <1>1 DEF Record
  <2>4. Open \subseteq Open' /\ crowded \subseteq crowded'
    BY <2>3, BecomesOpen DEF IInv
  <2>5. \A u \in Sessions : phase'[u] = "finished" =>
           phase[u] = "finished" \/ u = tab[t].session
    BY <2>1 DEF Enters, IInv, TypeOK
  <2> QED BY <2>1, <2>2, <2>4, <2>5, SentHeard
<1>2. CASE RetryLog(t)
  <2>1. t \in Open /\ Send(t, failed[t], TRUE) /\ failed[t] \in Sessions
    BY <1>2 DEF RetryLog, IInv, TypeOK
  <2>2. Open \subseteq Open' /\ UNCHANGED <<log, phase, crowded>>
    BY <1>2 DEF RetryLog, screen, Open
  <2> QED BY <2>1, <2>2, SentHeard
<1> QED BY <1>1, <1>2

LEMMA CloseHeard ==
    ASSUME IInv, HInv, NEW t \in Tabs, CloseTab(t)
    PROVE  HInv'
<1>1. PICK kept \in SUBSET Requests :
          request' = [r \in Requests |->
              IF request[r] = Free \/ request[r].tab # t THEN request[r]
              ELSE IF r \in kept /\ request[r].pc = "log"
              THEN [request[r] EXCEPT !.tab = Closed] ELSE Free]
  BY DEF CloseTab
<1>2. /\ tab' = [tab EXCEPT ![t] = Closed] /\ failed' = [failed EXCEPT ![t] = NoSession]
      /\ unheard' = unheard \cup (Awaited(t) \ crowded)
      /\ UNCHANGED <<stored, log, focused, planned, phase, crowded>>
  BY DEF CloseTab
<1>3. ASSUME NEW r \in Requests
      PROVE  /\ request[r].tab # t => request'[r] = request[r]
             /\ request'[r].pc \in {"log", "logged"} /\ request'[r].tab # Closed =>
                   request'[r] = request[r] /\ request[r].tab # t
  <2>1. CASE request[r] = Free \/ request[r].tab # t
    <3>1. request'[r] = request[r]
      BY <1>1, <2>1
    <3> QED BY <2>1, <3>1, FreeShape
  <2>2. CASE request[r] # Free /\ request[r].tab = t /\ request'[r] = Free
    BY <2>2, FreeShape
  <2>3. CASE /\ request[r].tab = t /\ request[r].pc = "log"
             /\ request'[r] = [request[r] EXCEPT !.tab = Closed]
    <3>1. request[r] \in [pc: {"log", "logged"}, session: Sessions, minutes: Minutes,
                         again: BOOLEAN, tab: Tabs \cup {Closed}]
      BY <2>3 DEF Request, Free, IInv, TypeOK
    <3>2. request'[r].tab = Closed
      BY <2>3, <3>1
    <3> QED BY <2>3, <3>2
  <2> QED BY <1>1, <2>1, <2>2, <2>3
<1>4. \A u \in Tabs : Waiting(u)' \subseteq Waiting(u) /\ (u = t => Waiting(u)' = {})
  BY <1>3, NullAssumption DEF Waiting
<1>5. OneAnswer'
  BY <1>2, <1>4 DEF OneAnswer, HInv, IInv, TypeOK
<1>6. Reported'
  <2> SUFFICES ASSUME NEW s \in Sessions, s \notin crowded, phase[s] = "finished",
                      s \notin unheard'
               PROVE  Accounted(s)'
    BY <1>2 DEF Reported
  <2>1. Accounted(s) /\ s \notin Awaited(t)
    BY <1>2 DEF HInv, Reported
  <2>2. CASE InLog(s)
    BY <1>2, <2>2 DEF InLog, Accounted
  <2>3. ASSUME NEW u \in Open, s \in Awaited(u)
        PROVE  u \in Open' /\ s \in Awaited(u)'
    <3>1. u # t /\ u \in Tabs /\ u # Closed
      BY <2>1, <2>3, NullAssumption DEF Open
    <3>2. failed'[u] = failed[u] /\ tab'[u] = tab[u]
      BY <1>2, <3>1 DEF IInv, TypeOK
    <3>3. u \in Open'
      BY <3>1, <3>2 DEF Open
    <3> QED BY <1>3, <2>3, <3>1, <3>2, <3>3 DEF Awaited
  <2> QED BY <2>1, <2>2, <2>3 DEF Accounted
<1> QED BY <1>5, <1>6 DEF HInv

LEMMA InsertHeard ==
    ASSUME IInv, HInv, NEW r \in Requests, InsertSession(r)
    PROVE  HInv'
<1> DEFINE q == request[r]
<1>1. PICK w \in Rows : /\ log[w] = NoRow
                        /\ log' = [log EXCEPT ![w] =
                               [session |-> q.session, minutes |-> q.minutes,
                                again |-> q.again]]
  BY DEF InsertSession
<1>2. /\ q.pc = "log" /\ q \in Request /\ q.session \in Sessions
      /\ UNCHANGED <<tab, failed, phase, crowded, unheard>>
      /\ request' = [request EXCEPT ![r] =
             IF q.tab = Closed THEN Free ELSE [q EXCEPT !.pc = "logged"]]
  BY RequestShape DEF InsertSession, screen, observers, IInv, TypeOK
<1>3. /\ \A u \in Requests : u # r => request'[u] = request[u]
      /\ request'[r].pc \in {"log", "logged"} => request'[r].tab = q.tab
  <2>1. q \in [pc: {"log", "logged"}, session: Sessions, minutes: Minutes,
              again: BOOLEAN, tab: Tabs \cup {Closed}]
    BY <1>2 DEF Request, Free
  <2>2. request'[r] = IF q.tab = Closed THEN Free ELSE [q EXCEPT !.pc = "logged"]
    BY <1>2 DEF IInv, TypeOK
  <2>3. [q EXCEPT !.pc = "logged"].tab = q.tab
    BY <2>1
  <2>4. \A u \in Requests : u # r => request'[u] = request[u]
    BY <1>2 DEF IInv, TypeOK
  <2> QED BY <2>2, <2>3, <2>4, FreeShape
<1>4. \A t \in Tabs : Waiting(t)' \subseteq Waiting(t)
  BY <1>2, <1>3 DEF Waiting
<1>5. OneAnswer'
  BY <1>2, <1>4 DEF OneAnswer, HInv
<1>6. Reported'
  <2> SUFFICES ASSUME NEW s \in Sessions, s \notin crowded, phase[s] = "finished",
                      s \notin unheard
               PROVE  Accounted(s)'
    BY <1>2 DEF Reported
  <2>1. CASE s = q.session
    <3>1. log'[w].session = s /\ s # NoSession
      BY <1>1, <2>1, NullAssumption DEF IInv, TypeOK
    <3>2. log'[w] # NoRow
      BY <3>1 DEF NoRow
    <3> QED BY <3>1, <3>2 DEF Accounted, InLog
  <2>2. CASE s # q.session
    <3>1. Accounted(s)
      BY DEF HInv, Reported
    <3>2. CASE InLog(s)
      <4>1. PICK v \in Rows : log[v] # NoRow /\ log[v].session = s
        BY <3>2 DEF InLog
      <4>2. log'[v] = log[v]
        BY <1>1, <4>1 DEF IInv, TypeOK
      <4> QED BY <4>1, <4>2 DEF InLog, Accounted
    <3>3. ASSUME NEW t \in Open, s \in Awaited(t)
          PROVE  t \in Open' /\ s \in Awaited(t)'
      BY <1>2, <1>3, <2>2, <3>3 DEF Awaited, Open
    <3> QED BY <3>1, <3>2, <3>3 DEF Accounted
  <2> QED BY <2>1, <2>2
<1> QED BY <1>5, <1>6 DEF HInv

LEMMA AnswerHeard ==
    ASSUME IInv, HInv, NEW r \in Requests, Succeeds(r) \/ Fails(r)
    PROVE  HInv'
<1> DEFINE q == request[r]
<1>1. /\ request' = [request EXCEPT ![r] = Free] /\ q # Free
      /\ UNCHANGED <<tab, log, phase, crowded, unheard>>
  BY FreeShape DEF Succeeds, Fails, screen, observers
<1>2. request'[r].pc = "free" /\ \A u \in Requests : u # r => request'[u] = request[u]
  BY <1>1, FreeShape DEF IInv, TypeOK
<1>3. q.pc \in {"log", "logged", "capture"} /\ q.session \in Sessions
  BY <1>1, RequestShape DEF IInv, TypeOK
<1>4. \A t \in Tabs : Waiting(t)' = Waiting(t) \ {r}
  BY <1>2 DEF Waiting
<1>5. \A t \in Tabs : \/ failed'[t] = failed[t]
                       \/ /\ r \in Waiting(t) /\ failed'[t] = q.session /\ Fails(r)
  BY <1>3 DEF Succeeds, Fails, Waiting
<1>6. \A t \in Tabs : r \in Waiting(t) => Waiting(t)' = {} /\ failed[t] = NoSession
  BY <1>4 DEF HInv, OneAnswer
<1>7. OneAnswer'
  BY <1>4, <1>5, <1>6 DEF HInv, OneAnswer
<1>8. Reported'
  <2> SUFFICES ASSUME NEW s \in Sessions, s \notin crowded, phase[s] = "finished",
                      s \notin unheard
               PROVE  Accounted(s)'
    BY <1>1 DEF Reported
  <2>1. Accounted(s)
    BY DEF HInv, Reported
  <2>2. CASE InLog(s)
    BY <1>1, <2>2 DEF InLog, Accounted
  <2>3. ASSUME NEW t \in Open, s \in Awaited(t)
        PROVE  t \in Open' /\ s \in Awaited(t)'
    <3>1. t \in Open' /\ t \in Tabs
      BY <1>1 DEF Open
    <3>2. CASE failed[t] = s
      <4>1. failed'[t] = s
        BY <1>5, <1>6, <3>1, <3>2, NullAssumption
      <4> QED BY <3>1, <4>1 DEF Awaited
    <3>3. ASSUME NEW u \in Requests, request[u].pc = "log", request[u].tab = t,
                 request[u].session = s
          PROVE  s \in Awaited(t)'
      <4>1. CASE u # r
        BY <1>2, <3>3, <4>1 DEF Awaited
      <4>2. CASE u = r
        <5>1. Fails(r)
          BY <3>3, <4>2 DEF Succeeds
        <5>2. failed'[t] = s
          BY <3>1, <3>3, <4>2, <5>1 DEF Fails
        <5> QED BY <5>2 DEF Awaited
      <4> QED BY <4>1, <4>2
    <3> QED BY <2>3, <3>1, <3>2, <3>3 DEF Awaited
  <2> QED BY <2>1, <2>2, <2>3 DEF Accounted
<1> QED BY <1>7, <1>8 DEF HInv

LEMMA StepIsHeard == IInv /\ IInv' /\ HInv /\ [Next]_vars => HInv'
<1> SUFFICES ASSUME IInv, IInv', HInv, [Next]_vars PROVE HInv'
  OBVIOUS
<1>1. CASE UNCHANGED vars
  BY <1>1, NothingHeard DEF vars, screen, observers, Open
<1>2. CASE Advance
  BY <1>2, AdvanceHeard
<1>3. ASSUME NEW t \in Tabs,
             \/ \E minutes \in Durations : SetDuration(t, minutes)
             \/ \E minutes \in Defaults : DefaultArrives(t, minutes)
             \/ Start(t) \/ Pause(t) \/ Resume(t) \/ Reset(t) \/ Tick(t)
             \/ OpenTab(t) \/ Skip(t)
      PROVE  HInv'
  BY <1>3, ChangesHeard DEF Minutes
<1>4. ASSUME NEW t \in Tabs, CloseTab(t) \/ Record(t) \/ RetryLog(t) \/ SaveCapture(t)
      PROVE  HInv'
  BY <1>4, CloseHeard, RecordsHeard, CaptureHeard
<1>5. ASSUME NEW r \in Requests,
             Captured(r) \/ InsertSession(r) \/ Succeeds(r) \/ Fails(r)
      PROVE  HInv'
  BY <1>5, CaptureHeard, InsertHeard, AnswerHeard
<1> QED BY <1>1, <1>2, <1>3, <1>4, <1>5 DEF Next

(* A session that no second tab was open for is held until it is sent, and *)
(* is from then on in the log, on its way or shown as failed, unless its   *)
(* tab went away or sent another session before it heard.                  *)
THEOREM SessionIsHeldHolds == Spec => []SessionIsHeld
<1>1. IInv /\ HInv => SessionIsHeld
  BY DEF IInv, Held, HInv, Reported, SessionIsHeld, Kept
<1>2. Spec => []HInv
  BY HeardAtFirst, StepIsHeard, Inductive, PTL DEF Spec
<1> QED BY <1>1, <1>2, Inductive, PTL
=============================================================================
