-------------------------- MODULE CardEditorProofs --------------------------
(* Proofs about CardEditor, for any number of cards, visits and saves on   *)
(* their way at once.                                                      *)
EXTENDS CardEditor, TLAPS

USE DEF Changes

-----------------------------------------------------------------------------
(* What a request is, by how far it has come.                              *)

LEMMA RequestShape ==
    ASSUME NEW q \in Request, q # Idle
    PROVE  /\ q.pc \in {"post", "patch", "read", "done"}
           /\ q.text \in Filled
           /\ q.pc = "post" => q.form \in Forms
           /\ q.pc \in {"patch", "read", "done"} => q.card \in Cards
           /\ q.pc \in {"post", "patch", "read"} => q.mine \in BOOLEAN
           /\ q.pc = "read" => q.before \in Domains \cup {NoDomain}
           /\ q.pc = "done" => q.created \in BOOLEAN
  BY DEF Request, Idle

LEMMA IdleShape == Idle \in Request /\ Idle.pc = "idle"
  BY DEF Request, Idle

LEMMA PostShape ==
    ASSUME NEW q \in Request, q.pc = "post"
    PROVE  q.form \in Forms /\ q.text \in Filled /\ q.mine \in BOOLEAN
  BY IdleShape, RequestShape

LEMMA WriteShape ==
    ASSUME TypeOK, Valid, NEW mine \in BOOLEAN
    PROVE  /\ Write(mine) \in Request
           /\ Write(mine).pc \in {"post", "patch"}
           /\ Write(mine).pc = "post" =>
                 place = New /\ Write(mine).form = form /\ Write(mine).mine = mine
  BY DEF TypeOK, Valid, Write, Request

LEMMA GivenUp ==
    ASSUME NEW q \in Request, q.pc \in {"post"} \cup Changes
    PROVE  /\ [q EXCEPT !.mine = FALSE] \in Request
           /\ [q EXCEPT !.mine = FALSE].pc = q.pc
           /\ q.pc = "post" => [q EXCEPT !.mine = FALSE].form = q.form
  BY DEF Request, Idle

(* Closing the tab cuts requests off or stops waiting for them, and may    *)
(* add one.                                                                *)
LEMMA AfterClosing ==
    ASSUME TypeOK, CloseTab
    PROVE  \E left \in [Requests -> Request] :
              /\ \A r \in Requests :
                    /\ left[r].pc \in {"idle", "post", "patch", "read"}
                    /\ left[r].pc = "post" =>
                          request[r].pc = "post" /\ left[r].form = request[r].form
              /\ \/ /\ Dirty /\ Valid /\ Notes
                    /\ \E r \in Free : request' = [left EXCEPT ![r] = Write(FALSE)]
                 \/ request' = left /\ UNCHANGED doubted
<1> DEFINE left(kept) == [r \in Requests |->
                 IF r \in kept /\ request[r].pc \in {"post"} \cup Changes
                 THEN [request[r] EXCEPT !.mine = FALSE] ELSE Idle]
<1>1. PICK kept \in SUBSET Requests :
              \/ /\ Dirty /\ Valid /\ Notes
                 /\ \E r \in Free : request' = [left(kept) EXCEPT ![r] = Write(FALSE)]
              \/ request' = left(kept) /\ UNCHANGED doubted
  BY DEF CloseTab
<1>2. ASSUME NEW r \in Requests
      PROVE  /\ left(kept)[r] \in Request
             /\ left(kept)[r].pc \in {"idle", "post", "patch", "read"}
             /\ left(kept)[r].pc = "post" =>
                   request[r].pc = "post" /\ left(kept)[r].form = request[r].form
  <2>1. CASE r \in kept /\ request[r].pc \in {"post"} \cup Changes
    <3>1. left(kept)[r] = [request[r] EXCEPT !.mine = FALSE]
      BY <2>1
    <3>2. request[r] \in Request
      BY DEF TypeOK
    <3> HIDE DEF left
    <3> QED BY <2>1, <3>1, <3>2, GivenUp
  <2>2. CASE ~ (r \in kept /\ request[r].pc \in {"post"} \cup Changes)
    <3>1. left(kept)[r] = Idle
      BY <2>2
    <3> HIDE DEF left
    <3> QED BY <3>1, IdleShape
  <2> QED BY <2>1, <2>2
<1>3. left(kept) \in [Requests -> Request]
  BY <1>2
<1> HIDE DEF left
<1> QED BY <1>1, <1>2, <1>3

(* What the server makes of a change.                                      *)
LEMMA RewrittenSays ==
    ASSUME NEW text \in Filled, NEW before \in Domains \cup {NoDomain}
    PROVE  /\ Rewritten(text, before) \in Filled
           /\ text.domain # NoDomain => Rewritten(text, before) = text
           /\ text.domain = NoDomain => Rewritten(text, before).domain = before
           /\ Rewritten(text, text.domain) = text
           /\ Rewritten(text, Rewritten(text, before).domain) = Rewritten(text, before)
  BY DEF Rewritten, Filled

-----------------------------------------------------------------------------
(* Types.                                                                  *)

LEMMA TypeInit == Init => TypeOK
  BY IdleShape DEF Init, TypeOK, Texts

LEMMA ScreenType ==
    ASSUME TypeOK,
           Persist \/ Type \/ OpenNew \/ Leave \/ CloseTab \/ DeleteSucceeds
    PROVE  TypeOK'
<1>0. doubted' \subseteq Forms /\ exposed' \in BOOLEAN /\ awaited' \in Requests \cup {Nobody}
  BY DEF TypeOK, Persist, Type, OpenNew, Leave, CloseTab, DeleteSucceeds, Notes,
         Gone, Free
<1>1. CASE Persist \/ Leave
  <2>1. request' \in [Requests -> Request]
    BY <1>1, WriteShape DEF Persist, Leave, SavesOnLeaving, TypeOK, Free
  <2> QED BY <1>0, <1>1, <2>1 DEF Persist, Leave, Gone, TypeOK, table
<1>2. CASE Type \/ OpenNew \/ DeleteSucceeds
  BY <1>0, <1>2 DEF Type, OpenNew, DeleteSucceeds, Gone, TypeOK, table, Texts
<1>3. CASE CloseTab
  <2>1. request' \in [Requests -> Request]
    BY <1>3, AfterClosing, WriteShape DEF Free
  <2>2. cached' \in [Cards -> Filled \cup {NoRow}]
    BY <1>3 DEF CloseTab
  <2> QED BY <1>0, <1>3, <2>1, <2>2 DEF CloseTab, Gone, TypeOK, table
<1> QED BY <1>1, <1>2, <1>3

LEMMA CardType ==
    ASSUME TypeOK, NEW c \in Cards, OpenCard(c) \/ Refetch(c) \/ Trash(c) \/ Restore(c)
    PROVE  TypeOK'
<1>1. CASE OpenCard(c)
  BY <1>1 DEF OpenCard, TypeOK, table, Texts
<1>2. CASE Refetch(c)
  BY <1>2 DEF Refetch, TypeOK, table, editor
<1>3. CASE Trash(c) \/ Restore(c)
  BY <1>3 DEF Trash, Restore, TypeOK, editor
<1> QED BY <1>1, <1>2, <1>3

LEMMA ServerType ==
    ASSUME TypeOK, NEW r \in Requests,
           CreateCard(r) \/ ReadCard(r) \/ UpdateCard(r) \/ Succeeds(r) \/ Fails(r)
    PROVE  TypeOK'
<1> DEFINE q == request[r]
<1>0. q \in Request
  BY DEF TypeOK
<1>1. CASE CreateCard(r)
  <2>1. PICK c \in Cards :
          /\ status' = [status EXCEPT ![c] = "live"]
          /\ row' = [row EXCEPT ![c] = q.text]
          /\ origin' = [origin EXCEPT ![c] = q.form]
          /\ Answered(r, [pc |-> "done", card |-> c, text |-> q.text, created |-> TRUE])
    BY <1>1 DEF CreateCard
  <2>2. q.text \in Filled /\ q.form \in Forms
    BY <1>0, <1>1, PostShape DEF CreateCard
  <2>3. [pc |-> "done", card |-> c, text |-> q.text, created |-> TRUE] \in Request
    BY <2>2 DEF Request
  <2>4. request' \in [Requests -> Request]
    BY <2>1, <2>3, IdleShape DEF Answered, TypeOK
  <2> QED BY <1>1, <2>1, <2>2, <2>4, NullAssumption DEF CreateCard, TypeOK, Texts, editor
<1>2. CASE UpdateCard(r)
  <2>1. /\ q.text \in Filled /\ q.card \in Cards
        /\ q.before \in Domains \cup {NoDomain}
    BY <1>0, <1>2, IdleShape, RequestShape DEF UpdateCard
  <2>2. PICK fresh \in Filled : fresh = Rewritten(q.text, q.before)
    BY <2>1, RewrittenSays
  <2>3. [pc |-> "done", card |-> q.card, text |-> fresh, created |-> FALSE] \in Request
    BY <2>1 DEF Request
  <2>4. request' \in [Requests -> Request]
    BY <1>2, <2>2, <2>3, IdleShape DEF UpdateCard, Answered, TypeOK
  <2>5. row' = [row EXCEPT ![q.card] = fresh] /\ status[q.card] = "live"
    BY <1>2, <2>2 DEF UpdateCard, Updatable
  <2> QED BY <1>2, <2>1, <2>4, <2>5, NullAssumption DEF UpdateCard, TypeOK, Texts, editor
<1>5. CASE ReadCard(r)
  <2>1. q.text \in Filled /\ q.card \in Cards /\ q.mine \in BOOLEAN
    BY <1>0, <1>5, IdleShape, RequestShape DEF ReadCard
  <2>2. row[q.card].domain \in Domains \cup {NoDomain}
    BY <1>5, <2>1 DEF ReadCard, TypeOK, Filled
  <2>3. [pc |-> "read", card |-> q.card, text |-> q.text, mine |-> q.mine,
         before |-> row[q.card].domain] \in Request
    BY <2>1, <2>2 DEF Request
  <2>4. request' \in [Requests -> Request]
    BY <1>5, <2>3 DEF ReadCard, TypeOK
  <2> QED BY <1>5, <2>4 DEF ReadCard, TypeOK, table, editor
<1>3. CASE Succeeds(r)
  <2>1. q.text \in Filled /\ q.card \in Cards
    BY <1>0, <1>3, IdleShape, RequestShape DEF Succeeds
  <2>2. request' \in [Requests -> Request] /\ cached' \in [Cards -> Filled \cup {NoRow}]
    BY <1>3, <2>1, IdleShape DEF Succeeds, TypeOK
  <2> QED BY <1>3, <2>1, <2>2 DEF Succeeds, GoesTo, TypeOK, table, Texts
<1>4. CASE Fails(r)
  <2>1. request' \in [Requests -> Request]
    BY <1>0, <1>4, GivenUp, IdleShape DEF Fails, TypeOK
  <2> QED BY <1>4, <2>1 DEF Fails, TypeOK, table
<1> QED BY <1>1, <1>2, <1>3, <1>4, <1>5

LEMMA TypeStep == TypeOK /\ [Next]_vars => TypeOK'
<1> SUFFICES ASSUME TypeOK, [Next]_vars PROVE TypeOK'
  OBVIOUS
<1>1. CASE Next
  BY <1>1, ScreenType, CardType, ServerType DEF Next, PressSave, Hide
<1>2. CASE UNCHANGED vars
  BY <1>2 DEF vars, table, editor, TypeOK
<1> QED BY <1>1, <1>2

(* Rows, saves in flight and the form stay in their types, for any number  *)
(* of cards and saves (CardEditorPage, handleCreateCard, handleUpdateCard).*)
THEOREM TypeCorrect == Spec => []TypeOK
  BY TypeInit, TypeStep, PTL DEF Spec

-----------------------------------------------------------------------------
(* One visit, one card.  A visit that is not in doubt has at most one      *)
(* creation on its way and then no card yet; and while its form is on the  *)
(* screen, the creation is the save the editor awaits.                     *)

OnePost ==
    \A r \in Requests : request[r].pc = "post" /\ request[r].form \notin doubted =>
        /\ \A s \in Posts(request[r].form) : s = r
        /\ \A c \in Cards : origin[c] # request[r].form

FormOnScreen ==
    open /\ place = New /\ form \notin doubted =>
        /\ \A c \in Cards : origin[c] = form => \E r \in Requests : Created(r, form)
        /\ \A r \in Posts(form) : r = awaited /\ request[r].mine
        /\ \A r \in Requests : Created(r, form) => r = awaited

OriginsFit ==
    /\ \A c \in Cards : status[c] = "none" => origin[c] = NoRow
    /\ \A r \in Requests :
          request[r].pc = "done" /\ request[r].created => origin[request[r].card] # NoRow

VisitInv == SecondCardNeedsDoubt /\ OnePost /\ FormOnScreen /\ OriginsFit

IInv == TypeOK /\ VisitInv

(* Steps that create nothing and leave the form where it is.               *)
LEMMA Unseen ==
    ASSUME TypeOK, VisitInv,
           UNCHANGED <<origin, open, place, form, awaited, doubted>>,
           \A c \in Cards : status'[c] = "none" => status[c] = "none",
           \A r \in Requests :
              \/ request'[r] = request[r]
              \/ /\ request[r].pc # "post" /\ request'[r].pc # "post"
                 /\ ~ (request[r].pc = "done" /\ request[r].created)
                 /\ ~ (request'[r].pc = "done" /\ request'[r].created)
    PROVE  VisitInv'
<1>1. \A f \in Forms : Posts(f)' = Posts(f)
  BY DEF Posts
<1>2. \A r \in Requests : Created(r, form)' <=> Created(r, form)
  BY DEF Created
<1>3. SecondCardNeedsDoubt'
  BY DEF VisitInv, SecondCardNeedsDoubt
<1>4. OnePost'
  BY <1>1, PostShape DEF VisitInv, OnePost, Posts, TypeOK
<1>5. FormOnScreen'
  BY <1>1, <1>2 DEF VisitInv, FormOnScreen, Posts, TypeOK
<1>6. OriginsFit'
  BY DEF VisitInv, OriginsFit
<1> QED BY <1>3, <1>4, <1>5, <1>6 DEF VisitInv

(* Requests end, are given up or are cut off.                              *)
LEMMA NoNewPost ==
    ASSUME TypeOK, VisitInv, UNCHANGED origin, doubted \subseteq doubted',
           \A r \in Requests : request'[r].pc = "post" =>
              request[r].pc = "post" /\ request'[r].form = request[r].form
    PROVE  OnePost' /\ SecondCardNeedsDoubt'
<1>1. SecondCardNeedsDoubt'
  BY DEF VisitInv, SecondCardNeedsDoubt
<1>2. OnePost'
  BY DEF VisitInv, OnePost, Posts
<1> QED BY <1>1, <1>2

(* One of them is the creation of the card on the screen.                  *)
LEMMA NewPost ==
    ASSUME TypeOK, VisitInv, UNCHANGED origin, open, Notes,
           NEW p \in Requests, request'[p].pc = "post" => place = New /\ request'[p].form = form,
           \A r \in Requests \ {p} : request'[r].pc = "post" =>
              request[r].pc = "post" /\ request'[r].form = request[r].form
    PROVE  OnePost' /\ SecondCardNeedsDoubt'
<1>0. doubted \subseteq doubted' /\ (InDoubt => form \in doubted')
  BY DEF Notes
<1>1. CASE request'[p].pc # "post"
  BY <1>0, <1>1, NoNewPost
<1>2. CASE request'[p].pc = "post"
  <2>1. SecondCardNeedsDoubt'
    BY <1>0 DEF VisitInv, SecondCardNeedsDoubt
  <2>2. ASSUME form \notin doubted'
        PROVE  /\ \A r \in Requests \ {p} :
                     request'[r].pc = "post" => request'[r].form # form
               /\ \A c \in Cards : origin[c] # form
    <3>1. ~ InDoubt /\ form \notin doubted /\ place = New
      BY <1>0, <1>2, <2>2
    <3>2. Posts(form) = {} /\ \A r \in Requests : ~ Created(r, form)
      BY <3>1 DEF InDoubt
    <3> QED BY <3>1, <3>2 DEF VisitInv, FormOnScreen, Posts
  <2>3. OnePost'
    <3> SUFFICES ASSUME NEW r \in Requests, request'[r].pc = "post",
                        request'[r].form \notin doubted'
                 PROVE  /\ \A s \in Requests : request'[s].pc = "post"
                              /\ request'[s].form = request'[r].form => s = r
                        /\ \A c \in Cards : origin[c] # request'[r].form
      BY DEF OnePost, Posts
    <3>1. CASE request'[r].form = form
      BY <1>2, <2>2, <3>1
    <3>2. CASE request'[r].form # form
      <4>1. r # p /\ \A s \in Requests : request'[s].pc = "post"
                        /\ request'[s].form = request'[r].form => s # p
        BY <1>2, <3>2
      <4> QED BY <1>0, <4>1 DEF VisitInv, OnePost, Posts
    <3> QED BY <3>1, <3>2
  <2> QED BY <2>1, <2>3
<1> QED BY <1>1, <1>2

LEMMA PersistVisit ==
    ASSUME TypeOK, VisitInv, Persist
    PROVE  VisitInv'
<1>1. PICK p \in Free : request' = [request EXCEPT ![p] = Write(TRUE)] /\ awaited' = p
  BY DEF Persist
<1>2. /\ p \in Requests /\ request'[p] = Write(TRUE)
      /\ \A r \in Requests \ {p} : request'[r] = request[r]
      /\ request[p] = Idle
  BY <1>1 DEF Free, TypeOK
<1>3. /\ request'[p].pc \in {"post", "patch"}
      /\ request'[p].pc = "post" =>
            place = New /\ request'[p].form = form /\ request'[p].mine
  BY <1>2, WriteShape DEF Persist
<1>4. /\ UNCHANGED <<origin, status, open, place, form>> /\ open /\ Notes
  BY DEF Persist, table, Dirty
<1>5. OnePost' /\ SecondCardNeedsDoubt'
  BY <1>2, <1>3, <1>4, NewPost
<1>6. FormOnScreen'
  <2> SUFFICES ASSUME place = New, form \notin doubted' PROVE FormOnScreen'
    BY <1>4 DEF FormOnScreen
  <2>1. ~ InDoubt /\ form \notin doubted
    BY <1>4 DEF Notes
  <2>2. Posts(form) = {} /\ \A r \in Requests : ~ Created(r, form)
    BY <2>1 DEF InDoubt
  <2>3. \A c \in Cards : origin[c] # form
    BY <1>4, <2>1, <2>2 DEF VisitInv, FormOnScreen
  <2>4. \A r \in Requests : r \in Posts(form)' => r = p
    BY <1>2, <1>4, <2>2 DEF Posts
  <2>5. \A r \in Requests : ~ Created(r, form)'
    BY <1>2, <1>3, <1>4, <2>2 DEF Created
  <2> QED BY <1>1, <1>2, <1>3, <1>4, <2>3, <2>4, <2>5 DEF FormOnScreen, Posts
<1>7. OriginsFit'
  BY <1>2, <1>3, <1>4 DEF VisitInv, OriginsFit
<1> QED BY <1>5, <1>6, <1>7 DEF VisitInv

(* Off the screen only what is on its way matters.                         *)
LEMMA DepartVisit ==
    ASSUME TypeOK, VisitInv, Leave \/ CloseTab \/ DeleteSucceeds
    PROVE  VisitInv'
<1>1. UNCHANGED <<origin, status>> /\ open /\ FormOnScreen'
  BY DEF Leave, CloseTab, DeleteSucceeds, Gone, table, FormOnScreen
<1>2. CASE Leave /\ SavesOnLeaving
  <2>1. PICK p \in Free : request' = [request EXCEPT ![p] = Write(TRUE)]
    BY <1>2 DEF Leave
  <2>2. /\ p \in Requests /\ request'[p] = Write(TRUE)
        /\ \A r \in Requests \ {p} : request'[r] = request[r]
    BY <2>1 DEF Free, TypeOK
  <2>3. Notes /\ Valid
    BY <1>2 DEF Leave, SavesOnLeaving
  <2>4. OnePost' /\ SecondCardNeedsDoubt'
    BY <1>1, <2>2, <2>3, WriteShape, NewPost
  <2>5. OriginsFit'
    BY <1>1, <2>2, <2>3, WriteShape DEF VisitInv, OriginsFit
  <2> QED BY <1>1, <2>4, <2>5 DEF VisitInv
<1>3. CASE (Leave /\ ~ SavesOnLeaving) \/ DeleteSucceeds
  <2>1. UNCHANGED <<request, doubted>>
    BY <1>3 DEF Leave, DeleteSucceeds
  <2> QED BY <1>1, <2>1 DEF VisitInv, SecondCardNeedsDoubt, OnePost, Posts, OriginsFit
<1>4. CASE CloseTab
  <2>1. PICK left \in [Requests -> Request] :
              /\ \A r \in Requests :
                    /\ left[r].pc \in {"idle", "post", "patch", "read"}
                    /\ left[r].pc = "post" =>
                          request[r].pc = "post" /\ left[r].form = request[r].form
              /\ \/ /\ Dirty /\ Valid /\ Notes
                    /\ \E r \in Free : request' = [left EXCEPT ![r] = Write(FALSE)]
                 \/ request' = left /\ UNCHANGED doubted
    BY <1>4, AfterClosing
  <2>2. CASE request' = left /\ UNCHANGED doubted
    <3>1. OnePost' /\ SecondCardNeedsDoubt'
      BY <1>1, <2>1, <2>2, NoNewPost
    <3>2. OriginsFit'
      BY <1>1, <2>1, <2>2 DEF VisitInv, OriginsFit
    <3> QED BY <1>1, <3>1, <3>2 DEF VisitInv
  <2>3. CASE /\ Dirty /\ Valid /\ Notes
             /\ \E r \in Free : request' = [left EXCEPT ![r] = Write(FALSE)]
    <3>1. PICK p \in Free : request' = [left EXCEPT ![p] = Write(FALSE)]
      BY <2>3
    <3>2. /\ p \in Requests /\ request'[p] = Write(FALSE)
          /\ \A r \in Requests \ {p} : request'[r] = left[r]
      BY <2>1, <3>1 DEF Free
    <3>5. \A r \in Requests \ {p} : request'[r].pc = "post" =>
              request[r].pc = "post" /\ request'[r].form = request[r].form
      BY <2>1, <3>2
    <3>6. request'[p].pc = "post" => place = New /\ request'[p].form = form
      BY <2>3, <3>2, WriteShape
    <3>3. OnePost' /\ SecondCardNeedsDoubt'
      BY <1>1, <2>3, <3>2, <3>5, <3>6, NewPost
    <3>4. OriginsFit'
      BY <1>1, <2>1, <2>3, <3>2, WriteShape DEF VisitInv, OriginsFit
    <3> QED BY <1>1, <3>3, <3>4 DEF VisitInv
  <2> QED BY <2>1, <2>2, <2>3
<1> QED BY <1>2, <1>3, <1>4

LEMMA OpenNewVisit ==
    ASSUME TypeOK, VisitInv, OpenNew
    PROVE  VisitInv'
<1>1. PICK f \in Forms : /\ Posts(f) = {} /\ \A c \in Cards : origin[c] # f
                        /\ form' = f /\ doubted' = doubted \ {f}
  BY DEF OpenNew
<1>2. UNCHANGED <<origin, status, request>>
  BY DEF OpenNew, table
<1>3. SecondCardNeedsDoubt'
  BY <1>1, <1>2 DEF VisitInv, SecondCardNeedsDoubt
<1>4. OnePost'
  BY <1>1, <1>2 DEF VisitInv, OnePost, Posts
<1>5. FormOnScreen'
  <2>1. \A r \in Requests : ~ Created(r, f)
    <3> SUFFICES ASSUME NEW r \in Requests, Created(r, f) PROVE FALSE
      OBVIOUS
    <3>1. request[r].card \in Cards
      BY IdleShape, RequestShape DEF Created, TypeOK
    <3> QED BY <1>1, <3>1 DEF Created
  <2> QED BY <1>1, <1>2, <2>1 DEF FormOnScreen, Posts, Created
<1>6. OriginsFit'
  BY <1>2 DEF VisitInv, OriginsFit
<1> QED BY <1>3, <1>4, <1>5, <1>6 DEF VisitInv

(* The creation that is served is the only one of its visit, unless that   *)
(* is in doubt.                                                            *)
LEMMA CreateVisit ==
    ASSUME TypeOK, VisitInv, NEW r \in Requests, CreateCard(r)
    PROVE  VisitInv'
<1> DEFINE f == request[r].form
<1>1. PICK c \in Cards :
          /\ status[c] = "none"
          /\ status' = [status EXCEPT ![c] = "live"]
          /\ origin' = [origin EXCEPT ![c] = f]
          /\ Answered(r, [pc |-> "done", card |-> c, text |-> request[r].text,
                          created |-> TRUE])
  BY DEF CreateCard
<1>2. /\ request[r].pc = "post" /\ f \in Forms /\ f # NoRow
      /\ request[r].mine \in BOOLEAN
      /\ UNCHANGED <<open, place, form, awaited, doubted>>
  BY PostShape, NullAssumption DEF CreateCard, editor, TypeOK
<1>3. /\ origin[c] = NoRow /\ origin'[c] = f
      /\ \A d \in Cards \ {c} : origin'[d] = origin[d]
  BY <1>1 DEF VisitInv, OriginsFit, TypeOK
<1>4. /\ \A s \in Requests \ {r} : request'[s] = request[s]
      /\ request[r].mine => /\ request'[r].pc = "done" /\ request'[r].created
                            /\ request'[r].card = c
      /\ ~ request[r].mine => request'[r] = Idle
      /\ request'[r].pc # "post"
  BY <1>1, <1>2, IdleShape DEF Answered, TypeOK
<1>5. \A s \in Requests \ {r} : request[s].pc = "done" /\ request[s].created =>
          request[s].card \in Cards \ {c}
  BY <1>3, IdleShape, RequestShape DEF VisitInv, OriginsFit, TypeOK
<1>6. SecondCardNeedsDoubt'
  <2>1. f \notin doubted => \A d \in Cards : origin[d] # f
    BY <1>2 DEF VisitInv, OnePost
  <2> QED BY <1>2, <1>3, <2>1 DEF VisitInv, SecondCardNeedsDoubt
<1>7. OnePost'
  <2> SUFFICES ASSUME NEW s \in Requests, request'[s].pc = "post",
                      request'[s].form \notin doubted
               PROVE  /\ \A p \in Requests : request'[p].pc = "post"
                            /\ request'[p].form = request'[s].form => p = s
                      /\ \A d \in Cards : origin'[d] # request'[s].form
    BY <1>2 DEF OnePost, Posts
  <2>1. s # r /\ request'[s] = request[s]
    BY <1>4
  <2>2. /\ \A p \in Posts(request[s].form) : p = s
        /\ \A d \in Cards : origin[d] # request[s].form
    BY <2>1 DEF VisitInv, OnePost
  <2>3. f # request[s].form
    BY <1>2, <2>1, <2>2 DEF Posts
  <2> QED BY <1>3, <1>4, <2>1, <2>2, <2>3 DEF Posts
<1>8. FormOnScreen'
  <2> SUFFICES ASSUME open, place = New, form \notin doubted
               PROVE  /\ \A d \in Cards : origin'[d] = form =>
                            \E s \in Requests : Created(s, form)'
                      /\ \A s \in Requests : request'[s].pc = "post"
                            /\ request'[s].form = form => s = awaited /\ request'[s].mine
                      /\ \A s \in Requests : Created(s, form)' => s = awaited
    BY <1>2 DEF FormOnScreen, Posts
  <2>1. /\ \A d \in Cards : origin[d] = form => \E s \in Requests : Created(s, form)
        /\ \A s \in Posts(form) : s = awaited /\ request[s].mine
        /\ \A s \in Requests : Created(s, form) => s = awaited
    BY DEF VisitInv, FormOnScreen
  <2>2. \A s \in Requests \ {r} : Created(s, form)' <=> Created(s, form)
    BY <1>2, <1>3, <1>4, <1>5 DEF Created
  <2>3. f = form => r = awaited /\ request[r].mine
    BY <1>2, <2>1 DEF Posts
  <2>4. Created(r, form)' => f = form
    BY <1>2, <1>3, <1>4, IdleShape DEF Created
  <2>5. f = form => Created(r, form)'
    BY <1>2, <1>3, <1>4, <2>3 DEF Created
  <2>6. ~ Created(r, form)
    BY <1>2 DEF Created
  <2>7. \A s \in Requests : request'[s].pc = "post" /\ request'[s].form = form
           => s = awaited /\ request'[s].mine
    BY <1>4, <2>1 DEF Posts
  <2> QED BY <1>3, <2>1, <2>2, <2>3, <2>4, <2>5, <2>6, <2>7
<1>9. OriginsFit'
  <2>1. \A d \in Cards : status'[d] = "none" => d # c /\ status[d] = "none"
    BY <1>1 DEF TypeOK
  <2>2. \A s \in Requests : request'[s].pc = "done" /\ request'[s].created =>
           origin'[request'[s].card] # NoRow
    BY <1>2, <1>3, <1>4, <1>5, IdleShape DEF VisitInv, OriginsFit
  <2> QED BY <1>3, <2>1, <2>2 DEF VisitInv, OriginsFit
<1> QED BY <1>6, <1>7, <1>8, <1>9 DEF VisitInv

(* The answer moves the screen off the form before anything else can be    *)
(* saved from it.                                                          *)
LEMMA SucceedsVisit ==
    ASSUME TypeOK, VisitInv, NEW r \in Requests, Succeeds(r)
    PROVE  VisitInv'
<1>1. /\ UNCHANGED <<origin, status, open, form, doubted>>
      /\ request[r].pc = "done" /\ request'[r] = Idle
      /\ \A s \in Requests \ {r} : request'[s] = request[s]
  BY DEF Succeeds, table, TypeOK
<1>2. request[r].card \in Cards
  BY <1>1, IdleShape, RequestShape DEF TypeOK
<1>3. OnePost' /\ SecondCardNeedsDoubt'
  BY <1>1, IdleShape, NoNewPost
<1>4. FormOnScreen'
  <2>1. CASE r = awaited
    <3>1. place' # New
      BY <1>2, <2>1, NullAssumption DEF Succeeds, GoesTo
    <3> QED BY <3>1 DEF FormOnScreen
  <2>2. CASE r # awaited
    <3>1. UNCHANGED <<awaited, place>>
      BY <2>2 DEF Succeeds
    <3> SUFFICES ASSUME open, place = New, form \notin doubted PROVE FormOnScreen'
      BY <1>1, <3>1 DEF FormOnScreen
    <3>2. ~ Created(r, form)
      BY <2>2 DEF VisitInv, FormOnScreen
    <3>3. \A s \in Requests : Created(s, form)' <=> Created(s, form)
      BY <1>1, <3>2, IdleShape DEF Created
    <3>4. \A s \in Posts(form)' : s \in Posts(form) /\ request'[s] = request[s]
      BY <1>1, IdleShape DEF Posts
    <3> QED BY <1>1, <3>1, <3>3, <3>4 DEF VisitInv, FormOnScreen
  <2> QED BY <2>1, <2>2
<1>5. OriginsFit'
  BY <1>1, IdleShape DEF VisitInv, OriginsFit
<1> QED BY <1>3, <1>4, <1>5 DEF VisitInv

LEMMA FailsVisit ==
    ASSUME TypeOK, VisitInv, NEW r \in Requests, Fails(r)
    PROVE  VisitInv'
<1>1. /\ UNCHANGED <<origin, status, open, place, form>>
      /\ doubted' = doubted \cup {f \in Forms : Created(r, f) \/ r \in Posts(f)}
      /\ \A s \in Requests \ {r} : request'[s] = request[s]
      /\ awaited' = IF r = awaited THEN Nobody ELSE awaited
  BY DEF Fails, table, TypeOK
<1>2. /\ request'[r].pc = "post" =>
            request[r].pc = "post" /\ request'[r].form = request[r].form
      /\ request'[r].pc # "done"
  <2>1. CASE request'[r] = Idle
    BY <2>1, IdleShape
  <2>2. CASE /\ request[r].pc \in {"post"} \cup Changes /\ request[r].mine
             /\ request' = [request EXCEPT ![r].mine = FALSE]
    <3>1. request'[r] = [request[r] EXCEPT !.mine = FALSE] /\ request[r] \in Request
      BY <2>2 DEF TypeOK
    <3> QED BY <2>2, <3>1, GivenUp
  <2> QED BY <2>1, <2>2 DEF Fails, TypeOK
<1>3. OnePost' /\ SecondCardNeedsDoubt'
  BY <1>1, <1>2, NoNewPost
<1>4. FormOnScreen'
  <2> SUFFICES ASSUME open, place = New, form \notin doubted' PROVE FormOnScreen'
    BY <1>1 DEF FormOnScreen
  <2>1. form \in Forms /\ form \notin doubted /\ ~ Created(r, form) /\ r \notin Posts(form)
    BY <1>1 DEF TypeOK
  <2>2. \A s \in Requests : Created(s, form)' <=> Created(s, form)
    BY <1>1, <1>2, <2>1 DEF Created
  <2>3. \A s \in Posts(form)' :
           s \in Posts(form) /\ s # r /\ request'[s] = request[s]
    BY <1>1, <1>2, <2>1 DEF Posts
  <2>4. \A s \in Requests : s # r /\ s = awaited => s = awaited'
    BY <1>1
  <2> QED BY <1>1, <2>1, <2>2, <2>3, <2>4 DEF VisitInv, FormOnScreen
<1>5. OriginsFit'
  BY <1>1, <1>2 DEF VisitInv, OriginsFit
<1> QED BY <1>3, <1>4, <1>5 DEF VisitInv

LEMMA QuietVisit ==
    ASSUME TypeOK, VisitInv,
           \/ Type \/ UNCHANGED vars
           \/ \E c \in Cards : Refetch(c) \/ Trash(c) \/ Restore(c)
           \/ \E r \in Requests : ReadCard(r) \/ UpdateCard(r)
    PROVE  VisitInv'
<1>1. UNCHANGED <<origin, open, place, form, awaited, doubted>>
  BY DEF Type, vars, Refetch, Trash, Restore, ReadCard, UpdateCard, table, editor
<1>2. \A c \in Cards : status'[c] = "none" => status[c] = "none"
  BY DEF Type, vars, Refetch, Trash, Restore, ReadCard, UpdateCard, table, editor, TypeOK
<1>3. CASE UNCHANGED request
  BY <1>1, <1>2, <1>3, Unseen
<1>4. CASE \E r \in Requests : ReadCard(r) \/ UpdateCard(r)
  <2>1. PICK r \in Requests : ReadCard(r) \/ UpdateCard(r)
    BY <1>4
  <2>2. /\ request[r].pc \in Changes
        /\ \A s \in Requests \ {r} : request'[s] = request[s]
        /\ request'[r].pc # "post" /\ ~ (request'[r].pc = "done" /\ request'[r].created)
    <3>1. CASE ReadCard(r)
      <4>1. request'[r].pc = "read"
        BY <3>1 DEF ReadCard, TypeOK
      <4> QED BY <3>1, <4>1 DEF ReadCard, TypeOK
    <3>2. CASE UpdateCard(r)
      <4>1. PICK fresh : Answered(r, [pc |-> "done", card |-> request[r].card,
                                      text |-> fresh, created |-> FALSE])
        BY <3>2 DEF UpdateCard
      <4> QED BY <3>2, <4>1, IdleShape DEF UpdateCard, Answered, TypeOK
    <3> QED BY <2>1, <3>1, <3>2
  <2> QED BY <1>1, <1>2, <2>2, Unseen
<1> QED BY <1>3, <1>4 DEF Type, vars, Refetch, Trash, Restore, editor

LEMMA OpenCardVisit ==
    ASSUME TypeOK, VisitInv, NEW c \in Cards, OpenCard(c)
    PROVE  VisitInv'
<1>1. place' # New /\ UNCHANGED <<origin, status, request, doubted>>
  BY NullAssumption DEF OpenCard, table
<1> QED BY <1>1
  DEF VisitInv, SecondCardNeedsDoubt, OnePost, Posts, FormOnScreen, OriginsFit

-----------------------------------------------------------------------------
LEMMA IInvInit == Init => IInv
<1> SUFFICES ASSUME Init PROVE IInv
  OBVIOUS
<1>1. TypeOK
  BY TypeInit
<1>2. VisitInv
  BY IdleShape
  DEF Init, VisitInv, SecondCardNeedsDoubt, OnePost, FormOnScreen, OriginsFit
<1> QED BY <1>1, <1>2 DEF IInv

LEMMA IInvStep == IInv /\ [Next]_vars => IInv'
<1> SUFFICES ASSUME TypeOK, VisitInv, [Next]_vars PROVE VisitInv'
  BY TypeStep DEF IInv
<1>1. CASE Persist \/ Leave \/ CloseTab \/ DeleteSucceeds \/ OpenNew
  BY <1>1, PersistVisit, DepartVisit, OpenNewVisit
<1>2. CASE \E r \in Requests : CreateCard(r) \/ Succeeds(r) \/ Fails(r)
  BY <1>2, CreateVisit, SucceedsVisit, FailsVisit
<1>3. CASE \E c \in Cards : OpenCard(c)
  BY <1>3, OpenCardVisit
<1>4. CASE \/ Type \/ UNCHANGED vars
           \/ \E c \in Cards : Refetch(c) \/ Trash(c) \/ Restore(c)
           \/ \E r \in Requests : ReadCard(r) \/ UpdateCard(r)
  BY <1>4, QuietVisit
<1> QED BY <1>1, <1>2, <1>3, <1>4 DEF Next, PressSave, Hide

(* A visit of /cards/new never makes two cards unless it saved again while *)
(* its creation was in doubt: the navigation that a success starts leaves  *)
(* no moment in between (CardEditorPage.tsx:125-131).                      *)
THEOREM SecondCardNeedsDoubtHolds == Spec => []SecondCardNeedsDoubt
<1>1. IInv => SecondCardNeedsDoubt
  BY DEF IInv, VisitInv
<1> QED BY <1>1, IInvInit, IInvStep, PTL DEF Spec

(* No save reaches a card that is in the trash: UpdateCard's own WHERE.    *)
THEOREM DeletedCardsStayHolds == Spec => DeletedCardsStay
<1>1. ASSUME TypeOK, [Next]_vars, NEW c \in Cards, status[c] = "trashed"
      PROVE  row'[c] = row[c]
  <2>1. CASE \E r \in Requests : CreateCard(r)
    BY <1>1, <2>1 DEF CreateCard, TypeOK
  <2>2. CASE \E r \in Requests : UpdateCard(r)
    BY <1>1, <2>2 DEF UpdateCard, Updatable, TypeOK
  <2>3. CASE UNCHANGED row
    BY <2>3
  <2>4. CASE ~ (\E r \in Requests : CreateCard(r) \/ UpdateCard(r))
    <3>1. UNCHANGED row
      BY <1>1, <2>4 DEF Next, PressSave, Hide, Persist, Type, OpenNew, Leave, CloseTab,
         DeleteSucceeds, OpenCard, Refetch, Trash, Restore, ReadCard, Succeeds, Fails,
         vars, table, editor
    <3> QED BY <3>1
  <2> QED BY <2>1, <2>2, <2>4
<1>2. TypeOK /\ [Next]_vars => [\A c \in Cards : status[c] = "trashed" => row'[c] = row[c]]_vars
  BY <1>1
<1> QED BY <1>2, TypeCorrect, PTL DEF Spec, DeletedCardsStay

-----------------------------------------------------------------------------
(* What was typed is kept.  The saves on their way to the card on the      *)
(* screen carry one text while nothing was put at risk, and a form that    *)
(* was left has its text in a creation on its way or in the card it made.  *)

(* Only cards that were created are reached by an id.                      *)
Known ==
    /\ \A r \in Requests :
          request[r].pc \in Changes \cup {"done"} => status[request[r].card] # "none"
    /\ \A c \in Cards : cached[c] # NoRow => status[c] # "none"
    /\ place # New => status[place] # "none"

(* The save r, when the editor awaits it, is of what is on the screen.     *)
Fits(r) ==
    /\ open /\ request[r] # Idle
    /\ request[r].pc # "done" => request[r].text # saved /\ request[r].mine
    /\ place # New => request[r].pc # "post" /\ request[r].card = place
    /\ place = New => request[r].pc \notin Changes
    /\ place = New /\ request[r].pc = "done" =>
          /\ request[r].created /\ row[request[r].card] = request[r].text
          /\ Patches(request[r].card) = {}

AwaitedFits == awaited \in Requests => Fits(awaited)

FormSettled ==
    /\ open /\ place = New => saved = Empty
    /\ open /\ place # New => saved \in Filled
    /\ place = New => \A c \in Cards : origin[c] = form => Patches(c) = {}

(* The row has a text, but for a domain the text does without.             *)
Kept(c, text) == row[c] = Rewritten(text, row[c].domain)

(* A change without a domain has read the one the row has.  This need not  *)
(* hold when nothing is awaited and no domain is saved either.             *)
ReadsHold(c) ==
    \A p \in Patches(c) :
        request[p].pc = "read" /\ request[p].text.domain = NoDomain =>
            request[p].before = row[c].domain

Agree(c) == \A p, q \in Patches(c) : request[p].text = request[q].text
Level(c) == \A p \in Patches(c) : Kept(c, request[p].text)
Becomes(c, text) ==
    /\ \A p \in Patches(c) : request[p].text = text
    /\ Patches(c) = {} => Kept(c, text)

CardKept ==
    /\ Agree(place)
    /\ ~ open /\ Valid => Becomes(place, screen)
    /\ open /\ (awaited # Nobody \/ saved.domain # NoDomain) => ReadsHold(place)
    /\ open /\ awaited = Nobody => Kept(place, saved) /\ Level(place)
    /\ awaited \in Requests /\ request[awaited].pc = "done" =>
          request[awaited].text = row[place] /\ Level(place)

FormKept ==
    ~ open /\ Valid =>
        \/ \E r \in Posts(form) : request[r].text = screen
        \/ \E c \in Cards : origin[c] = form /\ row[c] = screen

TypedKept ==
    ~ exposed => (place # New => CardKept) /\ (place = New => FormKept)

KeepInv == Known /\ AwaitedFits /\ FormSettled /\ TypedKept

LEMMA ClosedAwaitsNothing ==
    ASSUME TypeOK, AwaitedFits, ~ open
    PROVE  awaited = Nobody
  BY DEF TypeOK, AwaitedFits, Fits

LEMMA RowIsFilled ==
    ASSUME TypeOK, NEW c \in Cards, status[c] # "none"
    PROVE  row[c] \in Filled /\ row[c].domain \in Domains \cup {NoDomain}
  BY DEF TypeOK, Filled

LEMMA PatchShape ==
    ASSUME TypeOK, NEW c \in Cards, NEW p \in Patches(c)
    PROVE  /\ p \in Requests /\ request[p].text \in Filled
           /\ request[p].text.domain \in Domains \cup {NoDomain}
           /\ request[p].pc = "read" => request[p].before \in Domains \cup {NoDomain}
<1>1. p \in Requests /\ request[p] \in Request /\ request[p].pc \in Changes
  BY DEF TypeOK, Patches
<1> QED BY <1>1, IdleShape, RequestShape DEF Filled

(* Two texts a row both has are one, if both do without a domain; and what *)
(* has one text still has the other after the first is written again.      *)
LEMMA HasBoth ==
    ASSUME NEW old \in Filled, NEW s \in Filled, NEW u \in Filled,
           old = Rewritten(s, old.domain), old = Rewritten(u, old.domain)
    PROVE  /\ s.domain = NoDomain /\ u.domain = NoDomain => s = u
           /\ \A before \in Domains \cup {NoDomain} :
                 (s.domain # NoDomain /\ u.domain = NoDomain => before = old.domain) =>
                    Rewritten(u, before) =
                        Rewritten(s, Rewritten(u, before).domain)
<1>1. /\ old.domain \in Domains \cup {NoDomain} /\ s.domain \in Domains \cup {NoDomain}
      /\ u.domain \in Domains \cup {NoDomain}
  BY DEF Filled
<1>2. ASSUME NEW x \in Filled, old = Rewritten(x, old.domain)
      PROVE  /\ x.sides = old.sides
             /\ x.domain = NoDomain \/ x = old
  BY <1>1, <1>2 DEF Rewritten, Filled
<1>3. s.domain = NoDomain /\ u.domain = NoDomain => s = u
  BY <1>2 DEF Filled
<1>4. ASSUME NEW before \in Domains \cup {NoDomain},
             s.domain # NoDomain /\ u.domain = NoDomain => before = old.domain
      PROVE  Rewritten(u, before) = Rewritten(s, Rewritten(u, before).domain)
  <2>1. CASE s.domain # NoDomain
    <3>1. Rewritten(u, before) = old
      <4>1. CASE u.domain = NoDomain
        BY <1>4, <2>1, <4>1
      <4>2. CASE u.domain # NoDomain
        BY <1>2, <4>2, RewrittenSays
      <4> QED BY <4>1, <4>2
    <3> QED BY <3>1
  <2>2. CASE s.domain = NoDomain
    <3>1. PICK w \in Filled : w = Rewritten(u, before)
      BY RewrittenSays
    <3>2. w.sides = s.sides
      <4>1. w.sides = u.sides
        BY <3>1 DEF Rewritten, Filled
      <4> QED BY <1>2, <4>1
    <3>3. w = Rewritten(s, w.domain)
      BY <2>2, <3>2 DEF Rewritten, Filled
    <3> QED BY <3>1, <3>3
  <2> QED BY <2>1, <2>2
<1> QED BY <1>3, <1>4

(* Changes that end or are given up leave the others what they were.       *)
Goes(s) ==
    request'[s].pc \in Changes =>
        /\ request'[s].pc = request[s].pc /\ request'[s].card = request[s].card
        /\ request'[s].text = request[s].text
        /\ request[s].pc = "read" => request'[s].before = request[s].before

LEMMA FewerPatches ==
    ASSUME \A s \in Requests : Goes(s), NEW c \in Cards
    PROVE  /\ \A s \in Patches(c)' : s \in Patches(c) /\ request'[s].text = request[s].text
           /\ Patches(c) = {} => Patches(c)' = {}
           /\ Agree(c) => Agree(c)'
           /\ row'[c] = row[c] => /\ Level(c) => Level(c)'
                                  /\ ReadsHold(c) => ReadsHold(c)'
<1>1. \A s \in Patches(c)' :
         /\ s \in Patches(c) /\ request'[s].text = request[s].text
         /\ request'[s].pc = "read" =>
               request[s].pc = "read" /\ request'[s].before = request[s].before
  BY DEF Patches, Goes
<1>2. row'[c] = row[c] => /\ Level(c) => Level(c)'
                          /\ ReadsHold(c) => ReadsHold(c)'
  BY <1>1 DEF Level, Kept, ReadsHold
<1> QED BY <1>1, <1>2 DEF Agree

LEMMA WriteIs ==
    ASSUME TypeOK, Valid, NEW mine \in BOOLEAN
    PROVE  /\ Write(mine) # Idle
           /\ Write(mine).text = screen /\ Write(mine).mine = mine
           /\ place = New => Write(mine).pc = "post" /\ Write(mine).form = form
           /\ place # New => Write(mine).pc = "patch" /\ Write(mine).card = place
<1>1. CASE place = New
  <2>1. Write(mine) = [pc |-> "post", form |-> form, text |-> screen, mine |-> mine]
    BY <1>1 DEF Write
  <2> QED BY <1>1, <2>1, IdleShape
<1>2. CASE place # New
  <2>1. Write(mine) = [pc |-> "patch", card |-> place, text |-> screen, mine |-> mine]
    BY <1>2 DEF Write
  <2> QED BY <1>2, <2>1, IdleShape
<1> QED BY <1>1, <1>2

LEMMA GivenUpSays ==
    ASSUME NEW q \in Request, q.pc \in {"post"} \cup Changes
    PROVE  /\ [q EXCEPT !.mine = FALSE].text = q.text
           /\ [q EXCEPT !.mine = FALSE] # Idle
           /\ q.pc \in Changes => [q EXCEPT !.mine = FALSE].card = q.card
           /\ q.pc = "read" => [q EXCEPT !.mine = FALSE].before = q.before
  BY DEF Request, Idle

(* A save of the screen joins saves that agree with it, or is exposed.     *)
LEMMA Joins ==
    ASSUME TypeOK, Known, FormSettled, Valid, Notes, NEW mine \in BOOLEAN,
           NEW p \in Requests, request'[p] = Write(mine),
           UNCHANGED <<table, place, form, screen>>,
           \A s \in Requests \ {p} : Goes(s),
           \A s \in Requests \ {p} : request'[s].pc = "done" => request'[s] = request[s],
           \A c \in Cards : cached'[c] # NoRow => cached'[c] = cached[c]
    PROVE  /\ Known'
           /\ place = New => \A c \in Cards : origin[c] = form => Patches(c)' = {}
           /\ ~ exposed' /\ place # New =>
                /\ \A s \in Patches(place)' : request'[s].text = screen
                /\ p \in Patches(place)'
           /\ place = New => p \in Posts(form)' /\ request'[p].text = screen
<1>1. /\ request'[p].text = screen
      /\ place = New => request'[p].pc = "post" /\ request'[p].form = form
      /\ place # New => request'[p].pc = "patch" /\ request'[p].card = place
  BY WriteIs
<1>2. UNCHANGED <<row, status, origin>>
  BY DEF table
<1>3. Known'
  BY <1>1, <1>2 DEF Known, Goes
<1>4. place = New => \A c \in Cards : origin[c] = form => Patches(c)' = {}
  BY <1>1 DEF FormSettled, Patches, Goes
<1>5. ASSUME ~ exposed', place # New
      PROVE  \A s \in Patches(place)' : request'[s].text = screen
  <2>1. Others(place, screen) = {}
    BY <1>5 DEF Notes, Overtakes
  <2> QED BY <1>1, <2>1 DEF Others, Patches, Goes
<1>6. /\ place # New => p \in Patches(place)'
      /\ place = New => p \in Posts(form)'
  BY <1>1 DEF Patches, Posts
<1> QED BY <1>1, <1>3, <1>4, <1>5, <1>6

LEMMA KeepInit == Init => KeepInv
<1> SUFFICES ASSUME Init PROVE KeepInv
  OBVIOUS
<1>1. \A c \in Cards : Patches(c) = {}
  BY IdleShape DEF Init, Patches
<1>2. Known /\ AwaitedFits
  BY IdleShape, NullAssumption DEF Init, Known, AwaitedFits
<1>3. FormSettled
  BY <1>1 DEF Init, FormSettled
<1>4. TypedKept
  BY TextsAssumption DEF Init, TypedKept, FormKept, Valid
<1> QED BY <1>2, <1>3, <1>4 DEF KeepInv

LEMMA PersistKeeps ==
    ASSUME TypeOK, KeepInv, Persist
    PROVE  KeepInv'
<1>1. PICK p \in Free : request' = [request EXCEPT ![p] = Write(TRUE)] /\ awaited' = p
  BY DEF Persist
<1>2. /\ p \in Requests /\ request'[p] = Write(TRUE)
      /\ \A s \in Requests \ {p} : request'[s] = request[s]
  BY <1>1 DEF Free, TypeOK
<1>3. /\ UNCHANGED <<table, open, place, form, screen, saved, cached>>
      /\ open /\ screen # saved /\ Valid /\ Notes
  BY DEF Persist, Dirty
<1>4. /\ Known'
      /\ place = New => \A c \in Cards : origin[c] = form => Patches(c)' = {}
      /\ ~ exposed' /\ place # New =>
            \A s \in Patches(place)' : request'[s].text = screen
  BY <1>2, <1>3, Joins DEF KeepInv, Goes
<1>5. FormSettled'
  BY <1>3, <1>4 DEF KeepInv, FormSettled, table
<1>6. /\ request'[p] # Idle /\ request'[p].text = screen /\ request'[p].mine
      /\ place = New => request'[p].pc = "post"
      /\ place # New => request'[p].pc = "patch" /\ request'[p].card = place
  BY <1>2, <1>3, WriteIs
<1>7. AwaitedFits'
  BY <1>1, <1>2, <1>3, <1>6 DEF AwaitedFits, Fits
<1>8. TypedKept'
  <2>1. ASSUME ~ exposed', place # New PROVE CardKept'
    <3>1. CardKept /\ place \in Cards /\ status[place] # "none" /\ saved \in Filled
      BY <1>3, <2>1 DEF Notes, KeepInv, TypedKept, TypeOK, Known, FormSettled
    <3>2. UNCHANGED row
      BY <1>3 DEF table
    <3>3. ASSUME NEW s \in Patches(place)', request'[s].pc = "read",
                 request'[s].text.domain = NoDomain
          PROVE  request'[s].before = row[place].domain
      <4>1. s # p /\ request'[s] = request[s] /\ s \in Patches(place)
        BY <1>2, <1>3, <1>6, <2>1, <3>3 DEF Patches
      <4>2. CASE awaited # Nobody \/ saved.domain # NoDomain
        BY <1>3, <3>1, <3>3, <4>1, <4>2 DEF CardKept, ReadsHold
      <4>3. CASE awaited = Nobody /\ saved.domain = NoDomain
        <5>1. /\ row[place] = Rewritten(saved, row[place].domain)
              /\ row[place] = Rewritten(screen, row[place].domain)
          BY <1>3, <1>4, <2>1, <3>1, <4>1, <4>3 DEF CardKept, Kept, Level
        <5>2. row[place] \in Filled /\ screen \in Filled /\ screen.domain = NoDomain
          BY <1>3, <1>4, <2>1, <3>1, <3>3, <4>1, RowIsFilled DEF Valid
        <5> QED BY <1>3, <3>1, <4>3, <5>1, <5>2, HasBoth
      <4> QED BY <4>2, <4>3
    <3>4. ReadsHold(place)'
      BY <1>3, <3>2, <3>3 DEF ReadsHold
    <3> QED BY <1>1, <1>2, <1>3, <1>4, <1>6, <2>1, <3>4, NullAssumption DEF CardKept, Agree
  <2> QED BY <1>3, <2>1 DEF TypedKept, FormKept
<1> QED BY <1>4, <1>5, <1>7, <1>8 DEF KeepInv

(* Leaving without a save: what is on the screen is what was saved, unless *)
(* something is left behind.                                               *)
LEMMA NothingLeft ==
    ASSUME TypeOK, KeepInv, open, ~ exposed, ~ Dirty, ~ LeftBehind, Valid
    PROVE  place # New /\ Kept(place, screen)
<1>1. screen = saved
  BY DEF Dirty
<1>2. place # New
  BY <1>1, TextsAssumption DEF KeepInv, FormSettled, Valid
<1>3. CASE awaited = Nobody
  BY <1>1, <1>2, <1>3 DEF KeepInv, TypedKept, CardKept
<1>4. CASE awaited # Nobody
  <2>1. awaited \in Requests /\ Fits(awaited) /\ request[awaited].text = screen
    BY <1>2, <1>4 DEF LeftBehind, KeepInv, AwaitedFits, TypeOK
  <2>2. request[awaited].pc = "done"
    BY <1>1, <2>1 DEF Fits
  <2>3. row[place] = screen
    BY <1>2, <2>1, <2>2 DEF KeepInv, TypedKept, CardKept
  <2> QED BY <1>2, <2>3, RewrittenSays DEF Kept, Valid, Filled
<1> QED BY <1>2, <1>3, <1>4

LEMMA Departs ==
    ASSUME TypeOK, KeepInv, open, Gone, UNCHANGED table,
           Valid => ~ Dirty \/ exposed',
           exposed' \/ (~ exposed /\ ~ LeftBehind),
           \A c \in Cards : cached'[c] # NoRow => cached'[c] = cached[c],
           \A s \in Requests : request'[s].pc = "done" => request'[s] = request[s],
           \A s \in Requests : Goes(s)
    PROVE  KeepInv'
<1>1. /\ UNCHANGED <<row, status, origin, place, form, screen>>
      /\ ~ open' /\ awaited' = Nobody
  BY DEF Gone, table
<1>2. Known'
  BY <1>1 DEF KeepInv, Known, Goes
<1>3. AwaitedFits'
  BY <1>1, NullAssumption DEF AwaitedFits
<1>4. FormSettled'
  BY <1>1, FewerPatches DEF KeepInv, FormSettled
<1>5. TypedKept'
  <2> SUFFICES ASSUME ~ exposed'
               PROVE  (place # New => CardKept') /\ (place = New => FormKept')
    BY <1>1 DEF TypedKept
  <2>1. ~ exposed /\ ~ LeftBehind
    OBVIOUS
  <2>2. Valid => place # New /\ Kept(place, screen)
    BY <2>1, NothingLeft
  <2>3. place # New => \A s \in Patches(place)' : request'[s].text = screen
    <3>1. place # New => Others(place, screen) = {} /\ place \in Cards
      BY <2>1 DEF LeftBehind, TypeOK
    <3>2. place # New => \A s \in Patches(place) : request[s].text = screen
      BY <3>1 DEF Others
    <3> QED BY <1>1, <3>1, <3>2, FewerPatches DEF Patches
  <2> QED BY <1>1, <2>2, <2>3, NullAssumption
          DEF CardKept, FormKept, Agree, Becomes, Kept, Valid
<1> QED BY <1>2, <1>3, <1>4, <1>5 DEF KeepInv

(* Leaving with a save: its text is what the screen showed.                *)
LEMMA DepartsSaving ==
    ASSUME TypeOK, KeepInv, Gone, UNCHANGED table, Valid, Notes,
           NEW mine \in BOOLEAN, NEW p \in Requests, request'[p] = Write(mine),
           \A c \in Cards : cached'[c] # NoRow => cached'[c] = cached[c],
           \A s \in Requests \ {p} : request'[s].pc = "done" => request'[s] = request[s],
           \A s \in Requests \ {p} : Goes(s)
    PROVE  KeepInv'
<1>1. /\ UNCHANGED <<row, status, origin, place, form, screen>>
      /\ ~ open' /\ awaited' = Nobody
  BY DEF Gone, table
<1>2. /\ Known'
      /\ place = New => \A c \in Cards : origin[c] = form => Patches(c)' = {}
      /\ ~ exposed' /\ place # New =>
                /\ \A s \in Patches(place)' : request'[s].text = screen
                /\ p \in Patches(place)'
      /\ place = New => p \in Posts(form)' /\ request'[p].text = screen
  BY <1>1, Joins DEF KeepInv
<1>3. AwaitedFits'
  BY <1>1, NullAssumption DEF AwaitedFits
<1>4. FormSettled'
  BY <1>1, <1>2 DEF FormSettled
<1>5. TypedKept'
  <2>1. ~ exposed' /\ place # New => CardKept'
    BY <1>1, <1>2, NullAssumption DEF CardKept, Agree, Becomes
  <2>2. place = New => FormKept'
    BY <1>1, <1>2 DEF FormKept
  <2> QED BY <1>1, <2>1, <2>2 DEF TypedKept
<1> QED BY <1>2, <1>3, <1>4, <1>5 DEF KeepInv

LEMMA LeaveKeeps ==
    ASSUME TypeOK, KeepInv, Leave
    PROVE  KeepInv'
<1>1. Gone /\ open /\ UNCHANGED <<table, cached>>
  BY DEF Leave
<1>2. CASE Valid /\ Notes /\ \E p \in Free : request' = [request EXCEPT ![p] = Write(TRUE)]
  <2>1. PICK p \in Free : request' = [request EXCEPT ![p] = Write(TRUE)]
    BY <1>2
  <2>2. /\ p \in Requests /\ request'[p] = Write(TRUE)
        /\ \A s \in Requests \ {p} : request'[s] = request[s]
    BY <2>1 DEF Free, TypeOK
  <2> QED BY <1>1, <1>2, <2>2, DepartsSaving DEF Goes
<1>3. CASE ~ SavesOnLeaving /\ UNCHANGED request /\ exposed' = (exposed \/ LeftBehind)
  BY <1>1, <1>3, Departs DEF SavesOnLeaving, Goes
<1> QED BY <1>2, <1>3 DEF Leave, SavesOnLeaving

LEMMA CloseTabKeeps ==
    ASSUME TypeOK, KeepInv, CloseTab
    PROVE  KeepInv'
<1> DEFINE left(kept) == [r \in Requests |->
                 IF r \in kept /\ request[r].pc \in {"post"} \cup Changes
                 THEN [request[r] EXCEPT !.mine = FALSE] ELSE Idle]
<1>1. PICK kept \in SUBSET Requests :
              \/ /\ Dirty /\ Valid /\ Notes
                 /\ \E r \in Free : request' = [left(kept) EXCEPT ![r] = Write(FALSE)]
              \/ /\ ~ (Dirty /\ Valid)
                 /\ request' = left(kept)
                 /\ exposed' = (exposed \/ LeftBehind)
  BY DEF CloseTab
<1>2. ASSUME NEW s \in Requests
      PROVE  /\ left(kept)[s].pc # "done"
             /\ left(kept)[s].pc \in Changes =>
                   /\ left(kept)[s].pc = request[s].pc
                   /\ left(kept)[s].card = request[s].card
                   /\ left(kept)[s].text = request[s].text
                   /\ request[s].pc = "read" => left(kept)[s].before = request[s].before
  <2>1. CASE s \in kept /\ request[s].pc \in {"post"} \cup Changes
    <3>1. left(kept)[s] = [request[s] EXCEPT !.mine = FALSE]
      BY <2>1
    <3>2. request[s] \in Request
      BY DEF TypeOK
    <3> HIDE DEF left
    <3> QED BY <2>1, <3>1, <3>2, GivenUp, GivenUpSays
  <2>2. CASE ~ (s \in kept /\ request[s].pc \in {"post"} \cup Changes)
    <3>1. left(kept)[s] = Idle
      BY <2>2
    <3> HIDE DEF left
    <3> QED BY <3>1, IdleShape
  <2> QED BY <2>1, <2>2
<1>3. /\ Gone /\ open /\ UNCHANGED table
      /\ \A c \in Cards : cached'[c] = NoRow
  BY DEF CloseTab
<1>4. DOMAIN left(kept) = Requests /\ left(kept) = [r \in Requests |-> left(kept)[r]]
  OBVIOUS
<1> HIDE DEF left
<1>5. CASE /\ Dirty /\ Valid /\ Notes
           /\ \E r \in Free : request' = [left(kept) EXCEPT ![r] = Write(FALSE)]
  <2>1. PICK p \in Free : request' = [left(kept) EXCEPT ![p] = Write(FALSE)]
    BY <1>5
  <2>2. /\ p \in Requests /\ request'[p] = Write(FALSE)
        /\ \A s \in Requests \ {p} : request'[s] = left(kept)[s]
    BY <1>4, <2>1 DEF Free
  <2>3. \A s \in Requests \ {p} :
           /\ request'[s].pc = "done" => request'[s] = request[s]
           /\ Goes(s)
    BY <1>2, <2>2 DEF Goes
  <2>4. \A c \in Cards : cached'[c] # NoRow => cached'[c] = cached[c]
    BY <1>3
  <2> QED BY <1>3, <1>5, <2>2, <2>3, <2>4, DepartsSaving
<1>6. CASE ~ (Dirty /\ Valid) /\ request' = left(kept) /\ exposed' = (exposed \/ LeftBehind)
  BY <1>2, <1>3, <1>6, Departs DEF Goes
<1> QED BY <1>1, <1>5, <1>6

LEMMA DeleteKeeps ==
    ASSUME TypeOK, KeepInv, DeleteSucceeds
    PROVE  KeepInv'
  BY Departs DEF DeleteSucceeds, Goes

LEMMA TypeKeeps ==
    ASSUME TypeOK, KeepInv, Type
    PROVE  KeepInv'
<1>1. /\ open /\ UNCHANGED <<row, status, origin, request, open, place, form, saved,
                             awaited, cached, exposed>>
  BY DEF Type, table
<1>2. \A c \in Cards : Patches(c)' = Patches(c)
  BY <1>1 DEF Patches
<1>3. Known' /\ FormSettled' /\ AwaitedFits'
  BY <1>1, <1>2 DEF KeepInv, Known, FormSettled, AwaitedFits, Fits, Patches
<1>4. TypedKept'
  BY <1>1, <1>2 DEF KeepInv, TypedKept, CardKept, FormKept, Agree, Level, Kept, ReadsHold, Patches
<1> QED BY <1>3, <1>4 DEF KeepInv

LEMMA OpenNewKeeps ==
    ASSUME TypeOK, KeepInv, OpenNew
    PROVE  KeepInv'
<1>1. /\ open' /\ place' = New /\ saved' = Empty
      /\ \A c \in Cards : origin[c] # form'
      /\ UNCHANGED <<row, status, origin, request, awaited, cached>>
      /\ ~ open
  BY DEF OpenNew, table
<1>2. awaited' \notin Requests
  BY <1>1, ClosedAwaitsNothing, NullAssumption DEF KeepInv
<1>3. Known' /\ AwaitedFits' /\ FormSettled'
  BY <1>1, <1>2 DEF KeepInv, Known, AwaitedFits, FormSettled
<1>4. TypedKept'
  BY <1>1 DEF TypedKept, FormKept
<1> QED BY <1>3, <1>4 DEF KeepInv

LEMMA OpenCardKeeps ==
    ASSUME TypeOK, KeepInv, NEW c \in Cards, OpenCard(c)
    PROVE  KeepInv'
<1>1. PICK text \in Filled :
          /\ text = cached[c] \/ (cached[c] = NoRow /\ status[c] = "live" /\ text = row[c])
          /\ screen' = text /\ saved' = text
          /\ cached' = [cached EXCEPT ![c] = text]
          /\ exposed' = (text # row[c] \/ Others(c, text) # {})
  BY DEF OpenCard
<1>2. /\ ~ open /\ open' /\ place' = c /\ c # New
      /\ UNCHANGED <<row, status, origin, request, awaited>>
  BY NullAssumption DEF OpenCard, table
<1>3. awaited' \notin Requests /\ status[c] # "none"
  BY <1>1, <1>2, ClosedAwaitsNothing, NullAssumption DEF KeepInv, Known, Texts
<1>4. Known' /\ AwaitedFits' /\ FormSettled'
  BY <1>1, <1>2, <1>3 DEF KeepInv, Known, AwaitedFits, FormSettled, TypeOK
<1>5. TypedKept'
  <2> SUFFICES ASSUME ~ exposed' PROVE CardKept'
    BY <1>2 DEF TypedKept
  <2>1. text = row[c] /\ Others(c, text) = {}
    BY <1>1
  <2>2. \A p \in Patches(c) : request[p].text = text
    BY <2>1 DEF Others
  <2>3. row[c] = Rewritten(text, row[c].domain)
    BY <2>1, RewrittenSays DEF Filled
  <2>4. /\ Agree(c)' /\ Level(c)' /\ Kept(c, text)'
        /\ text.domain # NoDomain => ReadsHold(c)'
    BY <1>2, <2>2, <2>3 DEF Agree, Level, Kept, ReadsHold, Patches
  <2>5. awaited = Nobody
    BY <1>2, ClosedAwaitsNothing DEF KeepInv
  <2> QED BY <1>1, <1>2, <1>3, <2>4, <2>5 DEF CardKept, Kept
<1> QED BY <1>4, <1>5 DEF KeepInv

LEMMA AsideKeeps ==
    ASSUME TypeOK, KeepInv,
           \/ UNCHANGED vars
           \/ \E c \in Cards : Refetch(c) \/ Trash(c) \/ Restore(c)
    PROVE  KeepInv'
<1>1. UNCHANGED <<row, origin, request, open, place, form, screen, saved, awaited, exposed>>
  BY DEF vars, Refetch, Trash, Restore, table, editor
<1>2. \A c \in Cards : Patches(c)' = Patches(c) /\ Posts(form)' = Posts(form)
  BY <1>1 DEF Patches, Posts
<1>3. Known'
  <2>1. \A c \in Cards : status'[c] = "none" => status[c] = "none"
    BY DEF vars, Refetch, Trash, Restore, table, editor, TypeOK
  <2>2. \A c \in Cards :
           cached'[c] # NoRow => cached'[c] = cached[c] \/ status[c] = "live"
    BY DEF vars, Refetch, Trash, Restore, table, editor, TypeOK
  <2>3. \A r \in Requests : request[r].pc \in Changes \cup {"done"} => request[r].card \in Cards
    BY IdleShape, RequestShape DEF TypeOK
  <2> QED BY <1>1, <2>1, <2>2, <2>3 DEF KeepInv, Known, TypeOK
<1>4. FormSettled' /\ AwaitedFits'
  BY <1>1, <1>2 DEF KeepInv, FormSettled, AwaitedFits, Fits, Patches
<1>5. TypedKept'
  BY <1>1 DEF KeepInv, TypedKept, CardKept, FormKept, Agree, Level, Becomes, Kept, ReadsHold, Patches,
              Posts, Valid
<1> QED BY <1>3, <1>4, <1>5 DEF KeepInv

(* A creation takes an id nothing on its way, on the screen or made by     *)
(* this visit has.                                                         *)
LEMMA CreateKeeps ==
    ASSUME TypeOK, OriginsFit, KeepInv, NEW r \in Requests, CreateCard(r)
    PROVE  KeepInv'
<1> DEFINE made(c) == [pc |-> "done", card |-> c, text |-> request[r].text,
                       created |-> TRUE]
<1>1. PICK c \in Cards :
          /\ status[c] = "none"
          /\ status' = [status EXCEPT ![c] = "live"]
          /\ row' = [row EXCEPT ![c] = request[r].text]
          /\ origin' = [origin EXCEPT ![c] = request[r].form]
          /\ Answered(r, made(c))
  BY DEF CreateCard
<1>2. /\ request[r].pc = "post" /\ request[r].mine \in BOOLEAN
      /\ UNCHANGED <<open, place, form, screen, saved, awaited, cached, exposed>>
  BY PostShape DEF CreateCard, editor, TypeOK
<1>3. /\ made(c).pc = "done" /\ made(c).card = c /\ made(c).text = request[r].text
      /\ made(c).created /\ made(c) # Idle
  BY IdleShape
<1> HIDE DEF made
<1>4. /\ \A s \in Requests \ {r} : request'[s] = request[s]
      /\ request'[r] = IF request[r].mine THEN made(c) ELSE Idle
  BY <1>1 DEF Answered, TypeOK
<1>5. /\ \A s \in Requests : request[s].pc \in Changes \cup {"done"} =>
            request[s].card \in Cards \ {c}
      /\ place # c /\ origin[c] = NoRow
  <2>1. \A s \in Requests : request[s].pc \in Changes \cup {"done"} => request[s].card \in Cards
    BY IdleShape, RequestShape DEF TypeOK
  <2> QED BY <1>1, <2>1, NullAssumption DEF KeepInv, Known, OriginsFit
<1>6. /\ \A d \in Cards \ {c} : row'[d] = row[d] /\ status'[d] = status[d]
                                 /\ origin'[d] = origin[d]
      /\ row'[c] = request[r].text /\ status'[c] # "none"
      /\ origin'[c] = request[r].form
  BY <1>1 DEF TypeOK
<1>7. \A d : Patches(d)' = Patches(d)
  BY <1>2, <1>3, <1>4, IdleShape DEF Patches
<1>8. \A s \in Requests : request'[s].pc \in Changes => s # r /\ request'[s] = request[s]
  BY <1>3, <1>4, IdleShape
<1>9. Patches(c) = {}
  BY <1>5 DEF Patches
<1>10. Known'
  <2>1. \A s \in Requests : request'[s].pc \in Changes \cup {"done"} =>
           status'[request'[s].card] # "none"
    BY <1>3, <1>4, <1>5, <1>6, IdleShape DEF KeepInv, Known
  <2> QED BY <1>2, <1>6, <2>1 DEF KeepInv, Known, TypeOK
<1>11. AwaitedFits'
  <2> SUFFICES ASSUME awaited \in Requests PROVE Fits(awaited)'
    BY <1>2 DEF AwaitedFits
  <2>1. Fits(awaited)
    BY DEF KeepInv, AwaitedFits
  <2>2. CASE awaited = r
    BY <1>2, <1>3, <1>4, <1>6, <1>7, <1>9, <2>1, <2>2 DEF Fits
  <2>3. CASE awaited # r
    <3>1. request'[awaited] = request[awaited]
      BY <1>4, <2>3
    <3>2. request[awaited].pc = "done" => request[awaited].card \in Cards \ {c}
      BY <1>5
    <3> QED BY <1>2, <1>6, <1>7, <2>1, <3>1, <3>2 DEF Fits
  <2> QED BY <2>2, <2>3
<1>12. FormSettled'
  BY <1>2, <1>6, <1>7, <1>9 DEF KeepInv, FormSettled
<1>13. TypedKept'
  <2>1. ASSUME CardKept, place # New PROVE CardKept'
    <3>1. place \in Cards \ {c}
      BY <1>5, <2>1 DEF TypeOK
    <3>2. awaited \in Requests /\ request'[awaited].pc = "done" =>
             request'[awaited] = request[awaited]
      BY <1>2, <1>4, <2>1 DEF KeepInv, AwaitedFits, Fits
    <3>3. \A s \in Patches(place) : request'[s] = request[s]
      BY <1>2, <1>4 DEF Patches
    <3>4. /\ Agree(place) => Agree(place)'
          /\ Level(place) => Level(place)'
          /\ Becomes(place, screen) => Becomes(place, screen)'
          /\ ReadsHold(place) => ReadsHold(place)'
          /\ Kept(place, saved) => Kept(place, saved)'
      BY <1>2, <1>6, <1>7, <3>1, <3>3 DEF Agree, Level, Becomes, Kept, ReadsHold
    <3> QED BY <1>2, <1>6, <2>1, <3>1, <3>2, <3>4 DEF CardKept, Valid
  <2>2. ASSUME FormKept, place = New PROVE FormKept'
    <3> SUFFICES ASSUME ~ open, Valid
                 PROVE  \/ \E s \in Posts(form)' : request'[s].text = screen
                        \/ \E d \in Cards : origin'[d] = form /\ row'[d] = screen
      BY <1>2 DEF FormKept, Valid
    <3>1. CASE \E d \in Cards : origin[d] = form /\ row[d] = screen
      BY <1>5, <1>6, <3>1, NullAssumption DEF TypeOK
    <3>2. CASE \E s \in Posts(form) : request[s].text = screen
      BY <1>2, <1>4, <1>6, <3>2 DEF Posts
    <3> QED BY <2>2, <3>1, <3>2 DEF FormKept
  <2> QED BY <1>2, <2>1, <2>2 DEF KeepInv, TypedKept
<1> QED BY <1>10, <1>11, <1>12, <1>13 DEF KeepInv

(* Reading the card only says which domain a change without one keeps.     *)
LEMMA ReadKeeps ==
    ASSUME TypeOK, KeepInv, NEW r \in Requests, ReadCard(r)
    PROVE  KeepInv'
<1>1. /\ UNCHANGED <<row, status, origin, open, place, form, screen, saved, awaited,
                      cached, exposed>>
      /\ request[r].pc = "patch" /\ request'[r].pc = "read"
      /\ \A s \in Requests \ {r} : request'[s] = request[s]
      /\ request'[r].card = request[r].card /\ request'[r].text = request[r].text
      /\ request'[r].mine = request[r].mine /\ request'[r] # Idle
      /\ request'[r].before = row[request[r].card].domain
  BY IdleShape DEF ReadCard, table, editor, TypeOK
<1>2. /\ \A c : Patches(c)' = Patches(c) /\ Posts(c)' = Posts(c)
      /\ \A c : \A s \in Patches(c) : request'[s].text = request[s].text
      /\ \A s \in Requests : request'[s].text = request[s].text
  BY <1>1 DEF Patches, Posts
<1>3. Known' /\ FormSettled'
  BY <1>1, <1>2 DEF KeepInv, Known, FormSettled
<1>4. AwaitedFits'
  BY <1>1, <1>2 DEF KeepInv, AwaitedFits, Fits
<1>5. TypedKept'
  <2>1. /\ Agree(place) => Agree(place)'
        /\ Level(place) => Level(place)'
        /\ Becomes(place, screen) => Becomes(place, screen)'
        /\ Kept(place, saved) => Kept(place, saved)'
    BY <1>1, <1>2 DEF Agree, Level, Becomes, Kept
  <2>2. ReadsHold(place) => ReadsHold(place)'
    <3> SUFFICES ASSUME ReadsHold(place), NEW s \in Patches(place),
                        request'[s].pc = "read", request'[s].text.domain = NoDomain
                 PROVE  request'[s].before = row[place].domain
      BY <1>1, <1>2 DEF ReadsHold
    <3>1. CASE s = r
      BY <1>1, <3>1 DEF Patches
    <3>2. CASE s # r
      BY <1>1, <3>2 DEF ReadsHold, Patches
    <3> QED BY <3>1, <3>2
  <2>3. CardKept => CardKept'
    BY <1>1, <2>1, <2>2 DEF CardKept, Valid
  <2>4. FormKept => FormKept'
    BY <1>1, <1>2 DEF FormKept, Valid, Posts
  <2> QED BY <1>1, <2>3, <2>4 DEF KeepInv, TypedKept
<1> QED BY <1>3, <1>4, <1>5 DEF KeepInv

(* A change of the card on the screen writes what its other changes carry. *)
LEMMA UpdateKeeps ==
    ASSUME TypeOK, KeepInv, NEW r \in Requests, UpdateCard(r)
    PROVE  KeepInv'
<1>0. PICK d \in Cards, t \in Filled, b \in Domains \cup {NoDomain} :
          d = request[r].card /\ t = request[r].text /\ b = request[r].before
  BY IdleShape, RequestShape DEF UpdateCard, TypeOK
<1>w. PICK w \in Filled : w = Rewritten(t, b)
  BY RewrittenSays
<1> DEFINE done == [pc |-> "done", card |-> d, text |-> w, created |-> FALSE]
<1>1. /\ request[r].pc = "read" /\ row' = [row EXCEPT ![d] = w]
      /\ Answered(r, done) /\ status[d] = "live"
      /\ UNCHANGED <<status, origin, open, place, form, screen, saved, awaited, cached,
                     exposed>>
  BY <1>0, <1>w DEF UpdateCard, Updatable, editor
<1>2. done.pc = "done" /\ done.card = d /\ done.text = w /\ done # Idle
  BY IdleShape
<1> HIDE DEF done
<1>3. /\ \A s \in Requests \ {r} : request'[s] = request[s]
      /\ request'[r] = IF request[r].mine THEN done ELSE Idle
      /\ request[r].mine \in BOOLEAN
  BY <1>1, IdleShape, RequestShape DEF Answered, TypeOK
<1>4. /\ row'[d] = w /\ \A c \in Cards \ {d} : row'[c] = row[c]
      /\ row[d] \in Filled /\ w = Rewritten(t, w.domain)
  BY <1>w, <1>1, <1>3, RewrittenSays, RowIsFilled DEF TypeOK
<1>5. /\ \A c : Patches(c)' = Patches(c) \ {r}
      /\ \A s \in Requests : request'[s].pc \in Changes => request'[s] = request[s]
      /\ r \in Patches(d)
  BY <1>0, <1>1, <1>2, <1>3, IdleShape DEF Patches
<1>6. Known'
  BY <1>0, <1>1, <1>2, <1>3, IdleShape DEF KeepInv, Known
<1>7. AwaitedFits'
  <2> SUFFICES ASSUME awaited \in Requests PROVE Fits(awaited)'
    BY <1>1 DEF AwaitedFits
  <2>1. Fits(awaited)
    BY DEF KeepInv, AwaitedFits
  <2>2. CASE awaited = r
    <3>1. place # New /\ d = place /\ request[r].mine /\ open
      BY <1>0, <1>1, <2>1, <2>2 DEF Fits
    <3>2. request'[r] = done
      BY <1>3, <3>1
    <3> QED BY <1>1, <1>2, <2>2, <3>1, <3>2 DEF Fits
  <2>3. CASE awaited # r
    <3>1. request'[awaited] = request[awaited]
      BY <1>3, <2>3
    <3>2. place = New /\ request[awaited].pc = "done" => request[awaited].card \in Cards \ {d}
      BY <1>5, <2>1, IdleShape, RequestShape DEF Fits, TypeOK
    <3>3. \A c : Patches(c) = {} => Patches(c)' = {}
      BY <1>5
    <3> QED BY <1>1, <1>4, <2>1, <3>1, <3>2, <3>3 DEF Fits
  <2> QED BY <2>2, <2>3
<1>8. FormSettled'
  BY <1>1, <1>5 DEF KeepInv, FormSettled
<1>9. TypedKept'
  <2>1. ASSUME CardKept, place # New, place # d PROVE CardKept'
    <3>1. row'[place] = row[place] /\ place \in Cards
      BY <1>4, <2>1 DEF TypeOK
    <3>2. Patches(place)' = Patches(place) /\ r \notin Patches(place)
      BY <1>0, <1>1, <1>5, <2>1 DEF Patches
    <3>3. awaited \in Requests => awaited # r /\ request'[awaited] = request[awaited]
      BY <1>0, <1>1, <1>3, <2>1 DEF KeepInv, AwaitedFits, Fits
    <3>4. \A s \in Patches(place) : request'[s] = request[s]
      BY <1>3, <3>2 DEF Patches
    <3>5. /\ Agree(place) => Agree(place)'
          /\ Level(place) => Level(place)'
          /\ Becomes(place, screen) => Becomes(place, screen)'
          /\ ReadsHold(place) => ReadsHold(place)'
          /\ Kept(place, saved) => Kept(place, saved)'
      BY <1>1, <3>1, <3>2, <3>4 DEF Agree, Level, Becomes, Kept, ReadsHold
    <3> QED BY <1>1, <2>1, <3>1, <3>3, <3>5 DEF CardKept, Valid
  <2>2. ASSUME CardKept, place # New, place = d PROVE CardKept'
    <3>1. \A s \in Patches(d)' : s \in Patches(d) /\ request'[s] = request[s]
      BY <1>5 DEF Patches
    <3>2. \A s \in Patches(d) : request[s].text = t
      BY <1>0, <1>5, <2>2 DEF CardKept, Agree
    <3>3. Agree(d)' /\ Level(d)' /\ Kept(d, t)'
      BY <1>1, <1>4, <3>1, <3>2 DEF Agree, Level, Kept
    <3>4. ~ open /\ Valid => Becomes(place, screen)'
      <4>1. ~ open /\ Valid => t = screen
        BY <1>0, <1>5, <2>2 DEF CardKept, Becomes
      <4> QED BY <1>1, <2>2, <3>1, <3>2, <3>3, <4>1 DEF Becomes, Kept
    <3>5. ReadsHold(d) /\ t.domain = NoDomain => b = row[d].domain /\ w.domain = row[d].domain
      BY <1>0, <1>w, <1>1, <1>5, RewrittenSays DEF ReadsHold
    <3>6. ReadsHold(d) => ReadsHold(d)'
      BY <1>4, <3>1, <3>2, <3>5 DEF ReadsHold
    <3>7. Level(d) => row[d] = Rewritten(t, row[d].domain)
      BY <1>0, <1>5 DEF Level, Kept
    <3>8. open /\ awaited = Nobody => Kept(d, saved)'
      <4> SUFFICES ASSUME open, awaited = Nobody PROVE Kept(d, saved)'
        OBVIOUS
      <4>1. saved \in Filled /\ row[d] = Rewritten(saved, row[d].domain)
        BY <2>2 DEF CardKept, Kept, KeepInv, FormSettled
      <4>2. saved.domain # NoDomain /\ t.domain = NoDomain => b = row[d].domain
        BY <2>2, <3>5 DEF CardKept
      <4>3. w = Rewritten(saved, w.domain)
        BY <1>w, <1>4, <2>2, <3>7, <4>1, <4>2, HasBoth DEF CardKept
      <4> QED BY <1>1, <1>4, <4>3 DEF Kept
    <3>9. awaited \in Requests /\ request'[awaited].pc = "done" =>
             request'[awaited].text = row'[place]
      <4>1. CASE awaited = r
        BY <1>2, <1>3, <1>4, <2>2, <4>1, IdleShape
      <4>2. ASSUME awaited # r, awaited \in Requests, request'[awaited].pc = "done"
            PROVE  request'[awaited].text = row'[place]
        <5>1. request'[awaited] = request[awaited] /\ open /\ awaited # Nobody
          BY <1>3, <4>2, NullAssumption DEF KeepInv, AwaitedFits, Fits
        <5>2. ReadsHold(d) /\ Level(d) /\ request[awaited].text = row[d]
          BY <2>2, <4>2, <5>1 DEF CardKept
        <5>3. w = row[d]
          <6>1. CASE t.domain = NoDomain
            BY <1>w, <3>5, <3>7, <5>2, <6>1
          <6>2. CASE t.domain # NoDomain
            BY <1>w, <3>7, <5>2, <6>2, RewrittenSays, RowIsFilled, <1>1
          <6> QED BY <6>1, <6>2
        <5> QED BY <1>4, <2>2, <5>1, <5>2, <5>3
      <4> QED BY <4>1, <4>2
    <3> QED BY <1>1, <2>2, <3>3, <3>4, <3>6, <3>8, <3>9 DEF CardKept, Valid
  <2>3. ASSUME FormKept, place = New PROVE FormKept'
    <3>1. \A c \in Cards : origin[c] = form => c # d
      BY <1>5, <2>3 DEF KeepInv, FormSettled
    <3>2. \A s \in Posts(form) : s \in Posts(form)' /\ request'[s] = request[s]
      BY <1>1, <1>3 DEF Posts
    <3> QED BY <1>1, <1>4, <2>3, <3>1, <3>2 DEF FormKept, Valid
  <2> QED BY <1>1, <2>1, <2>2, <2>3 DEF KeepInv, TypedKept
<1> QED BY <1>6, <1>7, <1>8, <1>9 DEF KeepInv

(* An answer the editor awaits is adopted: its text is in the row.         *)
LEMMA SucceedsKeeps ==
    ASSUME TypeOK, KeepInv, NEW r \in Requests, Succeeds(r)
    PROVE  KeepInv'
<1>1. /\ request[r].pc = "done" /\ request'[r] = Idle
      /\ \A s \in Requests \ {r} : request'[s] = request[s]
      /\ UNCHANGED <<row, status, origin, open, form, screen, exposed>>
      /\ cached' = IF request[r].created THEN cached
                   ELSE [cached EXCEPT ![request[r].card] = request[r].text]
  BY DEF Succeeds, table, TypeOK
<1>2. request[r].card \in Cards /\ request[r].card # New
  BY <1>1, IdleShape, RequestShape, NullAssumption DEF TypeOK
<1>3. /\ \A c : Patches(c)' = Patches(c)
      /\ \A s \in Requests : request'[s].pc # "idle" => s # r /\ request'[s] = request[s]
  BY <1>1, IdleShape DEF Patches
<1>4. CASE r = awaited
  <2>1. /\ awaited' = Nobody /\ saved' = request[r].text /\ place' = request[r].card
    BY <1>4 DEF Succeeds, GoesTo
  <2>2. Fits(r)
    BY <1>4 DEF KeepInv, AwaitedFits
  <2>3. Known'
    BY <1>1, <1>2, <1>3, <2>1, IdleShape DEF KeepInv, Known, TypeOK
  <2>4. AwaitedFits' /\ FormSettled'
    BY <1>1, <1>2, <2>1, IdleShape, RequestShape, NullAssumption
       DEF AwaitedFits, FormSettled, TypeOK
  <2>5. TypedKept'
    <3> SUFFICES ASSUME ~ exposed PROVE CardKept'
      BY <1>1, <1>2, <2>1 DEF TypedKept
    <3>1. PICK c \in Cards : c = request[r].card
      BY <1>2
    <3>2. row[c] = request[r].text /\ Level(c) /\ Agree(c) /\ ReadsHold(c)
      <4>1. CASE place = New
        BY <1>1, <2>2, <3>1, <4>1 DEF Fits, Level, Agree, ReadsHold
      <4>2. CASE place # New
        BY <1>1, <1>4, <2>2, <3>1, <4>2, NullAssumption
           DEF Fits, KeepInv, TypedKept, CardKept
      <4> QED BY <4>1, <4>2
    <3>3. \A s \in Patches(c) : request'[s] = request[s]
      BY <1>1 DEF Patches
    <3>4. Level(c)' /\ Agree(c)' /\ ReadsHold(c)'
      BY <1>1, <1>3, <3>2, <3>3 DEF Level, Kept, Agree, ReadsHold
    <3>5. row[c] = Rewritten(row[c], row[c].domain)
      <4>1. row[c] \in Filled
        BY <1>1, <3>2, IdleShape, RequestShape DEF TypeOK
      <4> QED BY <4>1, RewrittenSays DEF Filled
    <3>6. Kept(c, saved)'
      BY <1>1, <2>1, <3>1, <3>2, <3>5 DEF Kept
    <3> QED BY <1>1, <2>1, <2>2, <3>1, <3>2, <3>4, <3>6, NullAssumption DEF CardKept, Fits
  <2> QED BY <2>3, <2>4, <2>5 DEF KeepInv
<1>5. CASE r # awaited
  <2>1. UNCHANGED <<awaited, saved, place>>
    BY <1>5 DEF Succeeds
  <2>2. Known'
    BY <1>1, <1>2, <1>3, <2>1, IdleShape DEF KeepInv, Known, TypeOK
  <2>3. awaited \in Requests => request'[awaited] = request[awaited]
    BY <1>1, <1>5
  <2>4. AwaitedFits'
    BY <1>1, <1>3, <2>1, <2>3 DEF KeepInv, AwaitedFits, Fits
  <2>5. FormSettled'
    BY <1>1, <1>3, <2>1 DEF KeepInv, FormSettled
  <2>6. TypedKept'
    <3>1. /\ \A s \in Patches(place) : request'[s] = request[s]
          /\ \A s \in Posts(form) : s \in Posts(form)' /\ request'[s] = request[s]
      BY <1>1 DEF Patches, Posts
    <3>2. /\ Agree(place) => Agree(place)'
          /\ Level(place) => Level(place)'
          /\ Becomes(place, screen) => Becomes(place, screen)'
          /\ ReadsHold(place) => ReadsHold(place)'
          /\ Kept(place, saved) => Kept(place, saved)'
      BY <1>1, <1>3, <2>1, <3>1 DEF Agree, Level, Becomes, Kept, ReadsHold
    <3>3. CardKept => CardKept'
      BY <1>1, <2>1, <2>3, <3>2 DEF CardKept, Valid
    <3>4. FormKept => FormKept'
      BY <1>1, <3>1 DEF FormKept, Valid
    <3> QED BY <1>1, <2>1, <3>3, <3>4 DEF KeepInv, TypedKept
  <2> QED BY <2>2, <2>4, <2>5, <2>6 DEF KeepInv
<1> QED BY <1>4, <1>5

(* A failure the editor sees leaves the screen dirty over the row it knew. *)
LEMMA FailsKeeps ==
    ASSUME TypeOK, KeepInv, NEW r \in Requests, Fails(r)
    PROVE  KeepInv'
<1>1. /\ UNCHANGED <<row, status, origin, open, place, form, screen, saved, cached>>
      /\ \A s \in Requests \ {r} : request'[s] = request[s]
      /\ awaited' = IF r = awaited THEN Nobody ELSE awaited
      /\ ~ exposed' =>
            /\ ~ exposed /\ open /\ request'[r] = Idle
            /\ r = awaited /\ place # New => row[place] = saved /\ Patches(place) \ {r} = {}
  BY DEF Fails, table, TypeOK
<1>2. \/ request'[r] = Idle
      \/ /\ request'[r].pc = request[r].pc /\ request'[r].text = request[r].text
         /\ request'[r].pc \in Changes => request'[r].card = request[r].card
         /\ request'[r].pc = "read" => request'[r].before = request[r].before
         /\ request'[r].pc # "done"
  <2>1. CASE request' = [request EXCEPT ![r] = Idle]
    BY <2>1 DEF TypeOK
  <2>2. CASE /\ request[r].pc \in {"post"} \cup Changes /\ request[r].mine
             /\ request' = [request EXCEPT ![r].mine = FALSE]
    <3>1. request'[r] = [request[r] EXCEPT !.mine = FALSE] /\ request[r] \in Request
      BY <2>2 DEF TypeOK
    <3> QED BY <2>2, <3>1, GivenUp, GivenUpSays
  <2> QED BY <2>1, <2>2 DEF Fails
<1>3. \A s \in Requests : Goes(s)
  BY <1>1, <1>2, IdleShape DEF Goes
<1>4. \A c \in Cards : Patches(c) = {} => Patches(c)' = {}
  BY <1>3, FewerPatches
<1>5. Known'
  BY <1>1, <1>2, <1>3, IdleShape DEF KeepInv, Known, Goes
<1>6. awaited' \in Requests => awaited' = awaited /\ request'[awaited] = request[awaited]
  BY <1>1, NullAssumption
<1>7. AwaitedFits'
  <2> SUFFICES ASSUME awaited' \in Requests PROVE Fits(awaited)'
    BY DEF AwaitedFits
  <2>1. Fits(awaited) /\ awaited \in Requests
    BY <1>6 DEF KeepInv, AwaitedFits
  <2>2. request[awaited].pc = "done" => request[awaited].card \in Cards
    BY <2>1, IdleShape, RequestShape DEF TypeOK
  <2> QED BY <1>1, <1>4, <1>6, <2>1, <2>2 DEF Fits
<1>8. FormSettled'
  BY <1>1, <1>4 DEF KeepInv, FormSettled
<1>9. TypedKept'
  <2> SUFFICES ASSUME ~ exposed' PROVE (place # New => CardKept') /\ (place = New => FormKept')
    BY <1>1 DEF TypedKept
  <2>1. /\ ~ exposed /\ open
        /\ r = awaited /\ place # New => row[place] = saved /\ Patches(place) \ {r} = {}
        /\ request'[r] = Idle
    BY <1>1
  <2>2. ASSUME place # New PROVE CardKept'
    <3>1. CardKept /\ place \in Cards
      BY <2>1, <2>2 DEF KeepInv, TypedKept, TypeOK
    <3>2. /\ \A s \in Patches(place)' : s \in Patches(place) /\ s # r
                                        /\ request'[s].text = request[s].text
          /\ Agree(place)'
      BY <1>1, <1>3, <2>1, <3>1, IdleShape DEF Patches, Agree, CardKept, Goes
    <3>3. /\ Level(place) => Level(place)'
          /\ ReadsHold(place) => ReadsHold(place)'
          /\ Kept(place, saved) => Kept(place, saved)'
      BY <1>1, <1>3, <3>1, FewerPatches DEF Kept
    <3>4. r = awaited => Kept(place, saved)' /\ Level(place)' /\ ReadsHold(place)'
      <4> SUFFICES ASSUME r = awaited
                   PROVE  Kept(place, saved)' /\ Level(place)' /\ ReadsHold(place)'
        OBVIOUS
      <4>1. row[place] = saved /\ Patches(place)' = {}
        BY <2>1, <2>2, <3>2
      <4>2. saved = Rewritten(saved, saved.domain)
        BY <2>1, <2>2, RewrittenSays DEF KeepInv, FormSettled, Filled
      <4> QED BY <1>1, <4>1, <4>2 DEF Kept, Level, ReadsHold
    <3>5. r # awaited /\ awaited = Nobody => Kept(place, saved)' /\ Level(place)'
      BY <2>1, <3>1, <3>3 DEF CardKept
    <3>6. awaited' \in Requests /\ request'[awaited].pc = "done" =>
             request'[awaited].text = row[place] /\ Level(place)'
      BY <1>6, <3>1, <3>3 DEF CardKept
    <3>7. awaited' # Nobody \/ saved.domain # NoDomain => ReadsHold(place)'
      BY <1>1, <2>1, <3>1, <3>3, <3>4 DEF CardKept
    <3> QED BY <1>1, <1>6, <2>1, <3>2, <3>4, <3>5, <3>6, <3>7 DEF CardKept
  <2>3. FormKept'
    BY <1>1, <2>1 DEF FormKept
  <2> QED BY <2>2, <2>3
<1> QED BY <1>5, <1>7, <1>8, <1>9 DEF KeepInv

LEMMA KeepStep == IInv /\ KeepInv /\ [Next]_vars => KeepInv'
<1> SUFFICES ASSUME TypeOK, OriginsFit, KeepInv, [Next]_vars PROVE KeepInv'
  BY DEF IInv, VisitInv
<1>1. CASE Persist \/ Type \/ OpenNew \/ Leave \/ CloseTab \/ DeleteSucceeds
  BY <1>1, PersistKeeps, TypeKeeps, OpenNewKeeps, LeaveKeeps, CloseTabKeeps, DeleteKeeps
<1>2. CASE \E c \in Cards : OpenCard(c)
  BY <1>2, OpenCardKeeps
<1>3. CASE UNCHANGED vars \/ \E c \in Cards : Refetch(c) \/ Trash(c) \/ Restore(c)
  BY <1>3, AsideKeeps
<1>4. CASE \E r \in Requests :
              CreateCard(r) \/ ReadCard(r) \/ UpdateCard(r) \/ Succeeds(r) \/ Fails(r)
  BY <1>4, CreateKeeps, ReadKeeps, UpdateKeeps, SucceedsKeeps, FailsKeeps
<1> QED BY <1>1, <1>2, <1>3, <1>4 DEF Next, PressSave, Hide

(* Once nothing is on its way, the agreement of the saves is the row's.    *)
LEMMA KeepQuiet == TypeOK /\ KeepInv => FilledTextIsKept
<1> SUFFICES ASSUME TypeOK, KeepInv, Quiet, ~ exposed, Valid
             PROVE  IF place = New THEN FormStored ELSE Kept(place, screen)
  BY DEF FilledTextIsKept, Kept
<1>1. /\ \A c : Patches(c) = {} /\ Posts(c) = {}
      /\ open => screen = saved /\ awaited = Nobody
  BY DEF Quiet, Dirty, Patches, Posts
<1>2. CASE place = New
  <2>1. ~ open
    BY <1>1, <1>2, TextsAssumption DEF KeepInv, FormSettled, Valid
  <2> QED BY <1>1, <1>2, <2>1 DEF KeepInv, TypedKept, FormKept, FormStored
<1>3. CASE place # New
  BY <1>1, <1>3 DEF KeepInv, TypedKept, CardKept, Becomes
<1> QED BY <1>2, <1>3

(* What was typed into both sides is in the card once everything has been  *)
(* answered, whichever way the editor was left, but for a domain that was  *)
(* taken away, unless "exposed" names the risk that was taken: the saves   *)
(* on pagehide and on unmount, the POST, and the PATCH, which reads the    *)
(* row for what it was not sent before it writes.                          *)
THEOREM FilledTextIsKeptHolds == Spec => []FilledTextIsKept
<1>1. Init => IInv /\ KeepInv
  BY IInvInit, KeepInit
<1>2. IInv /\ KeepInv /\ [Next]_vars => IInv' /\ KeepInv'
  BY IInvStep, KeepStep
<1>3. IInv /\ KeepInv => FilledTextIsKept
  BY KeepQuiet DEF IInv
<1> QED BY <1>1, <1>2, <1>3, PTL DEF Spec
=============================================================================
