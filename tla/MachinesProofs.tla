--------------------------- MODULE MachinesProofs ---------------------------
(***************************************************************************)
(* The machines that are checked for safety alone, for any number of       *)
(* tabs, requests, callers and runs, and any data.  The pages: a save      *)
(* changes what was entered, a thumb shows its client, the wizard tells    *)
(* the truth, a new router is reached as its row says.  The server: the    *)
(* headers of the obfuscation, the plans of clients, the one dnsmasq, the  *)
(* addresses clients are given and the limits of their speed, and the      *)
(* charts of what was used, on the page and as they are summed up.         *)
(* Each machine has a section: its variables by names of their own, the    *)
(* inductive invariant, a lemma for each action, the theorem.              *)
(***************************************************************************)
EXTENDS MCMachines, SequenceTheorems, FiniteSetTheorems, WellFoundedInduction,
        NaturalsInduction, TLAPS

-----------------------------------------------------------------------------
(* The page of a client.                                                  *)

Steps == {"none", "load", "loaded", "save", "delete", "done", "failed"}
Request == [step : Steps, body : Client \cup {Gone}]

-----------------------------------------------------------------------------
(* The pieces the actions are made of keep their types. *)

LEMMA InputType ==
    ASSUME TypeOK, Input
    PROVE  inputs' \in Nat
BY DEF TypeOK, Input

LEMMA GoesType ==
    ASSUME TypeOK, NEW t \in Tabs, NEW step \in Steps,
           NEW body \in Client \cup {Gone}, Goes(t, step, body)
    PROVE  /\ call' \in [Tabs -> Request]
           /\ call'[t] = [step |-> step, body |-> body]
           /\ \A u \in Tabs \ {t} : call'[u] = call[u]
BY DEF TypeOK, Goes, Steps, Request

LEMMA NoCardType == NoCard \in Card
BY DEF NoCard, Card

LEMMA ListedType ==
    ASSUME TypeOK
    PROVE  Listed \in Card
BY NoCardType DEF TypeOK, Listed, Card, Client

\* A write keeps the copies of others fresh, and the card sound, only when it
\* changes nothing.
LEMMA WriteType ==
    ASSUME TypeOK, NEW new \in Client \cup {Gone}, NEW others \in SUBSET Tabs,
           Write(new, others, FALSE)
    PROVE  /\ row' = new
           /\ fresh' \in [Tabs -> BOOLEAN]
           /\ \A u \in Tabs : fresh'[u] => fresh[u]
           /\ \A u \in others : fresh'[u] => new = row
           /\ card' \in Card
           /\ card' = card \/ card' = [card EXCEPT !.sound = FALSE]
           /\ card'.sound => new = row /\ card' = card
BY DEF TypeOK, Write, Card

LEMMA AnsweredType ==
    ASSUME TypeOK, NEW v \in BOOLEAN, NEW kept \in BOOLEAN, card.calls[v] > 0
    PROVE  Answered(v, kept) \in Card
<1>1. card.calls \in [BOOLEAN -> Nat] /\ card.calls[v] - 1 \in Nat
  BY DEF TypeOK, Card
<1>2. [card.calls EXCEPT ![v] = @ - 1] \in [BOOLEAN -> Nat]
  BY <1>1
<1>3. card.due + 1 \in Nat /\ (card.sound /\ kept) \in BOOLEAN
  BY DEF TypeOK, Card
<1> QED BY <1>2, <1>3 DEF TypeOK, Card, Answered

-----------------------------------------------------------------------------
(* Types. *)

LEMMA TypeInit == Init => TypeOK
<1> SUFFICES ASSUME Init PROVE TypeOK
  OBVIOUS
<1>1. row \in Client
  BY DEF Init, Client
<1>2. data \in [Tabs -> Client \cup {Gone}] /\ call \in [Tabs -> Request]
  BY DEF Init, Quiet, Request, Steps
<1>3. typed \in [Tabs -> SUBSET Fields] /\ fresh \in [Tabs -> BOOLEAN]
  BY DEF Init
<1>4. card \in Card /\ inputs \in Nat
  BY NoCardType DEF Init
<1> QED BY <1>1, <1>2, <1>3, <1>4 DEF TypeOK, Request, Steps

\* The page: what a tab does.
LEMMA TypeTab ==
    ASSUME TypeOK, NEW t \in Tabs,
           \/ Open(t) \/ Revert(t) \/ Answer(t) \/ AnswerFails(t) \/ Show(t)
           \/ Submit(t) \/ UpdateFails(t) \/ Leave(t) \/ Failed(t) \/ DeleteClient(t)
    PROVE  TypeOK'
<1> USE DEF TypeOK
<1>b. call[t].body \in Client \cup {Gone} /\ row \in Client \cup {Gone}
      /\ data[t] \in Client \cup {Gone}
  OBVIOUS
<1>1. CASE Open(t) \/ Revert(t)
  BY <1>1, InputType, GoesType, ZenonT(60) DEF Open, Revert, Steps, Request
<1>2. CASE Answer(t) \/ AnswerFails(t)
  BY <1>2, <1>b, GoesType, ZenonT(60) DEF Answer, AnswerFails, Steps, Request
<1>3. CASE Show(t)
  BY <1>3, <1>b, GoesType DEF Show, Taken, Steps, Request
<1>4. CASE Submit(t) \/ DeleteClient(t)
  BY <1>4, <1>b, InputType, GoesType, ZenonT(60) DEF Submit, DeleteClient, Steps, Request
<1>5. CASE UpdateFails(t) \/ Leave(t) \/ Failed(t)
  BY <1>5, GoesType DEF UpdateFails, Leave, Failed, Steps, Request
<1> QED BY <1>1, <1>2, <1>3, <1>4, <1>5

LEMMA TypeWrites ==
    ASSUME TypeOK, NEW t \in Tabs, Update(t) \/ Delete(t)
    PROVE  TypeOK'
<1>1. CASE Update(t)
  <2>1. call[t].body \in Client \cup {Gone} /\ Tabs \ {t} \in SUBSET Tabs
    BY DEF TypeOK
  <2>2. row' = call[t].body /\ fresh' \in [Tabs -> BOOLEAN] /\ card' \in Card
    BY <1>1, <2>1, WriteType DEF Update
  <2>3. call' \in [Tabs -> Request]
    BY <1>1, GoesType DEF Update, Steps
  <2> QED BY <1>1, <2>1, <2>2, <2>3 DEF Update, TypeOK, Request, Steps
<1>2. CASE Delete(t)
  <2>1. row' \in Client \cup {Gone} /\ fresh' \in [Tabs -> BOOLEAN] /\ card' \in Card
    BY <1>2, WriteType DEF Delete, TypeOK
  <2>2. call' \in [Tabs -> Request]
    BY <1>2, GoesType DEF Delete, Steps
  <2> QED BY <1>2, <2>1, <2>2 DEF Delete, TypeOK, Request, Steps
<1> QED BY <1>1, <1>2

\* Typing changes one field of the form.
LEMMA TypedForm ==
    ASSUME TypeOK, NEW t \in Tabs, NEW f \in Fields, Type(t, f)
    PROVE  /\ data[t] \in Client /\ data[t] # Gone
           /\ data' \in [Tabs -> Client \cup {Gone}]
           /\ data'[t] \in Client
           /\ \A g \in Fields \ {f} : data'[t][g] = data[t][g]
           /\ \A u \in Tabs \ {t} : data'[u] = data[u]
<1>1. PICK v \in IF f = "enabled" THEN BOOLEAN ELSE Values :
         data' = [data EXCEPT ![t][f] = v]
  BY DEF Type
<1>2. data[t] \in Client /\ data[t] # Gone /\ data \in [Tabs -> Client \cup {Gone}]
  BY DEF TypeOK, Type
<1>3. CASE f = "enabled"
  BY <1>1, <1>2, <1>3 DEF Client, Fields
<1>4. CASE f = "rest"
  BY <1>1, <1>2, <1>4 DEF Client, Fields
<1> QED BY <1>3, <1>4 DEF Fields

LEMMA TypeType ==
    ASSUME TypeOK, NEW t \in Tabs, NEW f \in Fields, Type(t, f)
    PROVE  TypeOK'
<1>1. data' \in [Tabs -> Client \cup {Gone}] /\ inputs' \in Nat
  BY TypedForm, InputType DEF Type
<1>2. typed' \in [Tabs -> SUBSET Fields]
  BY DEF Type, TypeOK
<1> QED BY <1>1, <1>2 DEF Type, TypeOK

\* The card, and the enforcers.
LEMMA TypeCard ==
    ASSUME TypeOK, \/ Mount \/ Tick \/ Click \/ Refresh \/ Unmount \/ SwitchOff
    PROVE  TypeOK'
<1>1. CASE Mount
  BY <1>1, InputType DEF Mount, TypeOK, NoCard, Card, Client
<1>2. CASE Tick
  BY <1>2, ListedType DEF Tick, TypeOK
<1>3. CASE Click
  <2>1. AsksFor(card) \in BOOLEAN /\ card.calls \in [BOOLEAN -> Nat]
    BY DEF AsksFor, TypeOK, Card
  <2>2. [card.calls EXCEPT ![AsksFor(card)] = @ + 1] \in [BOOLEAN -> Nat]
    BY <2>1
  <2>3. (card.sound /\ ~Pending) \in BOOLEAN /\ (~card.shown) \in BOOLEAN
    BY Zenon
  <2>4. card' \in Card
    BY <1>3, <2>2, <2>3 DEF Click, Card, TypeOK
  <2> QED BY <1>3, <2>4, InputType DEF Click, TypeOK
<1>4. CASE Refresh
  <2>1. Listed \in Card /\ (row # Gone => Listed.due = card.due)
    BY ListedType DEF Listed, TypeOK, Card
  <2>2. card' \in Card
    BY <1>4, <2>1, NoCardType DEF Refresh, Card, TypeOK
  <2> QED BY <1>4, <2>2 DEF Refresh, TypeOK
<1>5. CASE Unmount
  BY <1>5, NoCardType DEF Unmount, TypeOK
<1>6. CASE SwitchOff
  <2> DEFINE off == [row EXCEPT !.enabled = FALSE]
  <2>1. off \in Client /\ Write(off, Tabs, FALSE)
    BY <1>6 DEF SwitchOff, TypeOK, Client
  <2> HIDE DEF off
  <2>2. row' \in Client /\ fresh' \in [Tabs -> BOOLEAN] /\ card' \in Card
    BY <2>1, WriteType
  <2> QED BY <1>6, <2>2, InputType DEF SwitchOff, TypeOK
<1> QED BY <1>1, <1>2, <1>3, <1>4, <1>5, <1>6

LEMMA TypeToggle ==
    ASSUME TypeOK, NEW v \in BOOLEAN, Toggle(v) \/ ToggleFails(v)
    PROVE  TypeOK'
<1>1. CASE Toggle(v)
  <2>1. row' \in Client /\ fresh' \in [Tabs -> BOOLEAN]
    BY <1>1 DEF Toggle, TypeOK, Client
  <2> QED BY <1>1, <2>1, AnsweredType DEF Toggle, TypeOK
<1>2. CASE ToggleFails(v)
  BY <1>2, AnsweredType DEF ToggleFails, TypeOK
<1> QED BY <1>1, <1>2

LEMMA TypeStep == TypeOK /\ [Next]_cvars => TypeOK'
<1> SUFFICES ASSUME TypeOK, [Next]_cvars PROVE TypeOK'
  OBVIOUS
<1>1. CASE UNCHANGED cvars
  BY <1>1 DEF cvars, TypeOK
<1>2. CASE Next
  BY <1>2, TypeTab, TypeWrites, TypeType, TypeCard, TypeToggle DEF Next
<1> QED BY <1>1, <1>2

(* Every variable keeps its type: the requests, forms and switches are what *)
(* the pages of app/pages/clients/[id].vue and Switch.vue can hold.          *)
THEOREM TypeCorrect == Spec => []TypeOK
BY TypeInit, TypeStep, PTL DEF Spec

-----------------------------------------------------------------------------
(* The card.  A sound card has at most one request under way or answered.    *)

\* Before a click the thumb, the last list and the row agree; while the request
\* is under way the thumb is ahead of both; when it is answered, of the list.
Ahead ==
  (card.open /\ card.sound) =>
    \/ /\ card.due = 0 /\ \A v \in BOOLEAN : card.calls[v] = 0
       /\ card.shown = row.enabled /\ card.props = row.enabled
    \/ /\ card.due = 0 /\ card.calls[card.shown] = 1 /\ card.calls[~card.shown] = 0
       /\ card.shown = ~row.enabled /\ card.props = row.enabled
    \/ /\ card.due = 1 /\ \A v \in BOOLEAN : card.calls[v] = 0
       /\ card.shown = row.enabled

LEMMA AheadShows == TypeOK /\ Ahead => ThumbIsTrue
BY DEF TypeOK, Ahead, ThumbIsTrue, Pending, Card

\* Steps that leave card and row alone, and writes of others.
LEMMA AheadSame ==
    ASSUME Ahead, UNCHANGED <<row, card>>
    PROVE  Ahead'
BY DEF Ahead

LEMMA AheadWrite ==
    ASSUME TypeOK, Ahead, NEW new \in Client \cup {Gone},
           NEW others \in SUBSET Tabs, Write(new, others, FALSE)
    PROVE  Ahead'
<1> SUFFICES ASSUME card'.sound PROVE Ahead'
  BY DEF Ahead
<1>1. row' = row /\ card' = card
  BY WriteType
<1> QED BY <1>1, AheadSame

\* A request is counted where it belongs, and nowhere else.
LEMMA OneMore ==
    ASSUME NEW c \in [BOOLEAN -> Nat], NEW v \in BOOLEAN, NEW w \in BOOLEAN, v # w,
           c[v] = 0, c[w] = 0
    PROVE  [c EXCEPT ![v] = @ + 1][v] = 1 /\ [c EXCEPT ![v] = @ + 1][w] = 0
OBVIOUS

LEMMA TwoValues == TRUE # FALSE /\ FALSE # TRUE /\ TRUE \in BOOLEAN /\ FALSE \in BOOLEAN
OBVIOUS

LEMMA AheadCard ==
    ASSUME TypeOK, Ahead, Mount \/ Tick \/ Click \/ Refresh \/ Unmount
    PROVE  Ahead'
<1>t. card \in Card /\ row \in Client \cup {Gone}
  BY DEF TypeOK
<1>1. CASE Mount
  BY <1>1, <1>t DEF Mount, Ahead, NoCard, Client
<1>2. CASE Tick
  BY <1>2, <1>t DEF Tick, Ahead, Listed, NoCard, Card, Client
<1>3. CASE Click
  <2> SUFFICES ASSUME card'.sound PROVE Ahead'
    BY DEF Ahead
  <2>1. /\ card.open /\ card.sound /\ ~Pending
        /\ row' = row
        /\ card' = [card EXCEPT !.shown = ~@, !.calls[~card.props] = @ + 1,
                               !.sound = @ /\ ~Pending]
    BY <1>3, <1>t DEF Click, Card, AsksFor
  <2>2. /\ card.due = 0 /\ \A v \in BOOLEAN : card.calls[v] = 0
        /\ card.shown = row.enabled /\ card.props = row.enabled
    BY <2>1, <1>t DEF Ahead, Pending, Card
  <2>3. card.calls \in [BOOLEAN -> Nat] /\ card.calls[TRUE] = 0 /\ card.calls[FALSE] = 0
    <3>1. card.calls \in [BOOLEAN -> Nat]
      BY <1>t DEF Card
    <3>2. card.calls[TRUE] = 0 /\ card.calls[FALSE] = 0
      BY <2>2, Zenon
    <3> QED BY <3>1, <3>2
  <2>4. CASE card.props = TRUE
    <3>1. card.shown = TRUE /\ row.enabled = TRUE
      BY <2>2, <2>4
    <3>2. /\ card'.due = 0 /\ card'.props = TRUE /\ card'.shown = FALSE
          /\ card'.calls = [card.calls EXCEPT ![FALSE] = @ + 1]
      BY <2>1, <2>2, <2>4, <3>1, <1>t DEF Card
    <3>3. card'.calls[FALSE] = 1 /\ card'.calls[TRUE] = 0
      BY <2>3, <3>2, OneMore, TwoValues, Zenon
    <3> QED BY <2>1, <3>1, <3>2, <3>3 DEF Ahead
  <2>5. CASE card.props = FALSE
    <3>1. card.shown = FALSE /\ row.enabled = FALSE
      BY <2>2, <2>5
    <3>2. /\ card'.due = 0 /\ card'.props = FALSE /\ card'.shown = TRUE
          /\ card'.calls = [card.calls EXCEPT ![TRUE] = @ + 1]
      BY <2>1, <2>2, <2>5, <3>1, <1>t DEF Card
    <3>3. card'.calls[TRUE] = 1 /\ card'.calls[FALSE] = 0
      BY <2>3, <3>2, OneMore, TwoValues, Zenon
    <3> QED BY <2>1, <3>1, <3>2, <3>3 DEF Ahead
  <2> QED BY <1>t, <2>4, <2>5 DEF Card
<1>4. CASE Refresh
  <2>1. CASE row = Gone
    BY <1>4, <2>1 DEF Refresh, Ahead, NoCard
  <2>2. CASE row # Gone
    <3>1. card' = [card EXCEPT !.props = row.enabled, !.due = @ - 1]
      BY <1>4, <2>2, <1>t DEF Refresh, Listed, Card
    <3>2. /\ card'.props = row.enabled /\ card'.due = card.due - 1 /\ card'.calls = card.calls
          /\ card'.shown = card.shown /\ card'.open = card.open /\ card'.sound = card.sound
      BY <3>1, <1>t DEF Card
    <3> SUFFICES ASSUME card.open, card.sound PROVE Ahead'
      BY <3>2 DEF Ahead
    <3>3. card.due = 1 /\ card.shown = row.enabled /\ \A v \in BOOLEAN : card.calls[v] = 0
      BY <1>4 DEF Refresh, Ahead
    <3>4. card'.due = 0 /\ card'.shown = row'.enabled /\ card'.props = row'.enabled
      BY <1>4, <3>2, <3>3 DEF Refresh
    <3>5. \A v \in BOOLEAN : card'.calls[v] = 0
      BY <3>2, <3>3, Zenon
    <3> QED BY <3>4, <3>5 DEF Ahead
  <2> QED BY <2>1, <2>2
<1>5. CASE Unmount
  BY <1>5 DEF Unmount, Ahead, NoCard
<1> QED BY <1>1, <1>2, <1>3, <1>4, <1>5

LEMMA AheadToggle ==
    ASSUME TypeOK, Ahead, NEW v \in BOOLEAN, Toggle(v) \/ ToggleFails(v)
    PROVE  Ahead'
<1>t. card \in Card /\ row \in Client \cup {Gone} /\ card.calls[v] > 0
  BY DEF TypeOK, Toggle, ToggleFails
<1>1. CASE Toggle(v)
  <2> SUFFICES ASSUME card.open, card.sound PROVE Ahead'
    BY <1>1, <1>t DEF Toggle, Ahead, Answered, Card
  <2>1. card.due = 0 /\ card.calls[v] = 1 /\ card.calls[~v] = 0 /\ card.shown = v
    BY <1>t DEF Ahead, Card
  <2>2. row'.enabled = v
    BY <1>1, <1>t DEF Toggle, Client
  <2>3. /\ card'.due = 1 /\ card'.shown = card.shown
        /\ card'.calls = [card.calls EXCEPT ![v] = @ - 1]
    BY <1>1, <1>t, <2>1 DEF Toggle, Answered, Card
  <2>4. \A w \in BOOLEAN : card'.calls[w] = 0
    BY <1>t, <2>1, <2>3 DEF Card
  <2> QED BY <2>1, <2>2, <2>3, <2>4 DEF Ahead
<1>2. CASE ToggleFails(v)
  BY <1>2, <1>t DEF ToggleFails, Ahead, Answered, Card
<1> QED BY <1>1, <1>2

LEMMA AheadStep == TypeOK /\ Ahead /\ [Next]_cvars => Ahead'
<1> SUFFICES ASSUME TypeOK, Ahead, [Next]_cvars PROVE Ahead'
  OBVIOUS
<1>1. CASE UNCHANGED cvars
  BY <1>1, AheadSame DEF cvars
<1>2. CASE \E t \in Tabs : \/ Open(t) \/ Revert(t) \/ Answer(t) \/ AnswerFails(t)
                           \/ Show(t) \/ Submit(t) \/ UpdateFails(t) \/ Leave(t)
                           \/ Failed(t) \/ DeleteClient(t)
                           \/ \E f \in Fields : Type(t, f)
  BY <1>2, AheadSame DEF Open, Revert, Answer, AnswerFails, Show, Submit, UpdateFails,
     Leave, Failed, DeleteClient, Type
<1>3. ASSUME NEW t \in Tabs, Update(t) PROVE Ahead'
  <2>1. call[t].body \in Client \cup {Gone} /\ Tabs \ {t} \in SUBSET Tabs
    BY DEF TypeOK
  <2> QED BY <1>3, <2>1, AheadWrite DEF Update
<1>4. ASSUME NEW t \in Tabs, Delete(t) PROVE Ahead'
  BY <1>4, AheadWrite, AheadSame DEF Delete
<1>5. CASE SwitchOff
  <2> DEFINE off == [row EXCEPT !.enabled = FALSE]
  <2>1. off \in Client /\ Write(off, Tabs, FALSE)
    BY <1>5 DEF SwitchOff, TypeOK, Client
  <2> HIDE DEF off
  <2> QED BY <2>1, AheadWrite
<1>6. CASE Mount \/ Tick \/ Click \/ Refresh \/ Unmount
  BY <1>6, AheadCard
<1>7. CASE \E v \in BOOLEAN : Toggle(v) \/ ToggleFails(v)
  BY <1>7, AheadToggle
<1> QED BY <1>1, <1>2, <1>3, <1>4, <1>5, <1>6, <1>7 DEF Next

(* The switch of a card shows the client's state when its last request has    *)
(* been answered and the list fetched (app/components/ClientCard/Switch.vue), *)
(* as long as nobody else changes the client, no request fails and clicks     *)
(* wait for each other.                                                       *)
THEOREM ThumbCorrect == Spec => []ThumbIsTrue
<1>1. Init => Ahead
  BY DEF Init, Ahead, NoCard
<1> QED BY <1>1, TypeInit, TypeStep, AheadStep, AheadShows, PTL DEF Spec

-----------------------------------------------------------------------------
(* The page.  What a tab holds differs from the row only where its user       *)
(* entered something, as long as nobody else writes.                          *)

Differs(client, other, fields) == \A f \in Fields : client[f] # other[f] => f \in fields

OwnCopy(t) ==
  /\ (fresh[t] /\ row # Gone) =>
       /\ (call[t].step = "loaded" /\ call[t].body # Gone) => call[t].body = row
       /\ (call[t].step # "loaded" /\ data[t] # Gone) => Differs(data[t], row, typed[t])
       /\ call[t].step = "save" => Differs(call[t].body, row, typed[t])
  /\ call[t].step = "save" => Differs(data[t], call[t].body, typed[t])
OwnCopies == \A t \in Tabs : OwnCopy(t)

\* What is sent is what was entered: only the moment before the save matters.
LEMMA CopiesSave == OwnCopies => SaveIsTyped
BY DEF OwnCopies, OwnCopy, SaveIsTyped, Saves, Differs

\* A tab that does nothing keeps its copy fresh only while the row stays.
LEMMA OtherTab ==
    ASSUME OwnCopies, NEW u \in Tabs,
           data'[u] = data[u], call'[u] = call[u], typed'[u] = typed[u],
           fresh'[u] => fresh[u] /\ row' = row
    PROVE  OwnCopy(u)'
BY DEF OwnCopies, OwnCopy, Differs
\* Steps outside the tabs: every tab is one that does nothing.
LEMMA NoTab ==
    ASSUME OwnCopies, UNCHANGED <<data, call, typed>>,
           \A u \in Tabs : fresh'[u] => fresh[u] /\ row' = row
    PROVE  OwnCopies'
BY OtherTab DEF OwnCopies

\* A step of one tab: the others do nothing.
LEMMA OneTab ==
    ASSUME OwnCopies, NEW t \in Tabs, OwnCopy(t)',
           \A u \in Tabs \ {t} :
             /\ data'[u] = data[u] /\ call'[u] = call[u] /\ typed'[u] = typed[u]
             /\ fresh'[u] => fresh[u] /\ row' = row
    PROVE  OwnCopies'
<1> SUFFICES ASSUME NEW u \in Tabs PROVE OwnCopy(u)'
  BY DEF OwnCopies
<1>1. CASE u = t
  BY <1>1
<1>2. CASE u # t
  <2>1. u \in Tabs \ {t}
    BY <1>2
  <2> QED BY <2>1, OtherTab
<1> QED BY <1>1, <1>2

LEMMA CopiesAsk ==
    ASSUME TypeOK, OwnCopies, NEW t \in Tabs,
           Open(t) \/ Revert(t) \/ Submit(t) \/ DeleteClient(t) \/ UpdateFails(t)
    PROVE  OwnCopies'
<1>1. \A u \in Tabs \ {t} : call'[u] = call[u]
  BY DEF Open, Revert, Submit, DeleteClient, UpdateFails, Goes, TypeOK
<1>2. UNCHANGED <<row, data, typed, fresh>>
  BY DEF Open, Revert, Submit, DeleteClient, UpdateFails
<1>3. call'[t].step \in {"load", "delete", "failed"} \/
      (call'[t] = [step |-> "save", body |-> data[t]] /\ data[t] # Gone)
  BY DEF Open, Revert, Submit, DeleteClient, UpdateFails, Goes, TypeOK
<1>4. call[t].step # "loaded"
  BY DEF Open, Revert, Submit, DeleteClient, UpdateFails, Idle
<1>5. OwnCopy(t)'
  BY <1>2, <1>3, <1>4 DEF OwnCopies, OwnCopy, Differs
<1> QED BY <1>1, <1>2, <1>5, OneTab

LEMMA CopiesAnswer ==
    ASSUME TypeOK, OwnCopies, NEW t \in Tabs,
           Answer(t) \/ AnswerFails(t) \/ Failed(t)
    PROVE  OwnCopies'
<1>1. \A u \in Tabs \ {t} : call'[u] = call[u] /\ fresh'[u] = fresh[u]
  BY DEF Answer, AnswerFails, Failed, Goes, TypeOK
<1>2. UNCHANGED <<row, data, typed>>
  BY DEF Answer, AnswerFails, Failed
<1>3. CASE Answer(t) \/ AnswerFails(t)
  <2>1. call'[t].step = "loaded" /\ call'[t].body \in {row, Gone}
    BY <1>3 DEF Answer, AnswerFails, Goes, TypeOK
  <2>2. OwnCopy(t)'
    BY <1>2, <2>1 DEF OwnCopy
  <2> QED BY <1>1, <1>2, <2>2, OneTab
<1>4. CASE Failed(t)
  <2>1. call'[t].step = "load" /\ call[t].step = "failed" /\ fresh' = fresh
    BY <1>4 DEF Failed, Goes, TypeOK
  <2>2. OwnCopy(t)'
    BY <1>2, <2>1 DEF OwnCopies, OwnCopy, Differs
  <2> QED BY <1>1, <1>2, <2>2, OneTab
<1> QED BY <1>3, <1>4

LEMMA CopiesShow ==
    ASSUME TypeOK, OwnCopies, NEW t \in Tabs, Show(t) \/ Leave(t)
    PROVE  OwnCopies'
<1>1. \A u \in Tabs \ {t} : call'[u] = call[u] /\ data'[u] = data[u] /\ typed'[u] = typed[u]
  BY DEF Show, Leave, Goes, TypeOK
<1>2. UNCHANGED <<row, fresh>> /\ call'[t].step = "none"
  BY DEF Show, Leave, Goes, TypeOK
<1>3. CASE Show(t)
  <2>1. data'[t] = call[t].body /\ call[t].step = "loaded"
    BY <1>3 DEF Show, Taken, TypeOK
  <2>2. OwnCopy(t)'
    BY <1>2, <2>1 DEF OwnCopies, OwnCopy, Differs
  <2> QED BY <1>1, <1>2, <2>2, OneTab
<1>4. CASE Leave(t)
  <2>1. data'[t] = Gone
    BY <1>4 DEF Leave, TypeOK
  <2>2. OwnCopy(t)'
    BY <1>2, <2>1 DEF OwnCopy
  <2> QED BY <1>1, <1>2, <2>2, OneTab
<1> QED BY <1>3, <1>4

LEMMA CopiesType ==
    ASSUME TypeOK, OwnCopies, NEW t \in Tabs, NEW f \in Fields, Type(t, f)
    PROVE  OwnCopies'
<1>1. /\ \A g \in Fields \ {f} : data'[t][g] = data[t][g]
      /\ \A u \in Tabs \ {t} : data'[u] = data[u]
      /\ data[t] # Gone
  BY TypedForm
<1>2. /\ typed'[t] = typed[t] \cup {f}
      /\ \A u \in Tabs \ {t} : typed'[u] = typed[u]
      /\ UNCHANGED <<row, call, fresh>>
  BY DEF Type, TypeOK
<1>3. ASSUME NEW other, Differs(data[t], other, typed[t])
      PROVE  Differs(data'[t], other, typed'[t])
  BY <1>1, <1>2, <1>3 DEF Differs
<1>4. ASSUME NEW body, Differs(body, row, typed[t])
      PROVE  Differs(body, row, typed'[t])
  BY <1>2, <1>4 DEF Differs
<1>5. OwnCopy(t)'
  BY <1>1, <1>2, <1>3, <1>4 DEF OwnCopies, OwnCopy, Differs
<1> QED BY <1>1, <1>2, <1>5, OneTab

LEMMA CopiesWrite ==
    ASSUME TypeOK, OwnCopies, NEW t \in Tabs, Update(t) \/ Delete(t)
    PROVE  OwnCopies'
<1>1. /\ UNCHANGED <<data, typed>>
      /\ \A u \in Tabs \ {t} : call'[u] = call[u]
      /\ call'[t].step \in {"done", "failed"}
  <2>1. PICK step \in {"done", "failed"} : Goes(t, step, Gone)
    BY DEF Update, Delete
  <2>2. step \in Steps /\ Gone \in Client \cup {Gone}
    BY <2>1 DEF Steps
  <2>3. call'[t] = [step |-> step, body |-> Gone] /\ \A u \in Tabs \ {t} : call'[u] = call[u]
    BY <2>1, <2>2, GoesType
  <2>4. UNCHANGED <<data, typed>>
    BY DEF Update, Delete
  <2> QED BY <2>1, <2>3, <2>4
<1>2. CASE Update(t)
  <2>1. call[t].body \in Client \cup {Gone} /\ Tabs \ {t} \in SUBSET Tabs
    BY DEF TypeOK
  <2>2. /\ row' = call[t].body
        /\ \A u \in Tabs \ {t} : fresh'[u] => fresh[u] /\ row' = row
    BY <1>2, <2>1, WriteType DEF Update
  <2>3. Differs(data[t], call[t].body, typed[t])
    BY <1>2 DEF Update, OwnCopies, OwnCopy
  <2>4. OwnCopy(t)'
    BY <1>1, <2>2, <2>3 DEF OwnCopy, Differs
  <2> QED BY <1>1, <2>2, <2>4, OneTab
<1>3. CASE Delete(t)
  <2>1. \A u \in Tabs \ {t} : fresh'[u] => fresh[u] /\ row' = row
    BY <1>3, WriteType DEF Delete
  <2>2. row' = Gone \/ UNCHANGED <<row, fresh>>
    BY <1>3, WriteType DEF Delete
  <2>3. call[t].step = "delete"
    BY <1>3 DEF Delete
  <2>4. OwnCopy(t)'
    BY <1>1, <2>2, <2>3 DEF OwnCopies, OwnCopy, Differs
  <2> QED BY <1>1, <2>1, <2>4, OneTab
<1> QED BY <1>2, <1>3

LEMMA CopiesCard ==
    ASSUME TypeOK, OwnCopies,
           \/ Mount \/ Tick \/ Click \/ Refresh \/ Unmount \/ SwitchOff
           \/ \E v \in BOOLEAN : Toggle(v) \/ ToggleFails(v)
    PROVE  OwnCopies'
<1>1. CASE Mount \/ Tick \/ Click \/ Refresh \/ Unmount
           \/ \E v \in BOOLEAN : ToggleFails(v)
  BY <1>1, NoTab DEF Mount, Tick, Click, Refresh, Unmount, ToggleFails
<1>2. ASSUME NEW v \in BOOLEAN, Toggle(v) PROVE OwnCopies'
  <2>1. row \in Client
    BY <1>2 DEF Toggle, TypeOK
  <2>2. \A u \in Tabs : fresh'[u] => fresh[u] /\ row.enabled = v
    BY <1>2 DEF Toggle
  <2>3. row.enabled = v => row' = row
    BY <1>2, <2>1 DEF Toggle, Client
  <2> QED BY <1>2, <2>2, <2>3, NoTab DEF Toggle
<1>3. CASE SwitchOff
  <2> DEFINE off == [row EXCEPT !.enabled = FALSE]
  <2>1. off \in Client /\ Write(off, Tabs, FALSE)
    BY <1>3 DEF SwitchOff, TypeOK, Client
  <2> HIDE DEF off
  <2>2. \A u \in Tabs : fresh'[u] => fresh[u] /\ row' = row
    BY <2>1, WriteType
  <2> QED BY <1>3, <2>2, NoTab DEF SwitchOff
<1> QED BY <1>1, <1>2, <1>3

LEMMA CopiesStep == TypeOK /\ OwnCopies /\ [Next]_cvars => OwnCopies'
<1> SUFFICES ASSUME TypeOK, OwnCopies, [Next]_cvars PROVE OwnCopies'
  OBVIOUS
<1>1. CASE UNCHANGED cvars
  BY <1>1, NoTab DEF cvars
<1>2. CASE Next
  BY <1>2, CopiesAsk, CopiesAnswer, CopiesShow, CopiesType, CopiesWrite, CopiesCard
     DEF Next
<1> QED BY <1>1, <1>2

(* A save of a page whose client nobody else wrote since the page was loaded  *)
(* changes only what was entered in that tab since then (useSubmit.ts and the *)
(* route it posts to), in whatever order requests, answers, failures, saves   *)
(* of other tabs and the enforcers come.                                      *)
THEOREM SaveCorrect == Spec => Deliberate
<1>1. Init => OwnCopies
  <2> SUFFICES ASSUME Init, NEW t \in Tabs PROVE OwnCopy(t)
    BY DEF OwnCopies
  <2>1. data[t] = Gone /\ call[t].step = "none"
    BY DEF Init, Quiet
  <2> QED BY <2>1 DEF OwnCopy
<1>2. OwnCopies => [SaveIsTyped]_cvars
  BY CopiesSave
<1> QED BY <1>1, <1>2, TypeInit, TypeStep, CopiesStep, PTL DEF Spec, Deliberate
-----------------------------------------------------------------------------
(* The AmneziaWG engine.                                                   *)
table == x1
conf == x2
dev == x3
chain == x4
checked == x5
dockerMode == x6
tool == x7
handed == x8
calm == x9
replaced == x10
raced == x11
edited == x12
USE DEF table, conf, dev, chain, checked, dockerMode, tool, handed, calm, replaced,
        raced, edited

AmneziaShape ==
  /\ table \in Aw!Settings
  /\ chain \in [Actors -> Aw!Chain]
  /\ checked \in BOOLEAN /\ calm \in BOOLEAN /\ raced \in BOOLEAN

\* Which steps a start and a sync take, with a row in their hands.
Roads ==
  \A c \in Actors :
    /\ chain[c].at # "idle" => chain[c].iface \in Aw!Settings
    /\ chain[c].at \in {"save", "down", "which", "up"} => chain[c].up
    /\ chain[c].at \in {"load", "seek", "sync"} => ~chain[c].up
    /\ chain[c].at \in {"which", "seek", "up", "sync"} => checked
    /\ chain[c].at \in {"down", "load", "which", "seek", "up", "sync"} => conf \in Aw!Settings

\* The tool was found, or the one chain that looks for it is under way.
Looked == checked => Aw!Works \/ \E c \in Actors : chain[c].at \in {"which", "seek"}

\* Only one start has read a row without headers, none were drawn or entered
\* since, and what was handed out is in the row or was replaced by an edit.
OneDraws ==
  ~raced =>
    /\ handed \ {Aw!None} \subseteq replaced \union {table.h}
    /\ \A c \in Actors : chain[c].at = "save" /\ chain[c].iface.h = Aw!None
                         => table.h = Aw!None
    /\ \A c, d \in Actors : /\ chain[c].at = "save" /\ chain[c].iface.h = Aw!None
                            /\ chain[d].at = "save" /\ chain[d].iface.h = Aw!None
                            => c = d

\* Where the one chain is after a start nothing disturbed.
Leg(c) ==
  CASE chain[c].at = "save" -> chain[c].iface = table /\ edited = Aw!Expected(table)
    [] chain[c].at = "write" ->
         /\ chain[c].iface = table /\ Aw!Meets(table, edited)
         /\ chain[c].up \/ dev # Aw!NoDevice
    [] chain[c].at \in {"down", "which", "up"} -> conf = table /\ Aw!Meets(table, edited)
    [] chain[c].at \in {"load", "seek", "sync"} ->
         conf = table /\ Aw!Meets(table, edited) /\ dev # Aw!NoDevice
    [] OTHER -> FALSE

Rested == Aw!Meets(table, edited) /\ Aw!Runs(dev, table)

OneByOne ==
  calm =>
    /\ \A c \in Actors : chain[c] # Aw!Idle => Leg(c)
    /\ \A c, d \in Actors : chain[c] # Aw!Idle /\ chain[d] # Aw!Idle => c = d
    /\ Aw!Quiet => Rested

AmneziaInv == AmneziaShape /\ Roads /\ Looked /\ OneDraws /\ OneByOne

LEMMA HeadersAssumption ==
  /\ Headers \subseteq Nat \ {0} /\ 0 \notin WgPorts /\ Aw!None = 0 /\ Aw!Drawn = -1
  /\ Aw!NoDevice = [h |-> 0, port |-> 0]
BY MachinesAssumption DEF Aw!AmneziaAssumption, Aw!None, Aw!Drawn, Aw!NoDevice

\* A row as it was found, and as a start has made it of one without headers.
LEMMA FoundRow ==
    ASSUME NEW r \in Aw!Settings
    PROVE  /\ Aw!Expected(r).port = r.port
           /\ Aw!Expected(r).h = IF r.h = Aw!None THEN Aw!Drawn ELSE r.h
           /\ r.h # Aw!Drawn /\ r.port \in WgPorts
           /\ \A s \in Aw!Settings :
                s.port = r.port /\ (IF r.h = Aw!None THEN s.h # Aw!None ELSE s.h = r.h)
                => Aw!Meets(s, Aw!Expected(r))
           /\ Aw!Meets(r, r)
BY HeadersAssumption DEF Aw!Expected, Aw!Settings, Aw!Meets

LEMMA AmneziaInit == Aw!Init => AmneziaInv
<1> SUFFICES ASSUME Aw!Init PROVE AmneziaInv
  OBVIOUS
<1>1. Aw!Idle \in Aw!Chain /\ Aw!Idle.at = "idle"
  BY DEF Aw!Idle, Aw!Chain, Aw!Ats
<1>2. chain \in [Actors -> Aw!Chain] /\ \A c \in Actors : chain[c] = Aw!Idle /\ chain[c].at = "idle"
  BY <1>1 DEF Aw!Init
<1>3. AmneziaShape
  BY <1>2 DEF Aw!Init, AmneziaShape, Aw!Settings
<1>4. Roads /\ Looked
  BY <1>2 DEF Aw!Init, Roads, Looked
<1>5. OneDraws
  BY <1>2 DEF Aw!Init, OneDraws
<1>6. OneByOne
  BY DEF Aw!Init, OneByOne
<1> QED BY <1>3, <1>4, <1>5, <1>6 DEF AmneziaInv

LEMMA AmneziaKeeps == AmneziaInv => Aw!Agrees /\ Aw!HeadersStay
BY DEF AmneziaInv, OneByOne, OneDraws, Rested, Aw!Agrees, Aw!HeadersStay

\* A chain that moves on.
LEMMA ChainTo ==
    ASSUME AmneziaShape, NEW c \in Actors, NEW a \in Aw!Ats, Aw!To(c, a)
    PROVE  /\ chain' \in [Actors -> Aw!Chain]
           /\ chain'[c].at = a /\ chain'[c].up = chain[c].up
           /\ chain'[c].iface = chain[c].iface
           /\ \A d \in Actors \ {c} : chain'[d] = chain[d]
<1>1. PICK old \in Aw!Chain : old = chain[c]
  BY DEF AmneziaShape
<1>2. PICK new : new = [old EXCEPT !.at = a]
  OBVIOUS
<1>3. new \in Aw!Chain /\ new.at = a /\ new.up = old.up /\ new.iface = old.iface
  BY <1>2 DEF Aw!Chain
<1>4. chain' = [chain EXCEPT ![c] = new]
  BY <1>1, <1>2 DEF Aw!To
<1> QED BY <1>1, <1>3, <1>4 DEF AmneziaShape

LEMMA ChainThen ==
    ASSUME AmneziaShape, NEW c \in Actors, NEW new \in Aw!Chain, Aw!Then(c, new)
    PROVE  /\ chain' \in [Actors -> Aw!Chain] /\ chain'[c] = new
           /\ \A d \in Actors \ {c} : chain'[d] = chain[d]
BY DEF AmneziaShape, Aw!Then

LEMMA IdleChain == Aw!Idle \in Aw!Chain /\ Aw!Idle.at = "idle"
BY DEF Aw!Idle, Aw!Chain, Aw!Ats

\* The chain under way, of an execution nothing disturbed.
LEMMA MyLeg ==
    ASSUME AmneziaInv, NEW c \in Actors, chain[c].at # "idle", calm
    PROVE  Leg(c) /\ \A d \in Actors \ {c} : chain[d] = Aw!Idle
<1>1. chain[c] # Aw!Idle
  BY IdleChain
<1> QED BY <1>1 DEF AmneziaInv, OneByOne

LEMMA OneChain ==
    ASSUME NEW c \in Actors,
           \A d \in Actors \ {c} : chain'[d] = chain[d],
           calm' =>
             /\ \A d \in Actors \ {c} : chain[d] = Aw!Idle
             /\ IF chain'[c] = Aw!Idle THEN Rested' ELSE Leg(c)'
    PROVE  OneByOne'
<1> SUFFICES ASSUME calm'
             PROVE  /\ \A d \in Actors : chain'[d] # Aw!Idle => Leg(d)'
                    /\ \A d, e \in Actors : chain'[d] # Aw!Idle /\ chain'[e] # Aw!Idle => d = e
                    /\ (\A d \in Actors : chain'[d] = Aw!Idle) => Rested'
  BY DEF OneByOne, Aw!Quiet, Aw!Idle, Aw!None, Aw!NoDevice
<1>1. \A d \in Actors \ {c} : chain'[d] = Aw!Idle
  OBVIOUS
<1>2. \A d \in Actors : chain'[d] # Aw!Idle => d = c
  BY <1>1
<1> QED BY <1>2

LEMMA StartAgrees ==
    ASSUME AmneziaInv, NEW c \in Actors, Aw!BringUp(c) PROVE AmneziaInv'
<1>1. /\ chain[c] = Aw!Idle
      /\ Aw!Then(c, [at |-> "save", up |-> TRUE, iface |-> table])
      /\ calm' = Aw!Quiet /\ edited' = Aw!Expected(table)
      /\ raced' = (raced \/ \E d \in Actors :
                        chain[d].at = "save" /\ chain[d].iface.h = Aw!None)
      /\ UNCHANGED <<table, conf, dev, checked, dockerMode, tool, handed, replaced>>
  BY DEF Aw!BringUp, Aw!Begin, Aw!tools, Aw!Unsaved
<1>2. AmneziaShape
  BY DEF AmneziaInv
<1>3. PICK new : new = [at |-> "save", up |-> TRUE, iface |-> table]
  OBVIOUS
<1>4. new \in Aw!Chain /\ new.at = "save" /\ new.up /\ new.iface = table
  BY <1>2, <1>3 DEF Aw!Chain, Aw!Ats, AmneziaShape
<1>5. /\ chain' \in [Actors -> Aw!Chain] /\ chain'[c] = new
      /\ \A d \in Actors \ {c} : chain'[d] = chain[d]
  BY <1>1, <1>2, <1>3, <1>4, ChainThen
<1>6. chain[c].at = "idle"
  BY <1>1, IdleChain
<1>7. calm' \in BOOLEAN /\ raced' \in BOOLEAN
  BY <1>1, <1>2 DEF AmneziaShape, Aw!Quiet
<1>8. AmneziaShape'
  BY <1>1, <1>2, <1>5, <1>7 DEF AmneziaShape
<1>9. Roads'
  BY <1>1, <1>2, <1>4, <1>5 DEF AmneziaInv, Roads, AmneziaShape
<1>10. Looked'
  <2>1. Aw!Works' = Aw!Works
    BY <1>1 DEF Aw!Works
  <2> QED BY <1>1, <1>5, <1>6, <2>1 DEF AmneziaInv, Looked
<1>12. OneDraws'
  <2> SUFFICES ASSUME ~raced' PROVE OneDraws'
    BY DEF OneDraws
  <2>1. ~raced /\ \A d \in Actors : ~(chain[d].at = "save" /\ chain[d].iface.h = Aw!None)
    BY <1>1
  <2>2. handed' \ {Aw!None} \subseteq replaced' \union {table'.h}
    BY <1>1, <2>1 DEF AmneziaInv, OneDraws
  <2>3. \A d \in Actors : chain'[d].at = "save" /\ chain'[d].iface.h = Aw!None => d = c
    BY <1>5, <2>1
  <2>4. chain'[c].iface.h = Aw!None => table'.h = Aw!None
    BY <1>1, <1>4, <1>5
  <2> QED BY <2>2, <2>3, <2>4 DEF OneDraws, Aw!None
<1>13. calm' =>
         /\ \A d \in Actors \ {c} : chain[d] = Aw!Idle
         /\ chain'[c] # Aw!Idle
         /\ Leg(c)'
  <2>1. Leg(c)'
    <3>1. edited' = Aw!Expected(table)'
      BY <1>1 DEF Aw!Expected, Aw!None, Aw!Drawn
    <3> QED BY <1>1, <1>4, <1>5, <3>1 DEF Leg
  <2>2. chain'[c] # Aw!Idle
    BY <1>4, <1>5, IdleChain
  <2> QED BY <1>1, <2>1, <2>2 DEF Aw!Quiet
<1>14. OneByOne'
  BY <1>5, <1>13, OneChain
<1> QED BY <1>8, <1>9, <1>10, <1>12, <1>14 DEF AmneziaInv

LEMMA SaveAgrees ==
    ASSUME AmneziaInv, NEW c \in Actors, Aw!SaveHeaders(c) PROVE AmneziaInv'
<1>1. /\ chain[c].at = "save"
      /\ UNCHANGED <<conf, dev, checked, dockerMode, tool, handed, calm, replaced, raced, edited>>
  BY DEF Aw!SaveHeaders, Aw!tools, Aw!history
<1>2. AmneziaShape
  BY DEF AmneziaInv
<1>3. chain[c].up /\ chain[c].iface \in Aw!Settings
  BY <1>1 DEF AmneziaInv, Roads
<1>4. PICK old \in Aw!Settings : old = chain[c].iface
  BY <1>3
<1>5. CASE Aw!Missing(old.h)
  <2>1. PICK h \in Headers \ {old.h} :
          /\ table' = [old EXCEPT !.h = h]
          /\ Aw!Then(c, [chain[c] EXCEPT !.at = "write", !.iface.h = h])
    BY <1>4, <1>5 DEF Aw!SaveHeaders
  <2>2. PICK now \in Aw!Settings : now = [old EXCEPT !.h = h] /\ now.h = h /\ now.port = old.port
    <3>1. PICK now : now = [old EXCEPT !.h = h]
      OBVIOUS
    <3>2. now \in Aw!Settings /\ now.h = h /\ now.port = old.port
      BY <2>1, <3>1 DEF Aw!Settings
    <3> QED BY <3>1, <3>2
  <2>3. PICK mine : mine = chain[c]
    OBVIOUS
  <2>4. PICK new : new = [mine EXCEPT !.at = "write", !.iface.h = h]
    OBVIOUS
  <2>5. mine \in Aw!Chain /\ mine.iface = old /\ mine.up
    BY <1>2, <1>3, <1>4, <2>3 DEF AmneziaShape
  <2>6. new = [mine EXCEPT !.at = "write", !.iface = now]
    BY <2>2, <2>4, <2>5 DEF Aw!Chain
  <2>7. new \in Aw!Chain /\ new.at = "write" /\ new.up /\ new.iface = now
    BY <2>5, <2>6 DEF Aw!Chain, Aw!Ats
  <2>8. Aw!Then(c, new)
    BY <2>1, <2>3, <2>4
  <2>9. /\ chain' \in [Actors -> Aw!Chain] /\ chain'[c] = new
        /\ \A d \in Actors \ {c} : chain'[d] = chain[d]
    BY <1>2, <2>7, <2>8, ChainThen
  <2>10. h # Aw!None /\ old.h = Aw!None
    BY <1>5, HeadersAssumption DEF Aw!Missing
  <2>11. table' = now
    BY <2>1, <2>2
  <2>12. AmneziaShape'
    BY <1>1, <1>2, <2>9, <2>11 DEF AmneziaShape
  <2>13. Roads'
    BY <1>1, <2>7, <2>9 DEF AmneziaInv, Roads
  <2>14. Looked'
    <3>1. Aw!Works' = Aw!Works
      BY <1>1 DEF Aw!Works
    <3> QED BY <1>1, <2>9, <3>1 DEF AmneziaInv, Looked
  <2>16. OneDraws'
    <3> SUFFICES ASSUME ~raced PROVE OneDraws'
      BY <1>1 DEF OneDraws
    <3>1. chain[c].iface.h = Aw!None
      BY <1>4, <2>10
    <3>2. table.h = Aw!None
      BY <1>1, <3>1 DEF AmneziaInv, OneDraws
    <3>3. handed' \ {Aw!None} \subseteq replaced'
      BY <1>1, <3>2 DEF AmneziaInv, OneDraws
    <3>4. \A d \in Actors \ {c} : ~(chain[d].at = "save" /\ chain[d].iface.h = Aw!None)
      BY <1>1, <3>1 DEF AmneziaInv, OneDraws
    <3>5. \A d \in Actors : ~(chain'[d].at = "save" /\ chain'[d].iface.h = Aw!None)
      BY <2>7, <2>9, <3>4
    <3> QED BY <3>3, <3>5 DEF OneDraws, Aw!None
  <2>17. ASSUME calm
         PROVE  /\ \A d \in Actors \ {c} : chain[d] = Aw!Idle
                /\ chain'[c] # Aw!Idle /\ Leg(c)'
    <3>1. Leg(c) /\ \A d \in Actors \ {c} : chain[d] = Aw!Idle
      BY <1>1, <2>17, MyLeg
    <3>2. edited = Aw!Expected(old)
      BY <1>1, <1>4, <3>1 DEF Leg
    <3>5. Aw!Meets(now, edited)
      BY <2>2, <2>10, <3>2, FoundRow
    <3>6. Aw!Meets(table, edited)'
      BY <1>1, <2>11, <3>5 DEF Aw!Meets, Aw!None, Aw!Drawn
    <3>3. Leg(c)'
      BY <2>2, <2>7, <2>9, <2>11, <3>6 DEF Leg, Aw!None, Aw!NoDevice
    <3>4. chain'[c] # Aw!Idle
      BY <2>7, <2>9, IdleChain
    <3> QED BY <3>1, <3>3, <3>4
  <2>18. OneByOne'
    BY <1>1, <2>9, <2>17, OneChain
  <2> QED BY <2>12, <2>13, <2>14, <2>16, <2>18, SMTT(30) DEF AmneziaInv
<1>6. CASE ~Aw!Missing(old.h)
  <2>1. table' = table /\ Aw!To(c, "write") /\ old.h # Aw!None
    BY <1>4, <1>6 DEF Aw!SaveHeaders, Aw!Missing
  <2>2. /\ chain' \in [Actors -> Aw!Chain]
        /\ chain'[c].at = "write" /\ chain'[c].up = chain[c].up
        /\ chain'[c].iface = chain[c].iface
        /\ \A d \in Actors \ {c} : chain'[d] = chain[d]
    <3>1. "write" \in Aw!Ats
      BY DEF Aw!Ats
    <3> QED BY <1>2, <2>1, <3>1, ChainTo
  <2>3. AmneziaShape'
    BY <1>1, <1>2, <2>1, <2>2 DEF AmneziaShape
  <2>4. Roads'
    BY <1>1, <1>3, <2>2 DEF AmneziaInv, Roads
  <2>5. Looked'
    <3>1. Aw!Works' = Aw!Works
      BY <1>1 DEF Aw!Works
    <3> QED BY <1>1, <2>2, <3>1 DEF AmneziaInv, Looked
  <2>6. OneDraws'
    BY <1>1, <2>1, <2>2 DEF AmneziaInv, OneDraws, Aw!None
  <2>9. ASSUME calm
        PROVE  /\ \A d \in Actors \ {c} : chain[d] = Aw!Idle
               /\ chain'[c] # Aw!Idle /\ Leg(c)'
    <3>1. Leg(c) /\ \A d \in Actors \ {c} : chain[d] = Aw!Idle
      BY <1>1, <2>9, MyLeg
    <3>2. chain[c].iface = table /\ old = table /\ edited = Aw!Expected(old)
      BY <1>1, <1>4, <3>1 DEF Leg
    <3>5. Aw!Meets(old, edited)
      BY <2>1, <3>2, FoundRow
    <3>6. Aw!Meets(table, edited)'
      BY <1>1, <2>1, <3>2, <3>5 DEF Aw!Meets, Aw!None, Aw!Drawn
    <3>3. Leg(c)'
      BY <1>3, <2>1, <2>2, <3>2, <3>6 DEF Leg, Aw!None, Aw!NoDevice
    <3>4. chain'[c] # Aw!Idle
      BY <2>2, IdleChain
    <3> QED BY <3>1, <3>3, <3>4
  <2>10. OneByOne'
    BY <1>1, <2>2, <2>9, OneChain
  <2> QED BY <2>3, <2>4, <2>5, <2>6, <2>10, SMTT(30) DEF AmneziaInv
<1> QED BY <1>5, <1>6

\* Past the save, the headers are no concern of a chain.
LEMMA Onward ==
    ASSUME AmneziaInv, NEW c \in Actors, UNCHANGED <<table, handed, replaced, raced>>,
           \A d \in Actors \ {c} : chain'[d] = chain[d], chain'[c].at # "save"
    PROVE  OneDraws'
<1>1. \A d \in Actors : chain'[d].at = "save" => d # c /\ chain'[d] = chain[d]
  OBVIOUS
<1> QED BY <1>1 DEF AmneziaInv, OneDraws, Aw!None

LEMMA WriteAgrees ==
    ASSUME AmneziaInv, NEW c \in Actors, Aw!WriteConfig(c) PROVE AmneziaInv'
<1>1. /\ chain[c].at = "write" /\ conf' = chain[c].iface
      /\ Aw!To(c, IF chain[c].up THEN "down" ELSE "load")
      /\ UNCHANGED <<table, dev, checked, dockerMode, tool, handed, calm, replaced, raced, edited>>
  BY DEF Aw!WriteConfig, Aw!tools, Aw!history
<1>2. AmneziaShape
  BY DEF AmneziaInv
<1>3. PICK a \in Aw!Ats : a = IF chain[c].up THEN "down" ELSE "load"
  BY DEF Aw!Ats
<1>4. /\ chain' \in [Actors -> Aw!Chain]
      /\ chain'[c].at = a /\ chain'[c].up = chain[c].up
      /\ chain'[c].iface = chain[c].iface
      /\ \A d \in Actors \ {c} : chain'[d] = chain[d]
  BY <1>1, <1>2, <1>3, ChainTo
<1>5. AmneziaShape'
  BY <1>1, <1>2, <1>4 DEF AmneziaShape
<1>6. Roads'
  BY <1>1, <1>3, <1>4 DEF AmneziaInv, Roads
<1>7. Looked'
  <2>1. Aw!Works' = Aw!Works
    BY <1>1 DEF Aw!Works
  <2> QED BY <1>1, <1>4, <2>1 DEF AmneziaInv, Looked
<1>9. OneDraws'
  BY <1>1, <1>3, <1>4, Onward
<1>10. ASSUME calm
       PROVE  /\ \A d \in Actors \ {c} : chain[d] = Aw!Idle
              /\ chain'[c] # Aw!Idle /\ Leg(c)'
  <2>1. Leg(c) /\ \A d \in Actors \ {c} : chain[d] = Aw!Idle
    BY <1>1, <1>10, MyLeg
  <2>2. Aw!Meets(table, edited)' = Aw!Meets(table, edited)
    BY <1>1 DEF Aw!Meets, Aw!None, Aw!Drawn
  <2>3. Leg(c)'
    BY <1>1, <1>3, <1>4, <2>1, <2>2 DEF Leg, Aw!None, Aw!NoDevice
  <2>4. chain'[c] # Aw!Idle
    BY <1>3, <1>4, IdleChain
  <2> QED BY <2>1, <2>3, <2>4
<1>11. OneByOne'
  BY <1>1, <1>4, <1>10, OneChain
<1> QED BY <1>5, <1>6, <1>7, <1>9, <1>11 DEF AmneziaInv

\* The steps of a chain that look for the tool or find it.
LEMMA SeekAgrees ==
    ASSUME AmneziaInv, NEW c \in Actors, Aw!Down(c) \/ Aw!Load(c) \/ Aw!Which(c)
    PROVE  AmneziaInv'
<1>1. /\ chain[c].at \in {"down", "load", "which", "seek"}
      /\ UNCHANGED <<table, conf, tool, handed, calm, replaced, raced, edited>>
      /\ checked' = TRUE /\ dev' \in {dev, Aw!NoDevice}
  BY DEF Aw!Down, Aw!Load, Aw!Which, Aw!Seek, Aw!history, AmneziaInv, Roads
<1>2. AmneziaShape
  BY DEF AmneziaInv
<1>3. PICK a \in Aw!Ats :
        /\ Aw!To(c, a)
        /\ a = CASE chain[c].at = "down" -> IF checked THEN "up" ELSE "which"
                 [] chain[c].at = "load" -> IF checked THEN "sync" ELSE "seek"
                 [] OTHER -> IF chain[c].up THEN "up" ELSE "sync"
  BY DEF Aw!Down, Aw!Load, Aw!Which, Aw!Seek, Aw!Ats
<1>4. /\ chain' \in [Actors -> Aw!Chain]
      /\ chain'[c].at = a /\ chain'[c].up = chain[c].up
      /\ chain'[c].iface = chain[c].iface
      /\ \A d \in Actors \ {c} : chain'[d] = chain[d]
  BY <1>2, <1>3, ChainTo
<1>5. AmneziaShape'
  BY <1>1, <1>2, <1>4 DEF AmneziaShape
<1>6. /\ chain[c].at \in {"down", "which"} => chain[c].up
      /\ chain[c].at \in {"load", "seek"} => ~chain[c].up
      /\ chain[c].iface \in Aw!Settings
  BY <1>1 DEF AmneziaInv, Roads
<1>7. chain'[c].at \in IF chain[c].up THEN {"which", "up"} ELSE {"seek", "sync"}
  BY <1>1, <1>3, <1>4, <1>6
<1>8. Roads'
  BY <1>1, <1>4, <1>6, <1>7 DEF AmneziaInv, Roads
<1>9. Looked'
  <2>1. CASE chain[c].at \in {"which", "seek"}
    <3>1. dockerMode' = (tool = "container")
      BY <2>1 DEF Aw!Down, Aw!Load, Aw!Which, Aw!Found
    <3> QED BY <1>1, <3>1 DEF Looked, Aw!Works
  <2>2. CASE chain[c].at \in {"down", "load"}
    <3>1. dockerMode' = dockerMode
      BY <2>2 DEF Aw!Down, Aw!Load, Aw!Which
    <3>2. Aw!Works' = Aw!Works
      BY <1>1, <3>1 DEF Aw!Works
    <3>3. ~checked => chain'[c].at \in {"which", "seek"}
      BY <1>3, <1>4, <2>2
    <3> QED BY <1>4, <2>2, <3>2, <3>3 DEF AmneziaInv, Looked
  <2> QED BY <1>1, <2>1, <2>2
<1>11. OneDraws'
  BY <1>1, <1>4, <1>7, Onward
<1>12. ASSUME calm
       PROVE  /\ \A d \in Actors \ {c} : chain[d] = Aw!Idle
              /\ chain'[c] # Aw!Idle /\ Leg(c)'
  <2>1. Leg(c) /\ \A d \in Actors \ {c} : chain[d] = Aw!Idle
    BY <1>1, <1>12, MyLeg
  <2>2. Aw!Meets(table, edited)' = Aw!Meets(table, edited)
    BY <1>1 DEF Aw!Meets, Aw!None, Aw!Drawn
  <2>3. ~chain[c].up => dev' = dev
    BY <1>6 DEF Aw!Down, Aw!Load, Aw!Which
  <2>4. conf = table /\ Aw!Meets(table, edited) /\ (~chain[c].up => dev # Aw!NoDevice)
    BY <1>1, <1>6, <2>1 DEF Leg
  <2>5. Leg(c)'
    BY <1>1, <1>4, <1>7, <2>2, <2>3, <2>4 DEF Leg, Aw!None, Aw!NoDevice
  <2>6. chain'[c] # Aw!Idle
    BY <1>7, IdleChain
  <2> QED BY <2>1, <2>5, <2>6
<1>13. OneByOne'
  BY <1>1, <1>4, <1>12, OneChain
<1> QED BY <1>5, <1>8, <1>9, <1>11, <1>13 DEF AmneziaInv

\* The steps that end a chain.
LEMMA EndAgrees ==
    ASSUME AmneziaInv, NEW c \in Actors,
           Aw!Up(c) \/ Aw!Sync(c) \/ Aw!NoTool(c) \/ Aw!Throws(c)
    PROVE  AmneziaInv'
<1>1. /\ chain[c].at \in {"up", "sync"} /\ Aw!Then(c, Aw!Idle)
      /\ UNCHANGED <<table, conf, checked, dockerMode, tool, handed, replaced, raced, edited>>
      /\ calm' = calm \/ calm' = FALSE
  BY DEF Aw!Up, Aw!Sync, Aw!NoTool, Aw!Throws, Aw!tools, Aw!history
<1>2. AmneziaShape
  BY DEF AmneziaInv
<1>3. /\ chain' \in [Actors -> Aw!Chain] /\ chain'[c] = Aw!Idle
      /\ \A d \in Actors \ {c} : chain'[d] = chain[d]
  BY <1>1, <1>2, IdleChain, ChainThen
<1>4. chain'[c].at = "idle"
  BY <1>3, IdleChain
<1>5. AmneziaShape'
  BY <1>1, <1>2, <1>3 DEF AmneziaShape
<1>6. Roads'
  BY <1>1, <1>3, <1>4 DEF AmneziaInv, Roads
<1>7. Looked'
  <2>1. Aw!Works' = Aw!Works
    BY <1>1 DEF Aw!Works
  <2> QED BY <1>1, <1>3, <2>1 DEF AmneziaInv, Looked
<1>9. OneDraws'
  BY <1>1, <1>3, <1>4, Onward
<1>10. ASSUME calm'
       PROVE  (\A d \in Actors \ {c} : chain[d] = Aw!Idle) /\ Rested'
  <2>1. calm
    BY <1>1, <1>10
  <2>2. Leg(c) /\ \A d \in Actors \ {c} : chain[d] = Aw!Idle
    BY <1>1, <2>1, MyLeg
  <2>3. /\ conf = table /\ Aw!Meets(table, edited)
        /\ chain[c].at = "sync" => dev # Aw!NoDevice
    BY <1>1, <2>2 DEF Leg
  <2>4. Aw!Works
    <3>1. \A d \in Actors : chain[d].at \notin {"which", "seek"}
      BY <1>1, <2>2, IdleChain
    <3> QED BY <1>1, <3>1 DEF AmneziaInv, Roads, Looked
  <2>5. Aw!Up(c) \/ Aw!Sync(c)
    BY <1>10, <2>3, <2>4 DEF Aw!NoTool, Aw!Throws
  <2>6. PICK r \in Aw!Settings : r = table
    BY <1>2 DEF AmneziaShape
  <2>7. dev' = r \/ (r.h = Aw!None /\ dev' = [r EXCEPT !.h = dev.h])
    BY <2>3, <2>5, <2>6 DEF Aw!Up, Aw!Sync
  <2>8. dev'.port = r.port /\ (r.h # Aw!None => dev'.h = r.h)
    BY <2>6, <2>7 DEF Aw!Settings
  <2>9. r.port # Aw!NoDevice.port
    BY <2>6, FoundRow, HeadersAssumption
  <2>10. dev' # Aw!NoDevice
    BY <2>8, <2>9
  <2>11. Aw!Runs(dev, table)'
    BY <1>1, <2>6, <2>8, <2>10 DEF Aw!Runs, Aw!None, Aw!NoDevice
  <2>12. Aw!Meets(table, edited)'
    BY <1>1, <2>3 DEF Aw!Meets, Aw!None, Aw!Drawn
  <2> QED BY <2>2, <2>11, <2>12 DEF Rested
<1>11. OneByOne'
  BY <1>1, <1>3, <1>10, OneChain
<1> QED BY <1>5, <1>6, <1>7, <1>9, <1>11 DEF AmneziaInv

\* A sync takes the row, as it is or as it was just edited.
LEMMA SyncAgrees ==
    ASSUME AmneziaInv, NEW c \in Actors,
           Aw!SyncInterface(c) \/ \E e \in Aw!Settings : Aw!Edit(c, e)
    PROVE  AmneziaInv'
<1>1. /\ chain[c] = Aw!Idle
      /\ Aw!Then(c, [at |-> "write", up |-> FALSE, iface |-> table'])
      /\ calm' = (calm /\ Aw!Quiet)
      /\ UNCHANGED <<conf, dev, checked, dockerMode, tool, handed>>
  BY DEF Aw!SyncInterface, Aw!Edit, Aw!Edited, Aw!Begin, Aw!tools
<1>2. AmneziaShape
  BY DEF AmneziaInv
<1>3. \/ UNCHANGED <<table, edited, replaced, raced>>
      \/ /\ table' \in Aw!Settings /\ edited' = table'
         /\ replaced' = (replaced \union {table.h}) \ {table'.h}
         /\ raced' = (raced \/ (Aw!Unsaved /\ table'.h # Aw!None))
  BY DEF Aw!SyncInterface, Aw!Edit
<1>15. table' \in Aw!Settings /\ raced' \in BOOLEAN
  BY <1>2, <1>3 DEF AmneziaShape, Aw!Unsaved
<1>16. Aw!Meets(table, edited) => Aw!Meets(table, edited)'
  <2>1. Aw!Meets(table', table')
    BY <1>15, FoundRow
  <2> QED BY <1>3, <2>1 DEF Aw!Meets, Aw!None, Aw!Drawn
<1>4. PICK new : new = [at |-> "write", up |-> FALSE, iface |-> table']
  OBVIOUS
<1>5. new \in Aw!Chain /\ new.at = "write" /\ ~new.up /\ new.iface = table'
  BY <1>4, <1>15 DEF Aw!Chain, Aw!Ats
<1>6. /\ chain' \in [Actors -> Aw!Chain] /\ chain'[c] = new
      /\ \A d \in Actors \ {c} : chain'[d] = chain[d]
  BY <1>1, <1>2, <1>4, <1>5, ChainThen
<1>7. chain[c].at = "idle" /\ calm' \in BOOLEAN
  BY <1>1, <1>2, IdleChain DEF AmneziaShape
<1>8. AmneziaShape'
  BY <1>1, <1>2, <1>6, <1>7, <1>15 DEF AmneziaShape
<1>9. Roads'
  BY <1>1, <1>5, <1>6, <1>15 DEF AmneziaInv, Roads
<1>10. Looked'
  <2>1. Aw!Works' = Aw!Works
    BY <1>1 DEF Aw!Works
  <2> QED BY <1>1, <1>6, <1>7, <2>1 DEF AmneziaInv, Looked
<1>12. OneDraws'
  <2> SUFFICES ASSUME ~raced' PROVE OneDraws'
    BY DEF OneDraws
  <2>1. \A d \in Actors : chain'[d].at = "save" => d # c /\ chain'[d] = chain[d]
    BY <1>5, <1>6
  <2>2. ~raced
    BY <1>3
  <2>3. handed' \ {Aw!None} \subseteq replaced' \union {table'.h}
    BY <1>1, <1>3, <2>2 DEF AmneziaInv, OneDraws
  <2>4. \A d \in Actors : chain[d].at = "save" /\ chain[d].iface.h = Aw!None
                        => table'.h = Aw!None
    BY <1>3, <2>2 DEF AmneziaInv, OneDraws, Aw!Unsaved
  <2> QED BY <2>1, <2>2, <2>3, <2>4 DEF AmneziaInv, OneDraws, Aw!None
<1>13. ASSUME calm'
       PROVE  /\ \A d \in Actors \ {c} : chain[d] = Aw!Idle
              /\ chain'[c] # Aw!Idle /\ Leg(c)'
  <2>1. calm /\ Aw!Quiet
    BY <1>1, <1>13
  <2>2. Rested
    BY <2>1 DEF AmneziaInv, OneByOne
  <2>3. dev # Aw!NoDevice /\ Aw!Meets(table, edited)'
    BY <1>16, <2>2 DEF Rested, Aw!Runs
  <2>4. Leg(c)'
    BY <1>1, <1>5, <1>6, <2>3 DEF Leg, Aw!None, Aw!NoDevice
  <2>5. chain'[c] # Aw!Idle
    BY <1>5, <1>6, IdleChain
  <2> QED BY <2>1, <2>4, <2>5 DEF Aw!Quiet
<1>14. OneByOne'
  BY <1>1, <1>6, <1>13, OneChain
<1> QED BY <1>8, <1>9, <1>10, <1>12, <1>14 DEF AmneziaInv

\* What does not touch the chains, the row and the device.
LEMMA ChainsRest ==
    ASSUME AmneziaInv,
           UNCHANGED <<table, conf, dev, chain, checked, dockerMode, tool, calm, replaced,
                       raced, edited>>,
           ~raced => handed' \ {Aw!None} \subseteq replaced \union {table.h}
    PROVE  AmneziaInv'
<1>1. AmneziaShape' /\ Roads'
  BY DEF AmneziaInv, AmneziaShape, Roads
<1>2. Looked'
  BY DEF AmneziaInv, Looked, Aw!Works
<1>3. OneDraws'
  BY DEF AmneziaInv, OneDraws, Aw!None
<1>4. OneByOne'
  <2>1. Aw!Meets(table, edited)' = Aw!Meets(table, edited)
    BY DEF Aw!Meets, Aw!None, Aw!Drawn
  <2>2. Aw!Expected(table)' = Aw!Expected(table)
    BY DEF Aw!Expected, Aw!None, Aw!Drawn
  <2>3. Rested' = Rested
    BY <2>1 DEF Rested, Aw!Runs, Aw!None, Aw!NoDevice
  <2>4. \A c \in Actors : Leg(c)' = Leg(c)
    BY <2>1, <2>2 DEF Leg, Aw!None, Aw!NoDevice
  <2> QED BY <2>3, <2>4 DEF AmneziaInv, OneByOne, Aw!Quiet, Aw!Idle, Aw!None, Aw!NoDevice
<1> QED BY <1>1, <1>2, <1>3, <1>4 DEF AmneziaInv

LEMMA AmneziaNext == AmneziaInv /\ Aw!Next => AmneziaInv'
<1> SUFFICES ASSUME AmneziaInv, Aw!Next PROVE AmneziaInv'
  OBVIOUS
<1>1. ASSUME NEW c \in Actors, Aw!BringUp(c) PROVE AmneziaInv'
  BY <1>1, StartAgrees
<1>2. ASSUME NEW c \in Actors, Aw!SyncInterface(c) \/ \E e \in Aw!Settings : Aw!Edit(c, e)
      PROVE  AmneziaInv'
  BY <1>2, SyncAgrees
<1>3. ASSUME NEW c \in Actors, Aw!Step(c) PROVE AmneziaInv'
  <2>1. CASE Aw!SaveHeaders(c)
    BY <2>1, SaveAgrees
  <2>2. CASE Aw!WriteConfig(c)
    BY <2>2, WriteAgrees
  <2>3. CASE Aw!Down(c) \/ Aw!Load(c) \/ Aw!Which(c)
    BY <2>3, SeekAgrees
  <2>4. CASE Aw!Up(c) \/ Aw!Sync(c) \/ Aw!NoTool(c) \/ Aw!Throws(c)
    BY <2>4, EndAgrees
  <2> QED BY <1>3, <2>1, <2>2, <2>3, <2>4 DEF Aw!Step
<1>4. CASE Aw!HandOut
  <2>1. /\ dev # Aw!NoDevice /\ handed' = handed \union {table.h}
        /\ UNCHANGED <<table, conf, dev, chain, checked, dockerMode, tool, calm, replaced,
                       raced, edited>>
    BY <1>4 DEF Aw!HandOut, Aw!tools
  <2>2. ~raced => handed' \ {Aw!None} \subseteq replaced \union {table.h}
    BY <2>1 DEF AmneziaInv, OneDraws
  <2> QED BY <2>1, <2>2, ChainsRest
<1> QED BY <1>1, <1>2, <1>3, <1>4 DEF Aw!Next

LEMMA AmneziaRests ==
    ASSUME AmneziaInv,
           UNCHANGED <<table, conf, dev, chain, checked, dockerMode, tool, handed, calm,
                       replaced, raced, edited>>
    PROVE  AmneziaInv'
BY ChainsRest DEF AmneziaInv, OneDraws

\* After a start that nothing overlapped and that did not fail, and syncs and
\* edits one after the other, the device runs with the row and the row has what
\* the start found or drew, or an edit entered since; and the headers that clients
\* were given stay those of the row until an edit replaces them, unless a start
\* that found none overwrote what another start or an edit had put there in the
\* meantime (bringUp, #exec).
THEOREM HeadersAgree == AllSpec => []HeadersSound
<1> DEFINE Inv == part = "amnezia" => AmneziaInv
<1>1. AllInit => Inv
  BY AmneziaInit DEF AllInit
<1>2. Inv /\ [AllNext]_vars => Inv'
  <2> SUFFICES ASSUME Inv, [AllNext]_vars, part' = "amnezia" PROVE AmneziaInv'
    OBVIOUS
  <2>1. CASE part = "amnezia" /\ Aw!Next
    BY <2>1, AmneziaNext
  <2>2. CASE part = "amnezia" /\ UNCHANGED xvars
    BY <2>2, AmneziaRests DEF xvars
  <2>3. part = "amnezia" /\ (Aw!Next \/ UNCHANGED xvars)
    BY DEF AllNext, Rest, vars
  <2> QED BY <2>1, <2>2, <2>3
<1>3. Inv => HeadersSound
  BY AmneziaKeeps DEF HeadersSound
<1> QED BY <1>1, <1>2, <1>3, PTL DEF AllSpec


-----------------------------------------------------------------------------
(* The page of a router.                                                   *)
record == x1
shownList == x2
fields == x3
askedHost == x4
request == x5
entered == x6
USE DEF record, shownList, fields, askedHost, request, entered

\* What the form shows of a field nobody entered is what the list says.
Untouched(t) ==
  \A r \in shownList[t] : \A f \in Rp!Fields \ entered[t] : fields[t][f] = r[f]

RouterPageInv ==
  /\ record = {} \/ \E r \in Rp!Row : record = {r}
  /\ shownList \in [Actors -> SUBSET Rp!Row] /\ fields \in [Actors -> Rp!Row]
  /\ request \in [Actors -> Rp!Call]
  /\ entered \in [Actors -> SUBSET Rp!Fields]
  /\ askedHost \in [Actors -> Values \union {0}]
  /\ \A t \in Actors : Untouched(t)
  /\ \A t \in Actors : request[t].at = "patch" => request[t].body \subseteq request[t].entered

LEMMA PageFacts ==
  /\ Rp!None = 0 /\ Rp!Empty \in Rp!Row /\ Rp!NoCall \in Rp!Call /\ Rp!NoCall.at = "idle"
BY DEF Rp!None, Rp!Empty, Rp!Row, Rp!NoCall, Rp!Call

LEMMA RouterPageInit == Rp!Init => RouterPageInv
<1> SUFFICES ASSUME Rp!Init PROVE RouterPageInv
  OBVIOUS
<1>1. \E r \in Rp!Row : record = {r}
  <2>1. PICK v \in Values : record = {[f \in Rp!Fields |-> v]}
    BY MachinesAssumption DEF Rp!PageAssumption, Rp!Init
  <2>2. [f \in Rp!Fields |-> v] \in Rp!Row
    BY <2>1 DEF Rp!Row
  <2> QED BY <2>1, <2>2
<1>2. /\ shownList \in [Actors -> SUBSET Rp!Row] /\ fields \in [Actors -> Rp!Row]
      /\ request \in [Actors -> Rp!Call] /\ \A t \in Actors : request[t].at = "idle"
      /\ entered \in [Actors -> SUBSET Rp!Fields]
      /\ askedHost \in [Actors -> Values \union {0}]
  <2>1. shownList \in [Actors -> SUBSET Rp!Row] /\ entered \in [Actors -> SUBSET Rp!Fields]
    BY DEF Rp!Init
  <2>2. fields \in [Actors -> Rp!Row]
    BY PageFacts DEF Rp!Init
  <2>3. request \in [Actors -> Rp!Call] /\ \A t \in Actors : request[t].at = "idle"
    BY PageFacts DEF Rp!Init
  <2>4. askedHost \in [Actors -> Values \union {0}]
    BY PageFacts DEF Rp!Init
  <2> QED BY <2>1, <2>2, <2>3, <2>4
<1>3. \A t \in Actors : Untouched(t)
  BY DEF Rp!Init, Untouched
<1> QED BY <1>1, <1>2, <1>3 DEF RouterPageInv

\* A tab whose form is filled shows the row as it is.
LEMMA FormFilled ==
    ASSUME RouterPageInv, NEW t \in Actors, Rp!Filled(t)
    PROVE  /\ shownList' \in [Actors -> SUBSET Rp!Row] /\ fields' \in [Actors -> Rp!Row]
           /\ entered' \in [Actors -> SUBSET Rp!Fields]
           /\ \A u \in Actors : Untouched(u)'
<1>1. CASE record = {}
  <2>1. shownList' = [shownList EXCEPT ![t] = {}] /\ fields' = fields /\ entered' = entered
    BY <1>1 DEF RouterPageInv, Rp!Filled
  <2>2. \A u \in Actors : Untouched(u)'
    BY <2>1 DEF RouterPageInv, Untouched
  <2> QED BY <2>1, <2>2 DEF RouterPageInv
<1>2. CASE record # {}
  <2>1. PICK r \in Rp!Row : record = {r}
    BY <1>2 DEF RouterPageInv
  <2>2. PICK s : s = Rp!shown(r)
    OBVIOUS
  <2>3. s \in Rp!Row
    BY <2>2 DEF Rp!shown, Rp!Row, Rp!None, Rp!Fields
  <2>4. {Rp!shown(x) : x \in record} = {s} /\ (CHOOSE x \in {s} : TRUE) = s
    BY <2>1, <2>2
  <2>5. /\ shownList' = [shownList EXCEPT ![t] = {s}] /\ fields' = [fields EXCEPT ![t] = s]
        /\ entered' = [entered EXCEPT ![t] = {}]
    BY <1>2, <2>4 DEF Rp!Filled
  <2>6. \A u \in Actors : Untouched(u)'
    BY <2>5 DEF RouterPageInv, Untouched
  <2> QED BY <2>3, <2>5, <2>6 DEF RouterPageInv
<1> QED BY <1>1, <1>2

\* A field of the form that is entered, by hand or by the answer with the fingerprint.
LEMMA FieldEntered ==
    ASSUME RouterPageInv, NEW t \in Actors, NEW f \in Rp!Fields, NEW v \in Values \union {0},
           fields' = [fields EXCEPT ![t][f] = v],
           entered' = [entered EXCEPT ![t] = entered[t] \union {f}],
           shownList' = shownList
    PROVE  /\ fields' \in [Actors -> Rp!Row] /\ entered' \in [Actors -> SUBSET Rp!Fields]
           /\ \A u \in Actors : Untouched(u)'
<1>1. PICK old \in Rp!Row : old = fields[t]
  BY DEF RouterPageInv
<1>2. PICK new : new = [old EXCEPT ![f] = v]
  OBVIOUS
<1>3. new \in Rp!Row /\ \A g \in Rp!Fields \ {f} : new[g] = old[g]
  BY <1>2 DEF Rp!Row, Rp!None
<1>4. fields' = [fields EXCEPT ![t] = new]
  BY <1>1, <1>2
<1>5. \A u \in Actors : Untouched(u)'
  <2> SUFFICES ASSUME NEW u \in Actors, NEW r \in shownList[u], NEW g \in Rp!Fields \ entered'[u]
               PROVE  fields'[u][g] = r[g]
    BY DEF Untouched
  <2>1. CASE u = t
    <3>1. g # f /\ g \notin entered[t]
      BY <2>1 DEF RouterPageInv
    <3>2. fields'[t] = new
      BY <1>4 DEF RouterPageInv
    <3>3. old[g] = r[g]
      BY <1>1, <2>1, <3>1 DEF RouterPageInv, Untouched
    <3> QED BY <1>3, <2>1, <3>1, <3>2, <3>3
  <2>2. CASE u # t
    BY <2>2 DEF RouterPageInv, Untouched
  <2> QED BY <2>1, <2>2
<1> QED BY <1>3, <1>4, <1>5, ZenonT(60) DEF RouterPageInv

\* A request that changes its state.
LEMMA RequestMoves ==
    ASSUME RouterPageInv, NEW t \in Actors, NEW new \in Rp!Call,
           request' = [request EXCEPT ![t] = new],
           new.at = "patch" => new.body \subseteq new.entered
    PROVE  /\ request' \in [Actors -> Rp!Call]
           /\ \A u \in Actors : request'[u].at = "patch" =>
                                  request'[u].body \subseteq request'[u].entered
BY DEF RouterPageInv

\* Requests and forms: the row stays as it is.
LEMMA TabKeeps ==
    ASSUME RouterPageInv, NEW t \in Actors,
           \/ Rp!Load(t) \/ Rp!FetchFingerprint(t) \/ Rp!FingerprintArrives(t)
           \/ Rp!FetchFails(t) \/ Rp!Submit(t) \/ Rp!PatchFails(t) \/ Rp!Revert(t)
           \/ Rp!Refreshed(t) \/ Rp!RefreshFails(t)
           \/ \E f \in Rp!Fields, v \in Values : Rp!Type(t, f, v)
    PROVE  RouterPageInv' /\ record' = record
<1>1. CASE Rp!Load(t)
  <2>1. Rp!Filled(t) /\ UNCHANGED <<record, askedHost, request>>
    BY <1>1 DEF Rp!Load
  <2> QED BY <2>1, FormFilled DEF RouterPageInv
<1>2. CASE Rp!FetchFingerprint(t)
  <2>1. /\ askedHost' = [askedHost EXCEPT ![t] = fields[t]["host"]]
        /\ UNCHANGED <<record, shownList, fields, request, entered>>
    BY <1>2 DEF Rp!FetchFingerprint
  <2>2. fields[t]["host"] \in Values \union {0}
    BY DEF RouterPageInv, Rp!Row, Rp!Fields, Rp!None
  <2> QED BY <2>1, <2>2 DEF RouterPageInv, Untouched
<1>3. CASE Rp!FingerprintArrives(t)
  <2>1. /\ askedHost' = [askedHost EXCEPT ![t] = 0]
        /\ fields' = [fields EXCEPT ![t]["pin"] = askedHost[t]]
        /\ entered' = [entered EXCEPT ![t] = entered[t] \union {"pin"}]
        /\ UNCHANGED <<record, shownList, request>>
    BY <1>3, PageFacts DEF Rp!FingerprintArrives
  <2>2. "pin" \in Rp!Fields /\ askedHost[t] \in Values \union {0}
    BY DEF RouterPageInv, Rp!Fields
  <2>3. /\ fields' \in [Actors -> Rp!Row] /\ entered' \in [Actors -> SUBSET Rp!Fields]
        /\ \A u \in Actors : Untouched(u)'
    BY <2>1, <2>2, FieldEntered
  <2> QED BY <2>1, <2>3 DEF RouterPageInv
<1>4. CASE Rp!FetchFails(t)
  <2>1. /\ askedHost' = [askedHost EXCEPT ![t] = 0]
        /\ UNCHANGED <<record, shownList, fields, request, entered>>
    BY <1>4, PageFacts DEF Rp!FetchFails
  <2> QED BY <2>1 DEF RouterPageInv, Untouched
<1>5. CASE Rp!Submit(t)
  <2>1. PICK new :
          new = [at |-> IF Rp!Diff(t) = {} THEN "refresh" ELSE "patch", body |-> Rp!Diff(t),
                 vals |-> [f \in Rp!Fields |-> IF f \in Rp!Diff(t) THEN fields[t][f] ELSE 0],
                 entered |-> entered[t] \intersect Rp!Diff(t)]
    OBVIOUS
  <2>2. /\ request' = [request EXCEPT ![t] = new]
        /\ UNCHANGED <<record, shownList, fields, askedHost, entered>>
    BY <1>5, <2>1, PageFacts DEF Rp!Submit
  <2>3. Rp!Diff(t) \subseteq Rp!Fields
    BY DEF Rp!Diff
  <2>4. Rp!Diff(t) \subseteq entered[t]
    <3>1. shownList[t] # {}
      BY <1>5 DEF Rp!Submit, Rp!Open
    <3> QED BY <3>1 DEF RouterPageInv, Untouched, Rp!Diff
  <2>5. [f \in Rp!Fields |-> IF f \in Rp!Diff(t) THEN fields[t][f] ELSE 0] \in Rp!Row
    BY DEF RouterPageInv, Rp!Row, Rp!None
  <2>6. new \in Rp!Call /\ new.body \subseteq new.entered
    <3>1. (IF Rp!Diff(t) = {} THEN "refresh" ELSE "patch") \in {"idle", "patch", "refresh"}
      OBVIOUS
    <3>2. entered[t] \intersect Rp!Diff(t) \in SUBSET Rp!Fields
      BY <2>3
    <3>3. new \in Rp!Call
      BY <2>1, <2>3, <2>5, <3>1, <3>2 DEF Rp!Call
    <3>4. new.body \subseteq new.entered
      BY <2>1, <2>4
    <3> QED BY <3>3, <3>4
  <2>7. /\ request' \in [Actors -> Rp!Call]
        /\ \A u \in Actors : request'[u].at = "patch" => request'[u].body \subseteq request'[u].entered
    BY <2>2, <2>6, RequestMoves
  <2> QED BY <2>2, <2>7 DEF RouterPageInv, Untouched
<1>6. CASE Rp!PatchFails(t)
  <2>1. /\ request' = [request EXCEPT ![t] = Rp!NoCall]
        /\ UNCHANGED <<record, shownList, fields, askedHost, entered>>
    BY <1>6 DEF Rp!PatchFails
  <2>2. /\ request' \in [Actors -> Rp!Call]
        /\ \A u \in Actors : request'[u].at = "patch" => request'[u].body \subseteq request'[u].entered
    BY <2>1, PageFacts, RequestMoves
  <2> QED BY <2>1, <2>2 DEF RouterPageInv, Untouched
<1>7. CASE Rp!Revert(t)
  <2>1. PICK old \in Rp!Call : old = request[t]
    BY DEF RouterPageInv
  <2>2. PICK new : new = [old EXCEPT !.at = "refresh"]
    OBVIOUS
  <2>3. new \in Rp!Call /\ new.at = "refresh"
    BY <2>2 DEF Rp!Call
  <2>4. /\ request' = [request EXCEPT ![t] = new]
        /\ UNCHANGED <<record, shownList, fields, askedHost, entered>>
    BY <1>7, <2>1, <2>2 DEF Rp!Revert
  <2>5. /\ request' \in [Actors -> Rp!Call]
        /\ \A u \in Actors : request'[u].at = "patch" => request'[u].body \subseteq request'[u].entered
    BY <2>3, <2>4, RequestMoves
  <2> QED BY <2>4, <2>5 DEF RouterPageInv, Untouched
<1>8. CASE Rp!Refreshed(t)
  <2>1. /\ Rp!Filled(t) /\ request' = [request EXCEPT ![t] = Rp!NoCall]
        /\ UNCHANGED <<record, askedHost>>
    BY <1>8 DEF Rp!Refreshed
  <2>2. /\ request' \in [Actors -> Rp!Call]
        /\ \A u \in Actors : request'[u].at = "patch" => request'[u].body \subseteq request'[u].entered
    BY <2>1, PageFacts, RequestMoves
  <2>3. /\ shownList' \in [Actors -> SUBSET Rp!Row] /\ fields' \in [Actors -> Rp!Row]
        /\ entered' \in [Actors -> SUBSET Rp!Fields]
        /\ \A u \in Actors : Untouched(u)'
    BY <2>1, FormFilled
  <2> QED BY <2>1, <2>2, <2>3 DEF RouterPageInv
<1>9. CASE Rp!RefreshFails(t)
  <2>1. /\ shownList' = [shownList EXCEPT ![t] = {}]
        /\ request' = [request EXCEPT ![t] = Rp!NoCall]
        /\ UNCHANGED <<record, fields, askedHost, entered>>
    BY <1>9 DEF Rp!RefreshFails
  <2>2. /\ request' \in [Actors -> Rp!Call]
        /\ \A u \in Actors : request'[u].at = "patch" => request'[u].body \subseteq request'[u].entered
    BY <2>1, PageFacts, RequestMoves
  <2>3. \A u \in Actors : Untouched(u)'
    BY <2>1 DEF RouterPageInv, Untouched
  <2> QED BY <2>1, <2>2, <2>3 DEF RouterPageInv
<1>10. ASSUME NEW f \in Rp!Fields, NEW v \in Values, Rp!Type(t, f, v)
       PROVE  RouterPageInv' /\ record' = record
  <2>1. /\ fields' = [fields EXCEPT ![t][f] = v]
        /\ entered' = [entered EXCEPT ![t] = entered[t] \union {f}]
        /\ UNCHANGED <<record, shownList, askedHost, request>>
    BY <1>10 DEF Rp!Type
  <2>2. /\ fields' \in [Actors -> Rp!Row] /\ entered' \in [Actors -> SUBSET Rp!Fields]
        /\ \A u \in Actors : Untouched(u)'
    BY <2>1, FieldEntered
  <2> QED BY <2>1, <2>2 DEF RouterPageInv
<1> QED BY <1>1, <1>2, <1>3, <1>4, <1>5, <1>6, <1>7, <1>8, <1>9, <1>10

\* The row gets what was entered.
LEMMA PatchKeeps ==
    ASSUME RouterPageInv, NEW t \in Actors, Rp!Patch(t)
    PROVE  RouterPageInv' /\ Rp!SaveIsDiff
<1>1. /\ request[t].at = "patch" /\ record # {}
      /\ record' = {[f \in Rp!Fields |-> IF f \in request[t].body THEN request[t].vals[f] ELSE r[f]]
                    : r \in record}
      /\ request' = [request EXCEPT ![t] = [Rp!NoCall EXCEPT !.at = "refresh"]]
      /\ UNCHANGED <<shownList, fields, askedHost, entered>>
  BY DEF Rp!Patch
<1>2. PICK r \in Rp!Row : record = {r}
  BY <1>1 DEF RouterPageInv
<1>3. PICK s : s = [f \in Rp!Fields |-> IF f \in request[t].body THEN request[t].vals[f] ELSE r[f]]
  OBVIOUS
<1>4. record' = {s}
  BY <1>1, <1>2, <1>3
<1>5. s \in Rp!Row
  <2>1. request[t].vals \in Rp!Row
    BY DEF RouterPageInv, Rp!Call
  <2> QED BY <1>2, <1>3, <2>1 DEF Rp!Row
<1>6. PICK new : new = [Rp!NoCall EXCEPT !.at = "refresh"]
  OBVIOUS
<1>7. new \in Rp!Call /\ new.at = "refresh"
  BY <1>6, PageFacts DEF Rp!Call
<1>8. /\ request' \in [Actors -> Rp!Call] /\ request'[t] = new
      /\ \A u \in Actors : request'[u].at = "patch" => request'[u].body \subseteq request'[u].entered
  <2>1. request' = [request EXCEPT ![t] = new]
    BY <1>1, <1>6
  <2>2. request'[t] = new
    BY <2>1 DEF RouterPageInv
  <2> QED BY <1>7, <2>1, <2>2, RequestMoves
<1>9. RouterPageInv'
  BY <1>1, <1>4, <1>5, <1>8 DEF RouterPageInv, Untouched
<1>10. ASSUME NEW f \in Rp!Fields, r[f] # s[f] PROVE f \in request[t].entered
  BY <1>1, <1>3, <1>10 DEF RouterPageInv
<1>11. Rp!SaveIsDiff
  <2> SUFFICES ASSUME NEW f \in Rp!Fields, Rp!Changes(f)
               PROVE  \E u \in Actors : /\ request[u].at = "patch" /\ request'[u].at = "refresh"
                                        /\ f \in request[u].entered
    BY DEF Rp!SaveIsDiff
  <2>1. r[f] # s[f]
    BY <1>2, <1>4 DEF Rp!Changes
  <2>2. f \in request[t].entered
    BY <1>10, <2>1
  <2>3. request[t].at = "patch"
    BY <1>1
  <2>4. request'[t].at = "refresh"
    BY <1>7, <1>8
  <2> WITNESS t \in Actors
  <2> QED BY <2>2, <2>3, <2>4
<1> QED BY <1>9, <1>11

LEMMA RowStays == RouterPageInv /\ record' \in {record, {}} => Rp!SaveIsDiff
BY DEF RouterPageInv, Rp!SaveIsDiff, Rp!Changes

LEMMA PersistKeeps ==
    ASSUME RouterPageInv, NEW v \in Values, Rp!Persist(v)
    PROVE  RouterPageInv' /\ Rp!SaveIsDiff
<1>1. /\ record # {} /\ record' = {[r EXCEPT !["creds"] = v] : r \in record}
      /\ UNCHANGED <<shownList, fields, askedHost, request, entered>>
  BY DEF Rp!Persist
<1>2. PICK r \in Rp!Row : record = {r}
  BY <1>1 DEF RouterPageInv
<1>3. PICK s : s = [r EXCEPT !["creds"] = v]
  OBVIOUS
<1>4. s \in Rp!Row /\ \A f \in Rp!Fields : r[f] # s[f] => f = "creds"
  BY <1>2, <1>3 DEF Rp!Row
<1>5. record' = {s}
  BY <1>1, <1>2, <1>3
<1>6. RouterPageInv'
  <2>1. \E q \in Rp!Row : record' = {q}
    BY <1>4, <1>5
  <2>2. \A t \in Actors : Untouched(t)'
    BY <1>1 DEF RouterPageInv, Untouched
  <2> QED BY <1>1, <2>1, <2>2 DEF RouterPageInv
<1>7. \A f \in Rp!Fields : Rp!Changes(f) => f = "creds"
  BY <1>2, <1>4, <1>5 DEF Rp!Changes
<1>8. Rp!SaveIsDiff
  BY <1>7 DEF Rp!SaveIsDiff
<1> QED BY <1>6, <1>8

LEMMA RouterPageRests ==
    ASSUME RouterPageInv, UNCHANGED <<record, shownList, fields, askedHost, request, entered>>
    PROVE  RouterPageInv'
BY DEF RouterPageInv, Untouched

LEMMA RouterPageNext == RouterPageInv /\ Rp!Next => RouterPageInv' /\ Rp!SaveIsDiff
<1> SUFFICES ASSUME RouterPageInv, Rp!Next PROVE RouterPageInv' /\ Rp!SaveIsDiff
  OBVIOUS
<1>1. ASSUME NEW t \in Actors, Rp!Tab(t) PROVE RouterPageInv' /\ Rp!SaveIsDiff
  <2>1. CASE Rp!Patch(t)
    BY <2>1, PatchKeeps
  <2>2. CASE Rp!DeleteRouter(t)
    <3>1. /\ record' = {} /\ shownList' = [shownList EXCEPT ![t] = {}]
          /\ UNCHANGED <<fields, askedHost, request, entered>>
      BY <2>2 DEF Rp!DeleteRouter
    <3>2. RouterPageInv'
      BY <3>1 DEF RouterPageInv, Untouched
    <3> QED BY <3>1, <3>2, RowStays
  <2>3. CASE ~Rp!Patch(t) /\ ~Rp!DeleteRouter(t)
    <3>1. RouterPageInv' /\ record' = record
      BY <1>1, <2>3, TabKeeps DEF Rp!Tab
    <3> QED BY <3>1, RowStays
  <2> QED BY <2>1, <2>2, <2>3
<1>2. ASSUME NEW v \in Values, Rp!Persist(v) PROVE RouterPageInv' /\ Rp!SaveIsDiff
  BY <1>2, PersistKeeps
<1> QED BY <1>1, <1>2 DEF Rp!Next

\* A save of the router's page changes a field only when it was entered in the tab
\* that saves, whatever the other tabs save and whenever lists arrive; what else
\* changes a row is the transport, which persists the credentials (routers/[id]).
THEOREM SavesAreDiffs == AllSpec => NoClobber
<1> DEFINE Inv == part = "routerPage" => RouterPageInv
<1>1. AllInit => Inv
  BY RouterPageInit DEF AllInit
<1>2. Inv /\ [AllNext]_vars => Inv' /\ [part = "routerPage" => Rp!SaveIsDiff]_vars
  <2> SUFFICES ASSUME Inv, [AllNext]_vars
               PROVE  Inv' /\ [part = "routerPage" => Rp!SaveIsDiff]_vars
    OBVIOUS
  <2>1. CASE part = "routerPage" /\ Rp!Next
    BY <2>1, RouterPageNext
  <2>2. CASE UNCHANGED vars
    BY <2>2, RouterPageRests DEF vars, xvars
  <2>3. CASE AllNext /\ part # "routerPage"
    <3>1. part' = part
      BY <2>3 DEF AllNext, Rest
    <3> QED BY <2>3, <3>1
  <2>4. AllNext /\ part = "routerPage" => Rp!Next
    BY DEF AllNext
  <2> QED BY <2>1, <2>2, <2>3, <2>4
<1> QED BY <1>1, <1>2, PTL DEF AllSpec, NoClobber


-----------------------------------------------------------------------------
(* The dialog that adds a router.                                          *)
entry == x1
fetches == x2
posted == x3
routers == x4
script == x5
device == x6
lastRun == x7
moved == x8
drifted == x9
USE DEF entry, fetches, posted, routers, script, device, lastRun, moved, drifted

DialogShape ==
  /\ entry \in Rd!Form /\ posted \subseteq Rd!Row /\ routers \subseteq Rd!Row
  /\ script \subseteq Rd!Settings /\ lastRun \subseteq Rd!Settings
  /\ device \in Rd!Device /\ fetches \subseteq Actors
  /\ moved \in BOOLEAN /\ drifted \in BOOLEAN

\* A fingerprint in the form or in a row is that of the host beside it.
Pinned ==
  /\ drifted \/ entry.pin \in {Rd!None, entry.host}
  /\ \A r \in posted \union routers : r.drifted \/ r.pin \in {Rd!None, r.host}

\* What the last import set up is still there: the group wg-easy too, at which
\* the import of another account stops before it takes the user wg-easy away.
SetUp ==
  \A s \in lastRun :
    /\ Rd!Default \in device.groups
    /\ Rd!service(s.mode) \in device.on /\ device.port[Rd!service(s.mode)] = s.port
    /\ device.account[s.user] = s.password
    /\ moved \/ \E c \in Rd!Rules : device.accepts[c] = s.port

DialogInv == DialogShape /\ Pinned /\ SetUp

LEMMA DialogKeeps == DialogInv => Rd!Reachable /\ Rd!PinOfHost
<1> SUFFICES ASSUME DialogInv PROVE Rd!Reachable /\ Rd!PinOfHost
  OBVIOUS
<1>1. Rd!PinOfHost
  BY DEF DialogInv, Pinned, Rd!PinOfHost
<1>2. Rd!Reachable
  BY DEF DialogInv, SetUp, Rd!Reachable, Rd!Reaches
<1> QED BY <1>1, <1>2

LEMMA DialogFacts ==
  /\ \A m \in Rd!Modes : /\ Rd!way(m) \in Rd!Ways /\ Rd!portOf(m) \in Rd!Ports
                         /\ Rd!service(m) \in Rd!Services /\ Rd!service(m) \in Rd!Rules
  /\ Rd!Default \in Rd!Names
  /\ \A s \in Rd!Services : \E m \in Rd!Modes : Rd!service(m) = s /\ Rd!portOf(m) \in Rd!Ports
  /\ 22 \in Rd!Ports /\ 8729 \in Rd!Ports
<1>1. Rd!Modes = {"api-tls", "api-plain", "ssh"}
  BY DEF Rd!Modes
<1>2. \A m \in Rd!Modes : /\ Rd!way(m) \in Rd!Ways /\ Rd!portOf(m) \in Rd!Ports
                         /\ Rd!service(m) \in Rd!Services /\ Rd!service(m) \in Rd!Rules
  BY DEF Rd!way, Rd!Ways, Rd!Ports, Rd!service, Rd!Services, Rd!Rules
<1>3. Rd!Default \in Rd!Names
  BY DEF Rd!Names
<1>4. Rd!service("api-tls") = "api-ssl" /\ Rd!service("api-plain") = "api" /\ Rd!service("ssh") = "ssh"
  BY DEF Rd!service
<1>5. \A s \in Rd!Services : \E m \in Rd!Modes : Rd!service(m) = s /\ Rd!portOf(m) \in Rd!Ports
  BY <1>1, <1>2, <1>4 DEF Rd!Services
<1>6. Rd!portOf("ssh") = 22 /\ Rd!portOf("api-tls") = 8729
  BY DEF Rd!portOf
<1> QED BY <1>1, <1>2, <1>3, <1>5, <1>6

LEMMA EmptyForm ==
    ASSUME NEW p \in Passwords
    PROVE  Rd!emptyRouter(p) \in Rd!Form /\ Rd!emptyRouter(p).pin = Rd!None
BY DialogFacts DEF Rd!emptyRouter, Rd!Form, Rd!Modes, Rd!Ways

LEMMA FormSettings ==
    ASSUME NEW f \in Rd!Form
    PROVE  Rd!settings(f) \in Rd!Settings
<1>1. f.mode \in Rd!Modes /\ f.port \in [Rd!Ways -> Rd!Ports] /\ f.user \in [Rd!Ways -> Rd!Names]
      /\ f.password \in Passwords
  BY DEF Rd!Form
<1>2. Rd!way(f.mode) \in Rd!Ways
  BY <1>1, DialogFacts
<1> QED BY <1>1, <1>2 DEF Rd!settings, Rd!Settings

LEMMA DialogInit == Rd!Init => DialogInv
<1> SUFFICES ASSUME Rd!Init PROVE DialogInv
  OBVIOUS
<1>1. PICK p \in Passwords : entry = Rd!emptyRouter(p)
  BY DEF Rd!Init
<1>2. entry \in Rd!Form /\ entry.pin = Rd!None
  BY <1>1, EmptyForm
<1>3. PICK S \in SUBSET Users : device = Rd!Factory(S)
  BY DEF Rd!Init
<1>4. device \in Rd!Device
  <2>1. [n \in Rd!Names |-> IF n \in S THEN CHOOSE q \in Passwords : TRUE ELSE Rd!None]
          \in [Rd!Names -> Passwords \union {Rd!None}]
    BY <1>1
  <2>2. ASSUME NEW s \in Rd!Services
        PROVE  (CHOOSE q \in Rd!Ports : \E m \in Rd!Modes : Rd!service(m) = s /\ Rd!portOf(m) = q) \in Rd!Ports
    <3>1. \E q \in Rd!Ports : \E m \in Rd!Modes : Rd!service(m) = s /\ Rd!portOf(m) = q
      BY DialogFacts
    <3> QED BY <3>1
  <2>3. [s \in Rd!Services |->
           CHOOSE q \in Rd!Ports : \E m \in Rd!Modes : Rd!service(m) = s /\ Rd!portOf(m) = q]
          \in [Rd!Services -> Rd!Ports]
    BY <2>2
  <2>4. {"api", "ssh"} \in SUBSET Rd!Services
    BY DEF Rd!Services
  <2>5. [c \in Rd!Rules |-> Rd!None] \in [Rd!Rules -> Rd!Ports \union {Rd!None}]
    OBVIOUS
  <2> QED BY <1>3, <2>1, <2>3, <2>4, <2>5 DEF Rd!Factory, Rd!Device
<1>5. DialogShape
  BY <1>2, <1>4 DEF Rd!Init, DialogShape
<1>6. Pinned /\ SetUp
  BY <1>2 DEF Rd!Init, Pinned, SetUp
<1> QED BY <1>5, <1>6 DEF DialogInv

\* What is set up depends on the router and on the last import alone.
LEMMA SetUpStays ==
    ASSUME SetUp, UNCHANGED <<device, lastRun, moved>>
    PROVE  SetUp'
BY DEF SetUp

\* A new form, with nothing else changed that the rows or the router show.
LEMMA FormKeeps ==
    ASSUME DialogInv, UNCHANGED <<posted, routers, script, device, lastRun, moved>>,
           entry' \in Rd!Form, fetches' \subseteq Actors, drifted' \in BOOLEAN,
           drifted' \/ entry'.pin \in {Rd!None, entry'.host}
    PROVE  DialogInv'
<1>1. DialogShape'
  BY DEF DialogInv, DialogShape
<1>2. Pinned'
  BY DEF DialogInv, Pinned
<1> QED BY <1>1, <1>2, SetUpStays DEF DialogInv

LEMMA SetModeKeeps ==
    ASSUME DialogInv, NEW m \in Rd!Modes, Rd!SetMode(m) PROVE DialogInv'
<1>1. entry' = [entry EXCEPT !.mode = m, !.port[Rd!way(m)] = Rd!portOf(m)]
      /\ UNCHANGED <<fetches, posted, routers, script, device, lastRun, moved, drifted>>
  BY DEF Rd!SetMode, Rd!Edit
<1>2. Rd!way(m) \in Rd!Ways /\ Rd!portOf(m) \in Rd!Ports
  BY DialogFacts
<1>3. entry \in Rd!Form
  BY DEF DialogInv, DialogShape
<1>4. entry' \in Rd!Form /\ entry'.pin = entry.pin /\ entry'.host = entry.host
  BY <1>1, <1>2, <1>3 DEF Rd!Form
<1> QED BY <1>1, <1>4, FormKeeps DEF DialogInv, DialogShape, Pinned

LEMMA EditAccountKeeps == DialogInv /\ Rd!EditAccount => DialogInv'
<1> SUFFICES ASSUME DialogInv, Rd!EditAccount PROVE DialogInv'
  OBVIOUS
<1>1. UNCHANGED <<fetches, posted, routers, script, device, lastRun, moved, drifted>>
  BY DEF Rd!EditAccount, Rd!Edit
<1>2. entry \in Rd!Form /\ Rd!way(entry.mode) \in Rd!Ways
  BY DialogFacts DEF DialogInv, DialogShape, Rd!Form
<1>3. \/ \E q \in Rd!Ports : entry' = [entry EXCEPT !.port[Rd!way(entry.mode)] = q]
      \/ \E n \in Rd!Names : entry' = [entry EXCEPT !.user[Rd!way(entry.mode)] = n]
      \/ \E p \in Passwords : entry' = [entry EXCEPT !.password = p]
  BY DEF Rd!EditAccount, Rd!Edit
<1>4. entry' \in Rd!Form /\ entry'.pin = entry.pin /\ entry'.host = entry.host
  BY <1>2, <1>3 DEF Rd!Form
<1> QED BY <1>1, <1>4, FormKeeps DEF DialogInv, DialogShape, Pinned

LEMMA EditHostKeeps ==
    ASSUME DialogInv, NEW h \in Actors, Rd!EditHost(h) PROVE DialogInv'
<1>1. entry' = [entry EXCEPT !.host = h] /\ drifted' = (entry.pin # Rd!None)
      /\ UNCHANGED <<fetches, posted, routers, script, device, lastRun, moved>>
  BY DEF Rd!EditHost, Rd!Edit
<1>2. entry' \in Rd!Form /\ entry'.pin = entry.pin
  BY <1>1 DEF DialogInv, DialogShape, Rd!Form
<1>3. drifted' \in BOOLEAN /\ (drifted' \/ entry'.pin = Rd!None)
  BY <1>1, <1>2
<1> QED BY <1>1, <1>2, <1>3, FormKeeps DEF DialogInv, DialogShape

LEMMA FingerprintKeeps ==
    ASSUME DialogInv, NEW h \in Actors, Rd!FingerprintArrives(h) PROVE DialogInv'
<1>1. entry' = [entry EXCEPT !.pin = h] /\ drifted' = (h # entry.host)
      /\ fetches' = fetches \ {h}
      /\ UNCHANGED <<posted, routers, script, device, lastRun, moved>>
  BY DEF Rd!FingerprintArrives
<1>2. entry' \in Rd!Form /\ entry'.pin = h /\ entry'.host = entry.host
  BY <1>1 DEF DialogInv, DialogShape, Rd!Form
<1>3. drifted' \in BOOLEAN /\ (drifted' \/ entry'.pin = entry'.host)
  BY <1>1, <1>2
<1> QED BY <1>1, <1>2, <1>3, FormKeeps DEF DialogInv, DialogShape

\* The fingerprint is asked for, or does not come; the script is written; the
\* request fails.
LEMMA OthersKeep ==
    ASSUME DialogInv,
           \/ Rd!FetchFingerprint \/ Rd!DownloadRsc \/ Rd!Refused
           \/ \E h \in Actors : Rd!FetchFails(h)
    PROVE  DialogInv'
<1>1. CASE Rd!FetchFingerprint
  <2>1. entry.host \in Actors /\ fetches' = fetches \union {entry.host}
    BY <1>1 DEF Rd!FetchFingerprint, Rd!AskedHost, DialogInv, DialogShape, Rd!Form
  <2>2. UNCHANGED <<entry, posted, routers, script, device, lastRun, moved, drifted>>
    BY <1>1 DEF Rd!FetchFingerprint
  <2> QED BY <2>1, <2>2, FormKeeps DEF DialogInv, DialogShape, Pinned
<1>2. ASSUME NEW h \in Actors, Rd!FetchFails(h) PROVE DialogInv'
  BY <1>2, FormKeeps DEF Rd!FetchFails, DialogInv, DialogShape, Pinned
<1>3. CASE Rd!DownloadRsc
  <2>1. Rd!settings(entry) \in Rd!Settings
    BY FormSettings DEF DialogInv, DialogShape
  <2>2. script' = {Rd!settings(entry)}
        /\ UNCHANGED <<entry, fetches, posted, routers, device, lastRun, moved, drifted>>
    BY <1>3 DEF Rd!DownloadRsc
  <2>3. DialogShape' /\ Pinned'
    BY <2>1, <2>2 DEF DialogInv, DialogShape, Pinned
  <2> QED BY <2>2, <2>3, SetUpStays DEF DialogInv
<1>4. CASE Rd!Refused
  <2>1. posted' = {}
        /\ UNCHANGED <<entry, fetches, routers, script, device, lastRun, moved, drifted>>
    BY <1>4 DEF Rd!Refused
  <2>2. DialogShape' /\ Pinned'
    BY <2>1 DEF DialogInv, DialogShape, Pinned
  <2> QED BY <2>1, <2>2, SetUpStays DEF DialogInv
<1> QED BY <1>1, <1>2, <1>3, <1>4

\* The request carries what the form says of the fingerprint.
LEMMA CreateRouterKeeps == DialogInv /\ Rd!CreateRouter => DialogInv'
<1> SUFFICES ASSUME DialogInv, Rd!CreateRouter PROVE DialogInv'
  OBVIOUS
<1>1. PICK b \in BOOLEAN : b = drifted
  BY DEF DialogInv, DialogShape
<1>2. PICK r : r = [host |-> entry.host, pin |-> entry.pin,
                    set |-> Rd!settings(entry), drifted |-> b]
  OBVIOUS
<1>3. posted' = {r}
      /\ UNCHANGED <<entry, fetches, routers, script, device, lastRun, moved, drifted>>
  BY <1>1, <1>2 DEF Rd!CreateRouter
<1>4. Rd!settings(entry) \in Rd!Settings
  BY FormSettings DEF DialogInv, DialogShape
<1>5. r \in Rd!Row /\ r.pin = entry.pin /\ r.host = entry.host /\ r.drifted = b
  BY <1>1, <1>2, <1>4 DEF DialogInv, DialogShape, Rd!Form, Rd!Row
<1>6. DialogShape' /\ Pinned'
  BY <1>1, <1>3, <1>5 DEF DialogInv, DialogShape, Pinned
<1> QED BY <1>3, <1>6, SetUpStays DEF DialogInv

LEMMA CreatedKeeps ==
    ASSUME DialogInv, NEW p \in Passwords, Rd!Created(p) PROVE DialogInv'
<1>1. posted' = {} /\ routers' = posted /\ entry' = Rd!emptyRouter(p) /\ drifted' = FALSE
      /\ UNCHANGED <<fetches, script, device, lastRun, moved>>
  BY DEF Rd!Created, Rd!Emptied
<1>2. DialogShape' /\ Pinned'
  BY <1>1, EmptyForm DEF DialogInv, DialogShape, Pinned
<1> QED BY <1>1, <1>2, SetUpStays DEF DialogInv

LEMMA EditRowKeeps == DialogInv /\ Rd!EditRow => DialogInv'
<1> SUFFICES ASSUME DialogInv, Rd!EditRow PROVE DialogInv'
  OBVIOUS
<1>1. PICK r \in routers :
        \E s \in {[r.set EXCEPT !.port = q] : q \in Rd!Ports}
                 \union {[r.set EXCEPT !.mode = m] : m \in Rd!Modes \ {"ssh"}} :
          routers' = {[r EXCEPT !.set = s]}
  BY DEF Rd!EditRow
<1>2. PICK s \in {[r.set EXCEPT !.port = q] : q \in Rd!Ports}
                 \union {[r.set EXCEPT !.mode = m] : m \in Rd!Modes \ {"ssh"}} :
        routers' = {[r EXCEPT !.set = s]}
  BY <1>1
<1>3. r \in Rd!Row
  BY DEF DialogInv, DialogShape
<1>4. s \in Rd!Settings
  <2>1. r.set \in Rd!Settings
    BY <1>3 DEF Rd!Row
  <2> QED BY <1>2, <2>1 DEF Rd!Settings
<1>5. PICK new : new = [r EXCEPT !.set = s]
  OBVIOUS
<1>6. new \in Rd!Row /\ new.pin = r.pin /\ new.host = r.host /\ new.drifted = r.drifted
  BY <1>3, <1>4, <1>5 DEF Rd!Row
<1>7. routers' = {new}
      /\ UNCHANGED <<entry, fetches, posted, script, device, lastRun, moved, drifted>>
  BY <1>2, <1>5 DEF Rd!EditRow
<1>8. DialogShape'
  BY <1>6, <1>7 DEF DialogInv, DialogShape
<1>9. new.drifted \/ new.pin \in {Rd!None, new.host}
  BY <1>6 DEF DialogInv, Pinned
<1>10. Pinned'
  BY <1>7, <1>9 DEF DialogInv, Pinned
<1> QED BY <1>7, <1>8, <1>10, SetUpStays DEF DialogInv

\* An import: the form and the rows stay.
LEMMA ImportKeeps ==
    ASSUME DialogInv, UNCHANGED <<entry, fetches, posted, routers, script, drifted>>,
           device' \in Rd!Device, lastRun' \subseteq Rd!Settings, moved' \in BOOLEAN, SetUp'
    PROVE  DialogInv'
<1>1. DialogShape'
  BY DEF DialogInv, DialogShape
<1>2. Pinned'
  BY DEF DialogInv, Pinned
<1> QED BY <1>1, <1>2 DEF DialogInv

\* An import that stops at the group takes no account away, and one that stops
\* at the user found no group wg-easy, so that no script had run to its end.
LEMMA ImportStopsKeeps == DialogInv /\ Rd!ImportStops => DialogInv'
<1> SUFFICES ASSUME DialogInv, Rd!ImportStops PROVE DialogInv'
  OBVIOUS
<1>1. UNCHANGED <<entry, fetches, posted, routers, script, lastRun, moved, drifted>>
  BY DEF Rd!ImportStops
<1>2. PICK s \in script :
        \/ Rd!GroupClash(s) /\ device' = [device EXCEPT !.groups = @ \ {s.user}]
        \/ /\ ~Rd!GroupClash(s) /\ Rd!UserClash(s)
           /\ device' = [device EXCEPT !.groups = (@ \ {s.user}) \union {Rd!Default},
                                       !.account[Rd!Default] = Rd!None]
  BY DEF Rd!ImportStops
<1>3. device \in Rd!Device /\ Rd!Default \in Rd!Names
  BY DialogFacts DEF DialogInv, DialogShape
<1>4. CASE Rd!GroupClash(s) /\ device' = [device EXCEPT !.groups = @ \ {s.user}]
  <2>1. device' \in Rd!Device
    BY <1>3, <1>4 DEF Rd!Device
  <2>2. /\ device'.groups = device.groups \ {s.user} /\ device'.account = device.account
        /\ device'.on = device.on /\ device'.port = device.port
        /\ device'.accepts = device.accepts
    BY <1>3, <1>4 DEF Rd!Device
  <2>3. Rd!Default \in device'.groups
    BY <1>4, <2>2 DEF Rd!GroupClash
  <2>4. SetUp'
    BY <1>1, <2>2, <2>3 DEF DialogInv, SetUp
  <2> QED BY <1>1, <2>1, <2>4, ImportKeeps DEF DialogInv, DialogShape
<1>5. CASE /\ ~Rd!GroupClash(s) /\ Rd!UserClash(s)
           /\ device' = [device EXCEPT !.groups = (@ \ {s.user}) \union {Rd!Default},
                                       !.account[Rd!Default] = Rd!None]
  <2>1. device' \in Rd!Device
    BY <1>3, <1>5 DEF Rd!Device
  <2>2. Rd!Default \notin device.groups
    BY <1>5 DEF Rd!GroupClash, Rd!UserClash
  <2>3. lastRun' = {}
    BY <1>1, <2>2 DEF DialogInv, SetUp
  <2>4. SetUp'
    BY <2>3 DEF SetUp
  <2> QED BY <1>1, <2>1, <2>4, ImportKeeps DEF DialogInv, DialogShape
<1> QED BY <1>2, <1>4, <1>5

\* The service of the mode and the rule of a name, on a router d.
LEMMA ServiceIsOn ==
    ASSUME NEW d \in Rd!Device, NEW m \in Rd!Modes, NEW q \in Rd!Ports
    PROVE  /\ Rd!WithService(d, m, q) \in Rd!Device
           /\ Rd!WithService(d, m, q).groups = d.groups
           /\ Rd!WithService(d, m, q).account = d.account
           /\ Rd!WithService(d, m, q).accepts = d.accepts
           /\ Rd!service(m) \in Rd!WithService(d, m, q).on
           /\ Rd!WithService(d, m, q).port[Rd!service(m)] = q
<1>1. Rd!service(m) \in Rd!Services /\ (m = "api-tls" => Rd!service(m) # "api")
  BY DialogFacts DEF Rd!service
<1>2. PICK on : on = (d.on \union {Rd!service(m)}) \ (IF m = "api-tls" THEN {"api"} ELSE {})
  OBVIOUS
<1>3. on \subseteq Rd!Services /\ Rd!service(m) \in on
  <2>1. d.on \subseteq Rd!Services
    BY DEF Rd!Device
  <2>2. CASE m = "api-tls"
    BY <1>1, <1>2, <2>1, <2>2
  <2>3. CASE m # "api-tls"
    BY <1>1, <1>2, <2>1, <2>3
  <2> QED BY <2>2, <2>3
<1>4. Rd!WithService(d, m, q) = [d EXCEPT !.on = on, !.port[Rd!service(m)] = q]
  BY <1>2 DEF Rd!WithService
<1>5. PICK e : e = [d EXCEPT !.on = on, !.port[Rd!service(m)] = q]
  OBVIOUS
<1>6. e \in Rd!Device
  BY <1>1, <1>3, <1>5 DEF Rd!Device
<1>7. e.groups = d.groups /\ e.account = d.account /\ e.accepts = d.accepts /\ e.on = on
  BY <1>5 DEF Rd!Device
<1>8. e.port[Rd!service(m)] = q
  BY <1>1, <1>5 DEF Rd!Device
<1>9. Rd!WithService(d, m, q) = e
  BY <1>4, <1>5
<1> QED BY <1>3, <1>6, <1>7, <1>8, <1>9

LEMMA RuleIsThere ==
    ASSUME NEW d \in Rd!Device, NEW c \in Rd!Rules, NEW q \in Rd!Ports
    PROVE  /\ Rd!WithRule(d, c, q) \in Rd!Device
           /\ Rd!WithRule(d, c, q).groups = d.groups
           /\ Rd!WithRule(d, c, q).account = d.account
           /\ Rd!WithRule(d, c, q).on = d.on
           /\ Rd!WithRule(d, c, q).port = d.port
           /\ d.accepts[c] \in {Rd!None, q} => Rd!WithRule(d, c, q).accepts[c] = q
<1>1. PICK p : p = IF d.accepts[c] = Rd!None THEN q ELSE d.accepts[c]
  OBVIOUS
<1>2. p \in Rd!Ports \union {Rd!None} /\ (d.accepts[c] \in {Rd!None, q} => p = q)
  BY <1>1 DEF Rd!Device
<1>3. Rd!WithRule(d, c, q) = [d EXCEPT !.accepts[c] = p]
  BY <1>1 DEF Rd!WithRule
<1> QED BY <1>2, <1>3 DEF Rd!Device

LEMMA ImportRunsKeeps == DialogInv /\ Rd!ImportRuns => DialogInv'
<1> SUFFICES ASSUME DialogInv, Rd!ImportRuns PROVE DialogInv'
  OBVIOUS
<1> DEFINE Before(s) ==
      [device EXCEPT
         !.groups = (@ \ {s.user}) \union {Rd!Default},
         !.account = [n \in Rd!Names |-> IF n = s.user THEN s.password
                                         ELSE IF n = Rd!Default THEN Rd!None ELSE @[n]],
         !.on = IF s.mode = "api-plain" THEN @ \ {"api-ssl"} ELSE @]
<1>1. UNCHANGED <<entry, fetches, posted, routers, script, drifted>>
  BY Zenon DEF Rd!ImportRuns
<1>2. PICK s \in script :
        /\ device' = Rd!WithRule(Rd!WithService(Before(s), s.mode, s.port),
                                 Rd!service(s.mode), s.port)
        /\ lastRun' = {s} /\ moved' = Rd!Moves(Rd!service(s.mode), s.port)
  BY Zenon DEF Rd!ImportRuns
<1>3. /\ device \in Rd!Device /\ Rd!Default \in Rd!Names
      /\ s \in Rd!Settings /\ s.mode \in Rd!Modes /\ s.port \in Rd!Ports
      /\ s.user \in Rd!Names /\ s.password \in Passwords
      /\ Rd!service(s.mode) \in Rd!Rules
  BY DialogFacts DEF DialogInv, DialogShape, Rd!Settings
<1>4. PICK acc : acc = [n \in Rd!Names |-> IF n = s.user THEN s.password
                                         ELSE IF n = Rd!Default THEN Rd!None ELSE device.account[n]]
  OBVIOUS
<1>5. acc \in [Rd!Names -> Passwords \union {Rd!None}] /\ acc[s.user] = s.password
  BY <1>3, <1>4 DEF Rd!Device
<1>6. PICK services : services = IF s.mode = "api-plain" THEN device.on \ {"api-ssl"} ELSE device.on
  OBVIOUS
<1>7. services \subseteq Rd!Services
  BY <1>3, <1>6 DEF Rd!Device
<1>8. PICK d : d = [device EXCEPT !.groups = (device.groups \ {s.user}) \union {Rd!Default},
                                  !.account = acc, !.on = services]
  OBVIOUS
<1>9. /\ d \in Rd!Device /\ Rd!Default \in d.groups /\ d.account = acc
      /\ d.accepts = device.accepts
  BY <1>3, <1>5, <1>7, <1>8 DEF Rd!Device
<1>10. Before(s) = d
  BY <1>4, <1>6, <1>8
<1> HIDE DEF Before
<1>11. PICK e : e = Rd!WithService(d, s.mode, s.port)
  OBVIOUS
<1>12. /\ e \in Rd!Device /\ e.groups = d.groups /\ e.account = d.account
       /\ e.accepts = d.accepts /\ Rd!service(s.mode) \in e.on
       /\ e.port[Rd!service(s.mode)] = s.port
  BY <1>3, <1>9, <1>11, ServiceIsOn
<1>13. device' = Rd!WithRule(e, Rd!service(s.mode), s.port)
  BY <1>2, <1>10, <1>11
<1>14. /\ device' \in Rd!Device /\ Rd!Default \in device'.groups
       /\ device'.account[s.user] = s.password
       /\ Rd!service(s.mode) \in device'.on /\ device'.port[Rd!service(s.mode)] = s.port
       /\ device.accepts[Rd!service(s.mode)] \in {Rd!None, s.port}
            => device'.accepts[Rd!service(s.mode)] = s.port
  BY <1>3, <1>5, <1>9, <1>12, <1>13, RuleIsThere
<1>15. moved' \in BOOLEAN /\ lastRun' \subseteq Rd!Settings
  BY <1>2, <1>3 DEF Rd!Moves
<1>16. moved' \/ \E c \in Rd!Rules : device'.accepts[c] = s.port
  BY <1>2, <1>3, <1>14 DEF Rd!Moves
<1>17. SetUp'
  BY <1>2, <1>14, <1>16 DEF SetUp
<1> QED BY <1>1, <1>14, <1>15, <1>17, ImportKeeps

LEMMA ImportOfPageKeeps == DialogInv /\ Rd!ImportOfPage => DialogInv'
<1> SUFFICES ASSUME DialogInv, Rd!ImportOfPage PROVE DialogInv'
  OBVIOUS
<1>1. UNCHANGED <<entry, fetches, posted, routers, script, drifted>>
  BY ZenonT(60) DEF Rd!ImportOfPage
<1>2. PICK r \in routers :
        /\ device' = Rd!WithRule(Rd!WithService([device EXCEPT !.groups = @ \union {Rd!Default}],
                                                r.set.mode, r.set.port), "mgmt", r.set.port)
        /\ lastRun' = {[s EXCEPT !.mode = r.set.mode, !.port = r.set.port] : s \in lastRun}
        /\ moved' = Rd!Moves("mgmt", r.set.port)
  BY DEF Rd!ImportOfPage
<1>3. PICK m, q : m = r.set.mode /\ q = r.set.port
  OBVIOUS
<1>4. /\ device \in Rd!Device /\ Rd!Default \in Rd!Names
      /\ m \in Rd!Modes /\ q \in Rd!Ports /\ "mgmt" \in Rd!Rules
  BY <1>3, DialogFacts DEF DialogInv, DialogShape, Rd!Row, Rd!Settings, Rd!Rules
<1>5. PICK d : d = [device EXCEPT !.groups = @ \union {Rd!Default}]
  OBVIOUS
<1>6. /\ d \in Rd!Device /\ Rd!Default \in d.groups /\ d.account = device.account
      /\ d.accepts = device.accepts
  BY <1>4, <1>5 DEF Rd!Device
<1>7. PICK e : e = Rd!WithService(d, m, q)
  OBVIOUS
<1>8. /\ e \in Rd!Device /\ e.groups = d.groups /\ e.account = d.account
      /\ e.accepts = d.accepts /\ Rd!service(m) \in e.on /\ e.port[Rd!service(m)] = q
  BY <1>4, <1>6, <1>7, ServiceIsOn
<1>9. device' = Rd!WithRule(e, "mgmt", q)
  BY <1>2, <1>3, <1>5, <1>7
<1>10. /\ device' \in Rd!Device /\ Rd!Default \in device'.groups
       /\ device'.account = device.account
       /\ Rd!service(m) \in device'.on /\ device'.port[Rd!service(m)] = q
       /\ device.accepts["mgmt"] \in {Rd!None, q} => device'.accepts["mgmt"] = q
  <2>1. e \in Rd!Device /\ "mgmt" \in Rd!Rules /\ q \in Rd!Ports
    BY <1>4, <1>8
  <2>2. /\ device' \in Rd!Device /\ device'.groups = e.groups
        /\ device'.account = e.account /\ device'.on = e.on /\ device'.port = e.port
        /\ e.accepts["mgmt"] \in {Rd!None, q} => device'.accepts["mgmt"] = q
    BY <2>1, <1>9, RuleIsThere, ZenonT(60)
  <2> QED BY <2>2, <1>6, <1>8, Zenon
<1>11. moved' \in BOOLEAN /\ (moved' \/ \E c \in Rd!Rules : device'.accepts[c] = q)
  BY Zenon, <1>2, <1>3, <1>4, <1>10 DEF Rd!Moves
<1>12. ASSUME NEW s \in lastRun'
       PROVE  /\ s \in Rd!Settings /\ s.mode = m /\ s.port = q
              /\ device.account[s.user] = s.password
  <2>1. PICK old \in lastRun : s = [old EXCEPT !.mode = m, !.port = q]
    BY <1>2, <1>3
  <2>2. old \in Rd!Settings /\ device.account[old.user] = old.password
    BY DEF DialogInv, DialogShape, SetUp
  <2> QED BY <1>4, <2>1, <2>2 DEF Rd!Settings
<1>13. SetUp'
  BY <1>10, <1>11, <1>12 DEF SetUp
<1>14. lastRun' \subseteq Rd!Settings
  BY <1>12
<1> QED BY <1>1, <1>10, <1>11, <1>13, <1>14, ImportKeeps

LEMMA DialogRests ==
    ASSUME DialogInv,
           UNCHANGED <<entry, fetches, posted, routers, script, device, lastRun, moved, drifted>>
    PROVE  DialogInv'
BY DEF DialogInv, DialogShape, Pinned, SetUp

LEMMA DialogNext == DialogInv /\ Rd!Next => DialogInv'
<1> SUFFICES ASSUME DialogInv, Rd!Next PROVE DialogInv'
  OBVIOUS
<1>1. ASSUME NEW m \in Rd!Modes, Rd!SetMode(m) PROVE DialogInv'
  BY <1>1, SetModeKeeps
<1>2. ASSUME NEW h \in Actors, Rd!EditHost(h) \/ Rd!FingerprintArrives(h) PROVE DialogInv'
  BY <1>2, EditHostKeeps, FingerprintKeeps
<1>3. ASSUME NEW p \in Passwords, Rd!Created(p) PROVE DialogInv'
  BY <1>3, CreatedKeeps
<1>4. CASE Rd!EditAccount \/ Rd!CreateRouter \/ Rd!EditRow
  BY <1>4, EditAccountKeeps, CreateRouterKeeps, EditRowKeeps
<1>5. CASE Rd!ImportStops \/ Rd!ImportRuns \/ Rd!ImportOfPage
  BY <1>5, ImportStopsKeeps, ImportRunsKeeps, ImportOfPageKeeps
<1>6. CASE \/ Rd!FetchFingerprint \/ Rd!DownloadRsc \/ Rd!Refused
           \/ \E h \in Actors : Rd!FetchFails(h)
  BY <1>6, OthersKeep
<1> QED BY <1>1, <1>2, <1>3, <1>4, <1>5, <1>6 DEF Rd!Next

\* A router on which the script of the dialog ran to its end, with the settings of
\* its row, can be logged in to as the row says, whatever other scripts were
\* imported and stopped; and a row pins the fingerprint of its own host, unless
\* the host was edited under it (downloadRsc, fetchFingerprint, createRouter).
THEOREM RouterIsReached == AllSpec => []DialogSound
<1> DEFINE Inv == part = "dialog" => DialogInv
<1>1. AllInit => Inv
  BY DialogInit DEF AllInit
<1>2. Inv /\ [AllNext]_vars => Inv'
  <2> SUFFICES ASSUME Inv, [AllNext]_vars, part' = "dialog" PROVE DialogInv'
    OBVIOUS
  <2>1. CASE part = "dialog" /\ Rd!Next
    BY <2>1, DialogNext
  <2>2. CASE UNCHANGED vars
    BY <2>2, DialogRests DEF vars, xvars
  <2>3. part = "dialog" => Rd!Next \/ UNCHANGED vars
    BY DEF AllNext
  <2>4. part = "dialog"
    BY DEF AllNext, Rest, vars
  <2> QED BY <2>1, <2>2, <2>3, <2>4
<1>3. Inv => DialogSound
  BY DialogKeeps DEF DialogSound
<1> QED BY <1>1, <1>2, <1>3, PTL DEF AllSpec


\* Every set of numbers has a least one.
LEMMA Least ==
    ASSUME NEW S \in SUBSET Nat, S # {}
    PROVE  \E x \in S : \A y \in S : x <= y
<1>1. \E x \in S : \A y \in S : ~(<<y, x>> \in OpToRel(<, Nat))
  BY NatLessThanWellFounded, WFMin
<1>2. OpToRel(<, Nat) = {p \in Nat \X Nat : p[1] < p[2]}
  BY Zenon DEF OpToRel
<1>3. PICK R : R = OpToRel(<, Nat)
  BY Zenon
<1>4. R = {p \in Nat \X Nat : p[1] < p[2]}
  BY <1>2, <1>3, Zenon
<1>5. \E x \in S : \A y \in S : ~(<<y, x>> \in R)
  BY <1>1, <1>3, Zenon
<1>6. PICK x \in S : \A y \in S : ~(<<y, x>> \in R)
  BY <1>5
<1>7. ASSUME NEW y \in S PROVE x <= y
  <2>1. y < x => <<y, x>> \in R
    BY <1>4
  <2>2. ~(y < x)
    BY <1>6, <2>1
  <2> QED BY <2>2
<1> QED BY <1>6, <1>7

-----------------------------------------------------------------------------
(* Traffic groups.                                                         *)
groups == x1
default == x2
colour == x3
given == x4
plan == x5
members == x6
ask == x7
crossed == x8
repeated == x9
odd == x10
USE DEF groups, default, colour, given, plan, members, ask, crossed, repeated, odd

GroupsShape ==
  /\ groups \subseteq Groups /\ default \subseteq groups /\ given \in Groups
  /\ members \subseteq Actors
  /\ \A g \in groups : g <= given
  /\ colour \in [Groups -> Palette \union {0}]
  /\ plan \in [Actors -> Groups \union {0}]
  /\ ask \in [Actors -> Tg!Ask]
  /\ crossed \in BOOLEAN

DeletingNow(a) == ask[a].at \in {"reassign", "remove"}

\* While no default is chosen during a deletion there is one default group, which
\* no deletion is about, and every deletion moves its clients there.
OneWay ==
  ~crossed =>
    /\ \E g \in groups : default = {g}
    /\ \A a, b \in Actors : ask[a].at = "default" => ask[a].g \in groups /\ ~DeletingNow(b)
    /\ \A a \in Actors : DeletingNow(a) => ask[a].g \notin default /\ ask[a].g # 0
    /\ \A a \in Actors : ask[a].at = "reassign" => ask[a].d \in default

\* A client has a plan unless it is odd; a new one brings a plan, and a deletion
\* knows who joined its group since the others were moved.
Planned ==
  ~crossed =>
    /\ \A m \in members : plan[m] = 0 => m \in odd
    /\ \A a \in Actors : ask[a].at = "join" => ask[a].g # 0
    /\ \A a \in Actors, m \in members :
         ask[a].at = "remove" /\ plan[m] = ask[a].g => m \in ask[a].m

\* A colour that is about to be used, and is used already, is known to be given twice.
Coloured ==
  /\ Tg!OwnColours
  /\ \A a \in Actors : ask[a].at = "insertGroup" => ask[a].c \in Palette
  /\ \A a \in Actors, g \in groups :
       ask[a].at = "insertGroup" /\ colour[g] = ask[a].c => ask[a].c \in repeated

GroupsInv == GroupsShape /\ OneWay /\ Planned /\ Coloured

LEMMA GroupsFacts ==
  /\ Groups \subseteq Nat \ {0} /\ 1 \in Groups /\ Tg!None = 0
  /\ Palette \subseteq Nat \ {0} /\ Palette # {}
BY MachinesAssumption DEF Tg!GroupsAssumption, Tg!None

LEMMA FirstOf ==
    ASSUME NEW S \in SUBSET Nat, S # {}
    PROVE  Tg!First(S) \in S
<1>1. \E x \in S : \A y \in S : x <= y
  BY Least
<1> QED BY <1>1 DEF Tg!First

LEMMA IdleAsk ==
  Tg!Idle \in Tg!Ask /\ Tg!Idle.at = "idle" /\ Tg!Idle.m = {}
BY GroupsFacts DEF Tg!Idle, Tg!Ask

LEMMA GroupsInit == Tg!Init => GroupsInv
<1> SUFFICES ASSUME Tg!Init PROVE GroupsInv
  OBVIOUS
<1>1. ask \in [Actors -> Tg!Ask] /\ \A a \in Actors : ask[a].at = "idle"
  BY IdleAsk DEF Tg!Init
<1>2. Tg!First(Palette) \in Palette
  BY GroupsFacts, FirstOf
<1>3. colour \in [Groups -> Palette \union {0}]
  BY <1>2, GroupsFacts DEF Tg!Init
<1>4. plan \in [Actors -> Groups \union {0}]
  BY GroupsFacts DEF Tg!Init
<1>5. GroupsShape
  <2>1. groups = {1} /\ default = {1} /\ given = 1 /\ crossed = FALSE /\ members \subseteq Actors
    BY DEF Tg!Init
  <2>2. {1} \subseteq Groups /\ 1 \in Groups /\ \A g \in {1} : g <= 1
    BY GroupsFacts
  <2> QED BY <1>1, <1>3, <1>4, <2>1, <2>2 DEF GroupsShape
<1>6. OneWay
  BY <1>1, GroupsFacts DEF Tg!Init, OneWay, DeletingNow
<1>7. Planned
  BY <1>1 DEF Tg!Init, Planned
<1>8. Coloured
  BY <1>1 DEF Tg!Init, Coloured, Tg!OwnColours
<1> QED BY <1>5, <1>6, <1>7, <1>8 DEF GroupsInv

LEMMA GroupsKeep == GroupsInv => Tg!OneDefault /\ Tg!OnPlan /\ Tg!OwnColours
<1> SUFFICES ASSUME GroupsInv PROVE Tg!OneDefault /\ Tg!OnPlan /\ Tg!OwnColours
  OBVIOUS
<1>1. Tg!OneDefault
  <2>1. ASSUME NEW g \in groups, default = {g} PROVE Tg!Cardinality(default) = 1
    <3>1. Cardinality({g}) = 1
      BY FS_Singleton
    <3> QED BY <2>1, <3>1 DEF Tg!Cardinality, Cardinality
  <2> QED BY <2>1 DEF GroupsInv, OneWay, Tg!OneDefault
<1>2. Tg!OnPlan
  BY GroupsFacts DEF GroupsInv, Planned, Tg!OnPlan
<1> QED BY <1>1, <1>2 DEF GroupsInv, Coloured

LEMMA AskThen ==
    ASSUME GroupsShape, NEW a \in Actors, NEW new \in Tg!Ask, Tg!Then(a, new)
    PROVE  /\ ask' \in [Actors -> Tg!Ask] /\ ask'[a] = new
           /\ \A b \in Actors \ {a} : ask'[b] = ask[b]
BY DEF GroupsShape, Tg!Then

\* A request that is over.
LEMMA AskOver ==
    ASSUME GroupsShape, NEW a \in Actors, Tg!Then(a, Tg!Idle)
    PROVE  /\ ask' \in [Actors -> Tg!Ask] /\ ask'[a].at = "idle"
           /\ \A b \in Actors \ {a} : ask'[b] = ask[b]
BY AskThen, IdleAsk

\* Requests that are no deletion, no choice of a default and no new client: what
\* the others rely on is left alone.
LEMMA ElseOneWay ==
    ASSUME GroupsInv, NEW a \in Actors, UNCHANGED <<groups, default>>, crossed' = crossed,
           \A b \in Actors \ {a} : ask'[b] = ask[b],
           ask'[a].at \in {"idle", "insertGroup", "join"}
    PROVE  OneWay'
<1> SUFFICES ASSUME ~crossed PROVE OneWay'
  BY DEF OneWay
<1>1. OneWay
  BY DEF GroupsInv
<1>2. \A b \in Actors : ask'[b].at \in {"default", "reassign", "remove"} => ask'[b] = ask[b]
  OBVIOUS
<1>3. \E g \in groups' : default' = {g}
  BY <1>1 DEF OneWay
<1>4. \A b, d \in Actors : ask'[b].at = "default" => ask'[b].g \in groups /\ ~DeletingNow(d)'
  BY <1>1, <1>2 DEF OneWay, DeletingNow
<1>5. \A b \in Actors : DeletingNow(b)' => ask'[b].g \notin default /\ ask'[b].g # 0
  BY <1>1, <1>2 DEF OneWay, DeletingNow
<1>6. \A b \in Actors : ask'[b].at = "reassign" => ask'[b].d \in default
  BY <1>1, <1>2 DEF OneWay
<1> QED BY <1>3, <1>4, <1>5, <1>6 DEF OneWay

\* The same of plans and colours.
LEMMA ElsePlanned ==
    ASSUME GroupsInv, NEW a \in Actors, UNCHANGED <<plan, members, odd>>,
           ~crossed' => ~crossed,
           \A b \in Actors \ {a} : ask'[b] = ask[b],
           ~crossed' /\ ask'[a].at = "join" => ask'[a].g # 0,
           ask'[a].at # "remove"
    PROVE  Planned'
BY DEF GroupsInv, Planned

LEMMA ElseColoured ==
    ASSUME GroupsInv, NEW a \in Actors, groups' \subseteq groups, UNCHANGED <<colour, repeated>>,
           \A b \in Actors \ {a} : ask'[b] = ask[b],
           ask'[a].at # "insertGroup"
    PROVE  Coloured'
<1>1. Tg!OwnColours'
  BY DEF GroupsInv, Coloured, Tg!OwnColours
<1>2. \A b \in Actors : ask'[b].at = "insertGroup" => ask'[b] = ask[b]
  OBVIOUS
<1> QED BY <1>1, <1>2 DEF GroupsInv, Coloured

LEMMA CreateKeeps ==
    ASSUME GroupsInv, NEW a \in Actors, Tg!CreateGroup(a) PROVE GroupsInv'
<1>1. /\ Tg!Then(a, [Tg!Idle EXCEPT !.at = "insertGroup", !.c = Tg!getNextColor])
      /\ repeated' = IF Palette \subseteq Tg!Used THEN repeated \union {Tg!getNextColor}
                     ELSE repeated
      /\ UNCHANGED <<groups, default, colour, given, plan, members, crossed, odd>>
  BY DEF Tg!CreateGroup
<1>2. GroupsShape
  BY DEF GroupsInv
<1>3. /\ Tg!getNextColor \in Palette
      /\ ~(Palette \subseteq Tg!Used) => Tg!getNextColor \notin Tg!Used
  <2>1. Palette \in SUBSET Nat /\ Palette \ Tg!Used \in SUBSET Nat /\ Palette # {}
    BY GroupsFacts
  <2>2. Tg!First(Palette) \in Palette
    BY <2>1, FirstOf
  <2>3. Palette \ Tg!Used # {} => Tg!First(Palette \ Tg!Used) \in Palette \ Tg!Used
    BY <2>1, FirstOf
  <2>4. Palette \subseteq Tg!Used <=> Palette \ Tg!Used = {}
    OBVIOUS
  <2> QED BY <2>2, <2>3, <2>4 DEF Tg!getNextColor
<1>4. PICK k \in Palette : k = Tg!getNextColor
  BY <1>3
<1>5. PICK new : new = [Tg!Idle EXCEPT !.at = "insertGroup", !.c = k]
  OBVIOUS
<1>6. new \in Tg!Ask /\ new.at = "insertGroup" /\ new.c = k
  BY <1>5, GroupsFacts DEF Tg!Idle, Tg!Ask
<1>7. /\ ask' \in [Actors -> Tg!Ask] /\ ask'[a] = new
      /\ \A b \in Actors \ {a} : ask'[b] = ask[b]
  BY <1>1, <1>2, <1>4, <1>5, <1>6, AskThen
<1>8. GroupsShape'
  BY <1>1, <1>2, <1>7 DEF GroupsShape
<1>9. OneWay' /\ Planned'
  <2>1. OneWay'
    BY <1>1, <1>6, <1>7, ElseOneWay
  <2>2. Planned'
    BY <1>1, <1>6, <1>7, ElsePlanned
  <2> QED BY <2>1, <2>2
<1>10. Coloured'
  <2>1. repeated \subseteq repeated' /\ (Palette \subseteq Tg!Used => k \in repeated')
    BY <1>1, <1>4
  <2>2. Tg!OwnColours'
    BY <1>1, <2>1 DEF GroupsInv, Coloured, Tg!OwnColours
  <2>3. ASSUME NEW g \in groups, colour[g] = k PROVE k \in repeated'
    <3>1. k \in Tg!Used
      BY <2>3 DEF Tg!Used
    <3> QED BY <1>3, <1>4, <2>1, <3>1
  <2>4. \A b \in Actors : ask'[b].at = "insertGroup" => ask'[b].c \in Palette
    BY <1>6, <1>7 DEF GroupsInv, Coloured
  <2>5. \A b \in Actors, g \in groups :
          ask'[b].at = "insertGroup" /\ colour[g] = ask'[b].c => ask'[b].c \in repeated'
    BY <1>6, <1>7, <2>1, <2>3 DEF GroupsInv, Coloured
  <2> QED BY <1>1, <2>2, <2>4, <2>5 DEF Coloured
<1> QED BY <1>8, <1>9, <1>10 DEF GroupsInv

LEMMA InsertKeeps ==
    ASSUME GroupsInv, NEW a \in Actors, Tg!InsertGroup(a) PROVE GroupsInv'
<1>1. /\ ask[a].at = "insertGroup" /\ given + 1 \in Groups
      /\ given' = given + 1 /\ groups' = groups \union {given + 1}
      /\ colour' = [colour EXCEPT ![given + 1] = ask[a].c]
      /\ repeated' = IF \E b \in Actors \ {a} : ask[b].at = "insertGroup"
                     THEN repeated \union {ask[a].c} ELSE repeated
      /\ Tg!Then(a, Tg!Idle)
      /\ UNCHANGED <<default, plan, members, crossed, odd>>
  BY DEF Tg!InsertGroup
<1>2. GroupsShape
  BY DEF GroupsInv
<1>3. /\ ask' \in [Actors -> Tg!Ask] /\ ask'[a].at = "idle"
      /\ \A b \in Actors \ {a} : ask'[b] = ask[b]
  BY <1>1, <1>2, AskOver
<1>4. ask[a].c \in Palette
  BY <1>1 DEF GroupsInv, Coloured
<1>5. /\ colour' \in [Groups -> Palette \union {0}] /\ colour'[given + 1] = ask[a].c
      /\ given + 1 \notin groups /\ \A g \in groups : colour'[g] = colour[g]
  <2>1. given \in Nat /\ groups \subseteq Nat
    BY <1>2, GroupsFacts DEF GroupsShape
  <2>2. given + 1 \notin groups
    BY <1>2, <2>1 DEF GroupsShape
  <2>3. colour \in [Groups -> Palette \union {0}] /\ groups \subseteq Groups
    BY <1>2 DEF GroupsShape
  <2> QED BY <1>1, <1>4, <2>2, <2>3
<1>6. GroupsShape'
  <2>1. \A g \in groups' : g <= given'
    BY <1>1, <1>2, GroupsFacts DEF GroupsShape
  <2> QED BY <1>1, <1>2, <1>3, <1>5, <2>1 DEF GroupsShape
<1>7. OneWay'
  <2> SUFFICES ASSUME ~crossed PROVE OneWay'
    BY <1>1 DEF OneWay
  <2>1. OneWay
    BY DEF GroupsInv
  <2>2. \A b \in Actors : ask'[b].at \in {"default", "reassign", "remove"} => ask'[b] = ask[b]
    BY <1>3
  <2>3. \E g \in groups' : default' = {g}
    BY <1>1, <2>1 DEF OneWay
  <2>4. \A b, d \in Actors : ask'[b].at = "default" => ask'[b].g \in groups' /\ ~DeletingNow(d)'
    BY <1>1, <2>1, <2>2 DEF OneWay, DeletingNow
  <2>5. \A b \in Actors : DeletingNow(b)' => ask'[b].g \notin default' /\ ask'[b].g # 0
    BY <1>1, <2>1, <2>2 DEF OneWay, DeletingNow
  <2>6. \A b \in Actors : ask'[b].at = "reassign" => ask'[b].d \in default'
    BY <1>1, <2>1, <2>2 DEF OneWay
  <2> QED BY <2>3, <2>4, <2>5, <2>6 DEF OneWay
<1>8. Planned'
  BY <1>1, <1>3, ElsePlanned
<1>9. Coloured'
  <2>1. repeated \subseteq repeated'
    BY <1>1
  <2>2. \A g \in groups : colour[g] = ask[a].c => ask[a].c \in repeated'
    BY <1>1, <2>1 DEF GroupsInv, Coloured
  <2>3. ASSUME NEW g \in groups', NEW h \in groups', g # h, colour'[g] = colour'[h]
        PROVE  colour'[g] \in repeated'
    <3>1. CASE g \in groups /\ h \in groups
      BY <1>5, <2>1, <2>3, <3>1 DEF GroupsInv, Coloured, Tg!OwnColours
    <3>2. CASE g = given + 1
      BY <1>1, <1>5, <2>2, <2>3, <3>2
    <3>3. CASE h = given + 1
      BY <1>1, <1>5, <2>2, <2>3, <3>3
    <3> QED BY <1>1, <3>1, <3>2, <3>3
  <2>4. \A b \in Actors : ask'[b].at = "insertGroup" =>
          /\ b # a /\ ask'[b] = ask[b] /\ ask'[b].c \in Palette
          /\ ask[a].c \in repeated'
    BY <1>1, <1>3 DEF GroupsInv, Coloured
  <2>5. \A b \in Actors, g \in groups' :
          ask'[b].at = "insertGroup" /\ colour'[g] = ask'[b].c => ask'[b].c \in repeated'
    <3> SUFFICES ASSUME NEW b \in Actors, NEW g \in groups', ask'[b].at = "insertGroup",
                        colour'[g] = ask'[b].c
                 PROVE  ask'[b].c \in repeated'
      OBVIOUS
    <3>1. CASE g \in groups
      BY <1>5, <2>1, <2>4, <3>1 DEF GroupsInv, Coloured
    <3>2. CASE g = given + 1
      BY <1>5, <2>4, <3>2
    <3> QED BY <1>1, <3>1, <3>2
  <2> QED BY <2>3, <2>4, <2>5 DEF Coloured, Tg!OwnColours
<1> QED BY <1>6, <1>7, <1>8, <1>9 DEF GroupsInv

\* A request that ends and changes nothing.
LEMMA FailKeeps ==
    ASSUME GroupsInv, NEW a \in Actors, Tg!InsertFails(a) \/ Tg!Refused(a)
    PROVE  GroupsInv'
<1>1. /\ Tg!Then(a, Tg!Idle)
      /\ UNCHANGED <<groups, default, colour, given, plan, members, crossed, repeated, odd>>
  BY DEF Tg!InsertFails, Tg!Refused
<1>2. GroupsShape
  BY DEF GroupsInv
<1>3. /\ ask' \in [Actors -> Tg!Ask] /\ ask'[a].at = "idle"
      /\ \A b \in Actors \ {a} : ask'[b] = ask[b]
  BY <1>1, <1>2, AskOver
<1>4. GroupsShape'
  BY <1>1, <1>2, <1>3 DEF GroupsShape
<1>5. OneWay'
  BY <1>1, <1>3, ElseOneWay
<1>6. Planned'
  BY <1>1, <1>3, ElsePlanned
<1>7. Coloured'
  BY <1>1, <1>3, ElseColoured
<1> QED BY <1>4, <1>5, <1>6, <1>7 DEF GroupsInv

LEMMA DeleteKeeps ==
    ASSUME GroupsInv, NEW a \in Actors, NEW g \in Groups, Tg!BeginDelete(a, g)
    PROVE  GroupsInv'
<1>1. /\ g \in groups \ default /\ default # {}
      /\ Tg!Then(a, [Tg!Idle EXCEPT !.at = "reassign", !.g = g, !.d = Tg!First(default)])
      /\ crossed' = (crossed \/ Tg!Choosing)
      /\ UNCHANGED <<groups, default, colour, given, plan, members, repeated, odd>>
  BY DEF Tg!BeginDelete, Tg!Deletable
<1>2. GroupsShape
  BY DEF GroupsInv
<1>3. PICK d \in default : d = Tg!First(default)
  <2>1. default \in SUBSET Nat
    BY <1>2, GroupsFacts DEF GroupsShape
  <2> QED BY <1>1, <2>1, FirstOf
<1>4. PICK new : new = [Tg!Idle EXCEPT !.at = "reassign", !.g = g, !.d = d]
  OBVIOUS
<1>5. new \in Tg!Ask /\ new.at = "reassign" /\ new.g = g /\ new.d = d
  BY <1>2, <1>4, GroupsFacts DEF Tg!Idle, Tg!Ask, GroupsShape
<1>6. /\ ask' \in [Actors -> Tg!Ask] /\ ask'[a] = new
      /\ \A b \in Actors \ {a} : ask'[b] = ask[b]
  BY <1>1, <1>2, <1>3, <1>4, <1>5, AskThen
<1>7. crossed' \in BOOLEAN
  BY <1>1, <1>2 DEF GroupsShape
<1>8. GroupsShape'
  BY <1>1, <1>2, <1>6, <1>7 DEF GroupsShape
<1>9. OneWay'
  <2> SUFFICES ASSUME ~crossed' PROVE OneWay'
    BY DEF OneWay
  <2>1. ~crossed /\ \A b \in Actors : ask[b].at # "default"
    BY <1>1 DEF Tg!Choosing
  <2>2. OneWay
    BY DEF GroupsInv
  <2>3. \A b \in Actors : ask'[b].at # "default"
    BY <1>5, <1>6, <2>1
  <2>4. \A b \in Actors : DeletingNow(b)' => ask'[b].g \notin default /\ ask'[b].g # 0
    BY <1>1, <1>5, <1>6, <2>1, <2>2, GroupsFacts DEF OneWay, DeletingNow
  <2>5. \A b \in Actors : ask'[b].at = "reassign" => ask'[b].d \in default
    BY <1>5, <1>6, <2>1, <2>2 DEF OneWay
  <2> QED BY <1>1, <2>1, <2>2, <2>3, <2>4, <2>5 DEF OneWay
<1>10. Planned'
  BY <1>1, <1>5, <1>6, ElsePlanned
<1>11. Coloured'
  BY <1>1, <1>5, <1>6, ElseColoured
<1> QED BY <1>8, <1>9, <1>10, <1>11 DEF GroupsInv

LEMMA ReassignKeeps ==
    ASSUME GroupsInv, NEW a \in Actors, Tg!Reassign(a) PROVE GroupsInv'
<1>1. /\ ask[a].at = "reassign"
      /\ UNCHANGED <<groups, default, colour, given, members, crossed, repeated, odd>>
  BY DEF Tg!Reassign
<1>2. GroupsShape
  BY DEF GroupsInv
<1>3. CASE ask[a].d \notin groups
  <2>1. plan' = plan /\ Tg!Then(a, Tg!Idle)
    BY <1>3 DEF Tg!Reassign
  <2>2. /\ ask' \in [Actors -> Tg!Ask] /\ ask'[a].at = "idle"
        /\ \A b \in Actors \ {a} : ask'[b] = ask[b]
    BY <1>2, <2>1, AskOver
  <2>3. GroupsShape'
    BY <1>1, <1>2, <2>1, <2>2 DEF GroupsShape
  <2>4. OneWay'
    BY <1>1, <2>2, ElseOneWay
  <2>5. Planned'
    BY <1>1, <2>1, <2>2, ElsePlanned
  <2>6. Coloured'
    BY <1>1, <2>2, ElseColoured
  <2> QED BY <2>3, <2>4, <2>5, <2>6 DEF GroupsInv
<1>4. CASE ask[a].d \in groups
  <2>1. /\ plan' = [m \in Actors |-> IF plan[m] = ask[a].g THEN ask[a].d ELSE plan[m]]
        /\ Tg!Then(a, [ask[a] EXCEPT !.at = "remove"])
    BY <1>4 DEF Tg!Reassign
  <2>2. PICK old \in Tg!Ask : old = ask[a]
    BY <1>2 DEF GroupsShape
  <2>3. PICK new : new = [old EXCEPT !.at = "remove"]
    OBVIOUS
  <2>4. new \in Tg!Ask /\ new.at = "remove" /\ new.g = old.g /\ new.m = old.m
    BY <2>3 DEF Tg!Ask
  <2>5. /\ ask' \in [Actors -> Tg!Ask] /\ ask'[a] = new
        /\ \A b \in Actors \ {a} : ask'[b] = ask[b]
    BY <1>2, <2>1, <2>2, <2>3, <2>4, AskThen
  <2>6. plan' \in [Actors -> Groups \union {0}]
    BY <1>2, <1>4, <2>1 DEF GroupsShape
  <2>7. GroupsShape'
    BY <1>1, <1>2, <2>5, <2>6 DEF GroupsShape
  <2>8. OneWay'
    <3> SUFFICES ASSUME ~crossed PROVE OneWay'
      BY <1>1 DEF OneWay
    <3>1. OneWay
      BY DEF GroupsInv
    <3>2. \A b \in Actors : /\ ask'[b].g = ask[b].g
                            /\ ask'[b].at = "default" <=> ask[b].at = "default"
                            /\ DeletingNow(b)' <=> DeletingNow(b)
                            /\ ask'[b].at = "reassign" => ask'[b] = ask[b]
      BY <1>1, <2>2, <2>4, <2>5 DEF DeletingNow
    <3>3. \E g \in groups' : default' = {g}
      BY <1>1, <3>1 DEF OneWay
    <3>4. \A b, d \in Actors : ask'[b].at = "default" => ask'[b].g \in groups' /\ ~DeletingNow(d)'
      BY <1>1, <3>1, <3>2 DEF OneWay
    <3>5. \A b \in Actors : DeletingNow(b)' => ask'[b].g \notin default' /\ ask'[b].g # 0
      BY <1>1, <3>1, <3>2 DEF OneWay
    <3>6. \A b \in Actors : ask'[b].at = "reassign" => ask'[b].d \in default'
      BY <1>1, <3>1, <3>2 DEF OneWay
    <3> QED BY <3>3, <3>4, <3>5, <3>6 DEF OneWay
  <2>9. Planned'
    <3> SUFFICES ASSUME ~crossed PROVE Planned'
      BY <1>1 DEF Planned
    <3>1. OneWay /\ Planned
      BY DEF GroupsInv
    <3>2. PICK d \in groups : default = {d} /\ ask[a].d = d
      BY <1>1, <3>1 DEF OneWay
    <3>3. d # 0 /\ \A b \in Actors : DeletingNow(b) => ask[b].g # d /\ ask[b].g # 0
      BY <1>2, <3>1, <3>2, GroupsFacts DEF OneWay, GroupsShape
    <3>4. \A m \in members : plan'[m] = IF plan[m] = ask[a].g THEN d ELSE plan[m]
      BY <1>2, <2>1, <3>2 DEF GroupsShape
    <3>5. \A m \in members : plan'[m] = 0 => m \in odd
      BY <3>1, <3>3, <3>4 DEF Planned
    <3>6. \A b \in Actors : ask'[b].at = "join" => ask'[b].g # 0
      BY <2>4, <2>5, <3>1 DEF Planned
    <3>7. ASSUME NEW b \in Actors, NEW m \in members, ask'[b].at = "remove", plan'[m] = ask'[b].g
          PROVE  m \in ask'[b].m
      <4>1. CASE b = a
        <5>1. ask'[a].g = ask[a].g /\ ask[a].g # d
          BY <1>1, <2>2, <2>4, <2>5, <3>3 DEF DeletingNow
        <5> QED BY <3>4, <3>7, <4>1, <5>1
      <4>2. CASE b # a
        <5>1. ask'[b] = ask[b] /\ ask[b].g # d
          BY <2>5, <3>3, <3>7, <4>2 DEF DeletingNow
        <5>2. plan'[m] = plan[m]
          BY <3>4, <3>7, <5>1
        <5> QED BY <3>1, <3>7, <5>1, <5>2 DEF Planned
      <4> QED BY <4>1, <4>2
    <3> QED BY <1>1, <3>5, <3>6, <3>7 DEF Planned
  <2>10. Coloured'
    BY <1>1, <2>4, <2>5, ElseColoured
  <2> QED BY <2>7, <2>8, <2>9, <2>10 DEF GroupsInv
<1> QED BY <1>3, <1>4

LEMMA RemoveKeeps ==
    ASSUME GroupsInv, NEW a \in Actors, Tg!Remove(a) PROVE GroupsInv'
<1> DEFINE left == {m \in members : plan[m] = ask[a].g}
<1>1. /\ ask[a].at = "remove" /\ Tg!Then(a, Tg!Idle)
      /\ groups' = groups \ {ask[a].g} /\ default' = default \ {ask[a].g}
      /\ plan' = [m \in Actors |-> IF m \in left THEN 0 ELSE plan[m]]
      /\ odd' = odd \union {m \in left : \E b \in Actors : m \in ask[b].m}
      /\ UNCHANGED <<colour, given, members, crossed, repeated>>
  BY GroupsFacts DEF Tg!Remove
<1> HIDE DEF left
<1>2. GroupsShape
  BY DEF GroupsInv
<1>3. /\ ask' \in [Actors -> Tg!Ask] /\ ask'[a].at = "idle"
      /\ \A b \in Actors \ {a} : ask'[b] = ask[b]
  BY <1>1, <1>2, AskOver
<1>4. plan' \in [Actors -> Groups \union {0}]
  BY <1>1, <1>2 DEF GroupsShape
<1>5. GroupsShape'
  BY <1>1, <1>2, <1>3, <1>4 DEF GroupsShape
<1>6. OneWay'
  <2> SUFFICES ASSUME ~crossed PROVE OneWay'
    BY <1>1 DEF OneWay
  <2>1. OneWay
    BY DEF GroupsInv
  <2>2. default' = default /\ \A b \in Actors : ask[b].at # "default"
    BY <1>1, <2>1 DEF OneWay, DeletingNow
  <2>3. \A b \in Actors : ask'[b].at # "default"
    BY <1>3, <2>2
  <2>4. \A b \in Actors : ask'[b].at \in {"reassign", "remove"} => ask'[b] = ask[b]
    BY <1>3
  <2>5. \E g \in groups' : default' = {g}
    BY <1>1, <2>1, <2>2 DEF OneWay
  <2>6. \A b \in Actors : DeletingNow(b)' => ask'[b].g \notin default' /\ ask'[b].g # 0
    BY <2>1, <2>2, <2>4 DEF OneWay, DeletingNow
  <2>7. \A b \in Actors : ask'[b].at = "reassign" => ask'[b].d \in default'
    BY <2>1, <2>2, <2>4 DEF OneWay
  <2> QED BY <2>3, <2>5, <2>6, <2>7 DEF OneWay
<1>7. Planned'
  <2> SUFFICES ASSUME ~crossed PROVE Planned'
    BY <1>1 DEF Planned
  <2>1. OneWay /\ Planned
    BY DEF GroupsInv
  <2>2. \A m \in members : plan'[m] = IF m \in left THEN 0 ELSE plan[m]
    BY <1>1, <1>2 DEF GroupsShape
  <2>3. \A m \in left : m \in odd'
    <3>1. \A m \in left : m \in ask[a].m
      BY <1>1, <2>1 DEF Planned, left
    <3> QED BY <1>1, <3>1
  <2>4. odd \subseteq odd'
    BY <1>1
  <2>5. \A m \in members : plan'[m] = 0 => m \in odd'
    BY <2>1, <2>2, <2>3, <2>4 DEF Planned
  <2>6. \A b \in Actors : ask'[b].at \in {"join", "remove"} => ask'[b] = ask[b]
    BY <1>3
  <2>7. \A b \in Actors : ask'[b].at = "join" => ask'[b].g # 0
    BY <2>1, <2>6 DEF Planned
  <2>8. \A b \in Actors, m \in members :
          ask'[b].at = "remove" /\ plan'[m] = ask'[b].g => m \in ask'[b].m
    <3>1. \A b \in Actors : ask[b].at = "remove" => ask[b].g # 0
      BY <2>1 DEF OneWay, DeletingNow
    <3> QED BY <2>1, <2>2, <2>6, <3>1 DEF Planned
  <2> QED BY <1>1, <2>5, <2>7, <2>8 DEF Planned
<1>8. Coloured'
  BY <1>1, <1>3, ElseColoured
<1> QED BY <1>5, <1>6, <1>7, <1>8 DEF GroupsInv

LEMMA ChooseKeeps ==
    ASSUME GroupsInv, NEW a \in Actors, NEW g \in Groups, Tg!ChooseDefault(a, g)
    PROVE  GroupsInv'
<1>1. /\ g \in groups /\ crossed' = (crossed \/ Tg!Deleting)
      /\ Tg!Then(a, [Tg!Idle EXCEPT !.at = "default", !.g = g])
      /\ UNCHANGED <<groups, default, colour, given, plan, members, repeated, odd>>
  BY DEF Tg!ChooseDefault
<1>2. GroupsShape
  BY DEF GroupsInv
<1>3. PICK new : new = [Tg!Idle EXCEPT !.at = "default", !.g = g]
  OBVIOUS
<1>4. new \in Tg!Ask /\ new.at = "default" /\ new.g = g
  BY <1>3, GroupsFacts DEF Tg!Idle, Tg!Ask
<1>5. /\ ask' \in [Actors -> Tg!Ask] /\ ask'[a] = new
      /\ \A b \in Actors \ {a} : ask'[b] = ask[b]
  BY <1>1, <1>2, <1>3, <1>4, AskThen
<1>6. crossed' \in BOOLEAN
  BY <1>1, <1>2 DEF GroupsShape
<1>7. GroupsShape'
  BY <1>1, <1>2, <1>5, <1>6 DEF GroupsShape
<1>8. OneWay'
  <2> SUFFICES ASSUME ~crossed' PROVE OneWay'
    BY DEF OneWay
  <2>1. ~crossed /\ \A b \in Actors : ~DeletingNow(b)
    BY <1>1 DEF Tg!Deleting, DeletingNow
  <2>2. OneWay
    BY DEF GroupsInv
  <2>3. \A b \in Actors : ~DeletingNow(b)'
    BY <1>4, <1>5, <2>1 DEF DeletingNow
  <2>4. \A b \in Actors : ask'[b].at = "default" => ask'[b].g \in groups
    BY <1>1, <1>4, <1>5, <2>1, <2>2 DEF OneWay
  <2>5. \A b \in Actors : ask'[b].at # "reassign"
    BY <2>3 DEF DeletingNow
  <2> QED BY <1>1, <2>1, <2>2, <2>3, <2>4, <2>5 DEF OneWay
<1>9. Planned'
  BY <1>1, <1>4, <1>5, ElsePlanned
<1>10. Coloured'
  BY <1>1, <1>4, <1>5, ElseColoured
<1> QED BY <1>7, <1>8, <1>9, <1>10 DEF GroupsInv

LEMMA SetKeeps ==
    ASSUME GroupsInv, NEW a \in Actors, Tg!SetDefault(a) PROVE GroupsInv'
<1>1. /\ ask[a].at = "default" /\ default' = {ask[a].g} \intersect groups
      /\ Tg!Then(a, Tg!Idle)
      /\ UNCHANGED <<groups, colour, given, plan, members, crossed, repeated, odd>>
  BY DEF Tg!SetDefault, Tg!OnlyThis
<1>2. GroupsShape
  BY DEF GroupsInv
<1>3. /\ ask' \in [Actors -> Tg!Ask] /\ ask'[a].at = "idle"
      /\ \A b \in Actors \ {a} : ask'[b] = ask[b]
  BY <1>1, <1>2, AskOver
<1>4. GroupsShape'
  BY <1>1, <1>2, <1>3 DEF GroupsShape
<1>5. OneWay'
  <2> SUFFICES ASSUME ~crossed PROVE OneWay'
    BY <1>1 DEF OneWay
  <2>1. OneWay
    BY DEF GroupsInv
  <2>2. ask[a].g \in groups /\ \A b \in Actors : ~DeletingNow(b)
    BY <1>1, <2>1 DEF OneWay
  <2>3. \A b \in Actors : ~DeletingNow(b)'
    BY <1>3, <2>2 DEF DeletingNow
  <2>4. \A b \in Actors : ask'[b].at = "default" => ask'[b].g \in groups
    BY <1>3, <2>1 DEF OneWay
  <2>5. \A b \in Actors : ask'[b].at # "reassign"
    BY <2>3 DEF DeletingNow
  <2> QED BY <1>1, <2>2, <2>3, <2>4, <2>5 DEF OneWay
<1>6. Planned'
  BY <1>1, <1>3, ElsePlanned
<1>7. Coloured'
  BY <1>1, <1>3, ElseColoured
<1> QED BY <1>4, <1>5, <1>6, <1>7 DEF GroupsInv

\* A new client is on a plan: there is always a default to fall back on.
LEMMA JoiningKeeps ==
    ASSUME GroupsInv, NEW a \in Actors, NEW m \in Actors, NEW asked \in groups \union {0},
           Tg!ChooseGroup(a, m, asked)
    PROVE  GroupsInv'
<1>1. UNCHANGED <<groups, default, colour, given, plan, members, crossed, repeated, odd>>
  BY DEF Tg!ChooseGroup
<1>2. GroupsShape
  BY DEF GroupsInv
<1>3. PICK g \in (IF asked # 0 THEN {asked} ELSE IF Tg!Choices = {} THEN {0} ELSE Tg!Choices) :
        Tg!Then(a, [Tg!Idle EXCEPT !.at = "join", !.g = g, !.m = {m}])
  BY GroupsFacts DEF Tg!ChooseGroup
<1>4. Tg!Choices \subseteq Groups /\ (default # {} => Tg!Choices # {})
  <2>1. {plan[n] : n \in members} \ {0} \subseteq Groups
    BY <1>2 DEF GroupsShape
  <2>2. default \subseteq Groups
    BY <1>2 DEF GroupsShape
  <2> QED BY <2>1, <2>2, GroupsFacts DEF Tg!Choices
<1>5. g \in Groups \union {0} /\ (~crossed => g # 0)
  <2>1. asked \in Groups \union {0} /\ 0 \notin Groups
    BY <1>2, GroupsFacts DEF GroupsShape
  <2>2. ~crossed => default # {}
    BY DEF GroupsInv, OneWay
  <2> QED BY <1>3, <1>4, <2>1, <2>2
<1>6. PICK new : new = [Tg!Idle EXCEPT !.at = "join", !.g = g, !.m = {m}]
  OBVIOUS
<1>7. new \in Tg!Ask /\ new.at = "join" /\ new.g = g
  BY <1>5, <1>6, GroupsFacts DEF Tg!Idle, Tg!Ask
<1>8. /\ ask' \in [Actors -> Tg!Ask] /\ ask'[a] = new
      /\ \A b \in Actors \ {a} : ask'[b] = ask[b]
  BY <1>2, <1>3, <1>6, <1>7, AskThen
<1>9. GroupsShape'
  BY <1>1, <1>2, <1>8 DEF GroupsShape
<1>10. OneWay'
  BY <1>1, <1>7, <1>8, ElseOneWay
<1>11. Planned'
  BY <1>1, <1>5, <1>7, <1>8, ElsePlanned
<1>12. Coloured'
  BY <1>1, <1>7, <1>8, ElseColoured
<1> QED BY <1>9, <1>10, <1>11, <1>12 DEF GroupsInv

\* Deletions past the move remember who joins their group.
Noted(b, g, S) ==
  IF ask[b].at = "remove" /\ ask[b].g = g THEN [ask[b] EXCEPT !.m = @ \union S] ELSE ask[b]

LEMMA Notes ==
    ASSUME GroupsShape, NEW b \in Actors, NEW g, NEW S \in SUBSET Actors
    PROVE  /\ Noted(b, g, S) \in Tg!Ask
           /\ Noted(b, g, S).at = ask[b].at /\ Noted(b, g, S).g = ask[b].g
           /\ Noted(b, g, S).d = ask[b].d /\ Noted(b, g, S).c = ask[b].c
           /\ ask[b].m \subseteq Noted(b, g, S).m
           /\ ask[b].at = "remove" /\ ask[b].g = g => S \subseteq Noted(b, g, S).m
<1>1. PICK old \in Tg!Ask : old = ask[b]
  BY DEF GroupsShape
<1>2. CASE ask[b].at = "remove" /\ ask[b].g = g
  <2>1. PICK new : new = [old EXCEPT !.m = old.m \union S]
    OBVIOUS
  <2>2. /\ new \in Tg!Ask /\ new.at = old.at /\ new.g = old.g /\ new.d = old.d
        /\ new.c = old.c /\ new.m = old.m \union S
    BY <2>1 DEF Tg!Ask
  <2>3. Noted(b, g, S) = new
    BY <1>1, <1>2, <2>1 DEF Noted
  <2> QED BY <1>1, <2>2, <2>3
<1>3. CASE ~(ask[b].at = "remove" /\ ask[b].g = g)
  <2>1. Noted(b, g, S) = ask[b]
    BY <1>3 DEF Noted
  <2> QED BY <1>1, <1>3, <2>1
<1> QED BY <1>2, <1>3

\* Clients that come to a group, and what every deletion of it knows then.
LEMMA Joined ==
    ASSUME GroupsInv, NEW S \in SUBSET Actors, NEW g \in groups \union {0},
           UNCHANGED <<groups, default, colour, given, crossed, repeated>>,
           members' \subseteq members \union S, odd \subseteq odd',
           ~crossed /\ g = 0 => S \subseteq odd',
           plan' = [m \in Actors |-> IF m \in S THEN g ELSE plan[m]],
           \A b \in Actors : ask'[b] = Noted(b, g, S) \/ ask'[b] = Tg!Idle,
           ask' = [b \in Actors |-> ask'[b]]
    PROVE  GroupsInv'
<1>1. GroupsShape
  BY DEF GroupsInv
<1>2. \A b \in Actors : ask'[b] \in Tg!Ask
  BY <1>1, Notes, IdleAsk
<1>3. \A b \in Actors : ask'[b].at # "idle" =>
        /\ ask'[b].at = ask[b].at /\ ask'[b].g = ask[b].g
        /\ ask'[b].d = ask[b].d /\ ask'[b].c = ask[b].c
        /\ ask[b].m \subseteq ask'[b].m
        /\ ask[b].at = "remove" /\ ask[b].g = g => S \subseteq ask'[b].m
  BY <1>1, Notes, IdleAsk
<1>4. plan' \in [Actors -> Groups \union {0}]
  BY <1>1 DEF GroupsShape
<1>5. members' \subseteq Actors
  BY <1>1 DEF GroupsShape
<1>6. ask' \in [Actors -> Tg!Ask]
  BY <1>2
<1>7. GroupsShape'
  BY <1>1, <1>4, <1>5, <1>6 DEF GroupsShape
<1>8. OneWay'
  <2> SUFFICES ASSUME ~crossed PROVE OneWay'
    BY DEF OneWay
  <2>1. OneWay
    BY DEF GroupsInv
  <2>2. \A b, d \in Actors : ask'[b].at = "default" => ask'[b].g \in groups /\ ~DeletingNow(d)'
    BY <1>3, <2>1 DEF OneWay, DeletingNow
  <2>3. \A b \in Actors : DeletingNow(b)' => ask'[b].g \notin default /\ ask'[b].g # 0
    BY <1>3, <2>1 DEF OneWay, DeletingNow
  <2>4. \A b \in Actors : ask'[b].at = "reassign" => ask'[b].d \in default
    BY <1>3, <2>1 DEF OneWay
  <2> QED BY <2>1, <2>2, <2>3, <2>4 DEF OneWay
<1>9. Planned'
  <2> SUFFICES ASSUME ~crossed PROVE Planned'
    BY DEF Planned
  <2>1. Planned
    BY DEF GroupsInv
  <2>2. \A m \in members' : IF m \in S THEN plan'[m] = g ELSE m \in members /\ plan'[m] = plan[m]
    BY <1>5
  <2>3. \A m \in members' : plan'[m] = 0 => m \in odd'
    BY <2>1, <2>2 DEF Planned
  <2>4. \A b \in Actors : ask'[b].at = "join" => ask'[b].g # 0
    BY <1>3, <2>1 DEF Planned
  <2>5. ASSUME NEW b \in Actors, NEW m \in members', ask'[b].at = "remove", plan'[m] = ask'[b].g
        PROVE  m \in ask'[b].m
    <3>1. /\ ask[b].at = "remove" /\ ask'[b].g = ask[b].g /\ ask[b].m \subseteq ask'[b].m
          /\ ask[b].g = g => S \subseteq ask'[b].m
      BY <1>3, <2>5
    <3>2. CASE m \in S
      BY <2>2, <2>5, <3>1, <3>2
    <3>3. CASE m \notin S
      BY <2>1, <2>2, <2>5, <3>1, <3>3 DEF Planned
    <3> QED BY <3>2, <3>3
  <2> QED BY <2>3, <2>4, <2>5 DEF Planned
<1>10. Coloured'
  <2>1. Tg!OwnColours'
    BY DEF GroupsInv, Coloured, Tg!OwnColours
  <2> QED BY <1>3, <2>1 DEF GroupsInv, Coloured
<1> QED BY <1>7, <1>8, <1>9, <1>10 DEF GroupsInv

LEMMA JoinKeeps ==
    ASSUME GroupsInv, NEW a \in Actors, Tg!Join(a) PROVE GroupsInv'
<1>1. PICK old \in Tg!Ask : old = ask[a]
  BY DEF GroupsInv, GroupsShape
<1>2. /\ old.at = "join" /\ old.g \in groups \union {0}
      /\ plan' = [m \in Actors |-> IF m \in old.m THEN old.g ELSE plan[m]]
      /\ members' = members \union old.m
      /\ ask' = [b \in Actors |-> IF b = a THEN Tg!Idle ELSE Noted(b, old.g, old.m)]
      /\ UNCHANGED <<groups, default, colour, given, crossed, repeated, odd>>
  BY <1>1, GroupsFacts DEF Tg!Join, Noted
<1>3. old.m \in SUBSET Actors
  BY <1>1 DEF Tg!Ask
<1>4. ~crossed => old.g # 0
  BY <1>1, <1>2 DEF GroupsInv, Planned
<1>5. /\ \A b \in Actors : ask'[b] = Noted(b, old.g, old.m) \/ ask'[b] = Tg!Idle
      /\ ask' = [b \in Actors |-> ask'[b]]
  BY <1>2
<1> QED BY <1>2, <1>3, <1>4, <1>5, Joined

LEMMA ChangeKeeps ==
    ASSUME GroupsInv, NEW m \in Actors, NEW g \in Groups \union {0}, Tg!ChangePlan(m, g)
    PROVE  GroupsInv'
<1>1. /\ m \in members /\ g \in groups \union {0}
      /\ plan' = [plan EXCEPT ![m] = g]
      /\ odd' = IF g = 0 THEN odd \union {m} ELSE odd
      /\ ask' = [b \in Actors |-> Noted(b, g, {m})]
      /\ UNCHANGED <<groups, default, colour, given, members, crossed, repeated>>
  BY GroupsFacts DEF Tg!ChangePlan, Noted
<1>2. plan' = [n \in Actors |-> IF n \in {m} THEN g ELSE plan[n]]
  BY <1>1 DEF GroupsInv, GroupsShape
<1>3. /\ \A b \in Actors : ask'[b] = Noted(b, g, {m})
      /\ ask' = [b \in Actors |-> ask'[b]]
  BY <1>1
<1>4. {m} \in SUBSET Actors /\ odd \subseteq odd' /\ (g = 0 => {m} \subseteq odd')
  BY <1>1
<1> QED BY <1>1, <1>2, <1>3, <1>4, Joined

LEMMA GroupsRest ==
    ASSUME GroupsInv,
           UNCHANGED <<groups, default, colour, given, plan, members, ask, crossed, repeated, odd>>
    PROVE  GroupsInv'
<1>1. GroupsShape'
  BY DEF GroupsInv, GroupsShape
<1>2. OneWay'
  BY DEF GroupsInv, OneWay, DeletingNow
<1>3. Planned'
  BY DEF GroupsInv, Planned
<1>4. Coloured'
  BY DEF GroupsInv, Coloured, Tg!OwnColours
<1> QED BY <1>1, <1>2, <1>3, <1>4 DEF GroupsInv

LEMMA GroupsNext == GroupsInv /\ Tg!Next => GroupsInv'
<1> SUFFICES ASSUME GroupsInv, Tg!Next PROVE GroupsInv'
  OBVIOUS
<1>1. ASSUME NEW a \in Actors, Tg!Admin(a) PROVE GroupsInv'
  <2>1. CASE Tg!CreateGroup(a) \/ Tg!InsertGroup(a) \/ Tg!InsertFails(a) \/ Tg!Refused(a)
    BY <2>1, CreateKeeps, InsertKeeps, FailKeeps
  <2>2. CASE Tg!Reassign(a) \/ Tg!Remove(a) \/ Tg!SetDefault(a) \/ Tg!Join(a)
    BY <2>2, ReassignKeeps, RemoveKeeps, SetKeeps, JoinKeeps
  <2>3. ASSUME NEW g \in Groups, Tg!BeginDelete(a, g) \/ Tg!ChooseDefault(a, g) PROVE GroupsInv'
    BY <2>3, DeleteKeeps, ChooseKeeps
  <2>4. ASSUME NEW m \in Actors, NEW asked \in groups \union {0}, Tg!ChooseGroup(a, m, asked)
        PROVE  GroupsInv'
    BY <2>4, JoiningKeeps
  <2> QED BY <1>1, <2>1, <2>2, <2>3, <2>4, GroupsFacts DEF Tg!Admin
<1>2. ASSUME NEW m \in Actors, NEW g \in Groups \union {0}, Tg!ChangePlan(m, g) PROVE GroupsInv'
  BY <1>2, ChangeKeeps
<1> QED BY <1>1, <1>2, GroupsFacts DEF Tg!Next

\* While no default is chosen during a deletion, there is one default group and a
\* client loses its plan only when it is taken away or it joined a group that was
\* being deleted, however the steps of the requests interleave; groups share a
\* colour only when the palette is exhausted or two were created at once (the
\* service's create, delete and setDefault, getNextColor).
THEOREM PlansHold == AllSpec => []GroupsSound
<1> DEFINE Inv == part = "groups" => GroupsInv
<1>1. AllInit => Inv
  BY GroupsInit DEF AllInit
<1>2. Inv /\ [AllNext]_vars => Inv'
  <2> SUFFICES ASSUME Inv, [AllNext]_vars, part' = "groups" PROVE GroupsInv'
    OBVIOUS
  <2>1. CASE part = "groups" /\ Tg!Next
    BY <2>1, GroupsNext
  <2>2. CASE part = "groups" /\ UNCHANGED xvars
    BY <2>2, GroupsRest DEF xvars
  <2>3. part = "groups" /\ (Tg!Next \/ UNCHANGED xvars)
    BY DEF AllNext, Rest, vars
  <2> QED BY <2>1, <2>2, <2>3
<1>3. Inv => GroupsSound
  BY GroupsKeep DEF GroupsSound
<1> QED BY <1>1, <1>2, <1>3, PTL DEF AllSpec


-----------------------------------------------------------------------------
(* The resolver.                                                           *)
wanted == x1
proc == x2
alive == x3
ending == x4
exited == x5
file == x6
loaded == x7
user == x8
lost == x9
crowded == x10
USE DEF wanted, proc, alive, ending, exited, file, loaded, user, lost, crowded

ResolverShape ==
  /\ proc = {} \/ \E p \in Procs : proc = {p}
  /\ proc \subseteq alive \union exited /\ alive \subseteq Procs
  /\ ending \subseteq alive /\ exited \cap alive = {}
  /\ loaded \in [Procs -> Rs!Config] /\ wanted \in Rs!Config /\ file \in Rs!Config
  /\ user \in [Actors -> Rs!User]
  /\ lost \in BOOLEAN /\ crowded \in BOOLEAN

\* The manager has no process, and none that runs was not told to end; or it has
\* the one that runs, and nothing is left of an earlier one.
Off == proc = {} /\ alive \subseteq ending
On(p) == proc = {p} /\ alive = {p} /\ ending = {} /\ exited = {}

\* Where a call is that nothing overlaps.
Stage(c) ==
  CASE user[c].at = "restart" -> Off
    [] user[c].at = "write"   -> Off /\ user[c].cfg = wanted /\ wanted # {}
    [] user[c].at = "spawn"   -> Off /\ file = wanted /\ wanted # {}
    [] user[c].at = "rewrite" -> (\E p \in Procs : On(p)) /\ user[c].cfg = wanted /\ wanted # {}
    [] user[c].at = "hup"     -> (\E p \in Procs : On(p)) /\ file = wanted /\ wanted # {}
    [] OTHER -> FALSE

Settled == IF wanted = {} THEN Off ELSE \E p \in Procs : On(p) /\ loaded[p] = wanted

InTurn ==
  ~crowded /\ ~lost =>
    /\ \A c \in Actors : user[c] # Rs!Idle => Stage(c)
    /\ \A c, d \in Actors : user[c] # Rs!Idle /\ user[d] # Rs!Idle => c = d
    /\ (\A c \in Actors : user[c] = Rs!Idle) => Settled

ResolverInv == ResolverShape /\ Rs!NoOrphan /\ InTurn

LEMMA ResolverInit == Rs!Init => ResolverInv
<1> SUFFICES ASSUME Rs!Init PROVE ResolverInv
  OBVIOUS
<1>1. Rs!Idle \in Rs!User /\ {} \in Rs!Config
  BY DEF Rs!Idle, Rs!User, Rs!Config
<1>2. user \in [Actors -> Rs!User] /\ \A c \in Actors : user[c] = Rs!Idle
  BY <1>1 DEF Rs!Init
<1>3. ResolverShape
  BY <1>1, <1>2 DEF Rs!Init, ResolverShape
<1>4. Rs!NoOrphan /\ Settled
  BY DEF Rs!Init, Rs!NoOrphan, Settled, Off
<1> QED BY <1>2, <1>3, <1>4 DEF ResolverInv, InTurn

LEMMA ResolverServes == ResolverInv => Rs!Serves
<1> SUFFICES ASSUME ResolverInv, ~crowded, ~lost, Rs!Quiet
             PROVE  IF wanted = {} THEN alive = {}
                    ELSE \E p \in alive : proc = {p} /\ loaded[p] = wanted
  BY DEF Rs!Serves
<1>1. Settled /\ ending = {}
  BY DEF ResolverInv, InTurn, Rs!Quiet
<1> QED BY <1>1 DEF Settled, Off, On

\* The manager forgets its process and tells it to end.
LEMMA Stopped ==
    ASSUME ResolverShape, Rs!NoOrphan, Rs!stop, UNCHANGED <<alive, exited, lost>>
    PROVE  /\ proc' = {} /\ ending' \subseteq alive /\ ending' \in SUBSET Procs
           /\ Rs!NoOrphan' /\ (~lost => Off')
BY DEF ResolverShape, Rs!NoOrphan, Rs!stop, Rs!Told, Off

\* What a call that is under way becomes.
LEMMA Moved ==
    ASSUME ResolverShape, NEW c \in Actors, NEW to \in Rs!User, Rs!Then(c, to)
    PROVE  /\ user' \in [Actors -> Rs!User] /\ user'[c] = to
           /\ \A d \in Actors \ {c} : user'[d] = user[d]
BY DEF ResolverShape, Rs!Then

\* The one call under way, and where it is then.
LEMMA OneCall ==
    ASSUME NEW c \in Actors,
           \A d \in Actors \ {c} : user'[d] = user[d],
           ~crowded' /\ ~lost' =>
             /\ \A d \in Actors \ {c} : user[d] = Rs!Idle
             /\ IF user'[c] = Rs!Idle THEN Settled' ELSE Stage(c)'
    PROVE  InTurn'
<1> SUFFICES ASSUME ~crowded', ~lost'
             PROVE  /\ \A d \in Actors : user'[d] # Rs!Idle => Stage(d)'
                    /\ \A d, e \in Actors : user'[d] # Rs!Idle /\ user'[e] # Rs!Idle => d = e
                    /\ (\A d \in Actors : user'[d] = Rs!Idle) => Settled'
  BY DEF InTurn, Rs!Idle
<1>1. \A d \in Actors \ {c} : user'[d] = Rs!Idle
  OBVIOUS
<1>2. \A d \in Actors : user'[d] # Rs!Idle => d = c
  BY <1>1
<1> QED BY <1>2

LEMMA CallsAt ==
    ASSUME ResolverShape, NEW c \in Actors
    PROVE  /\ user[c] \in Rs!User /\ Rs!Idle.at = "idle"
           /\ \A a, cfg : [at |-> a, cfg |-> cfg].at = a /\ [at |-> a, cfg |-> cfg].cfg = cfg
           /\ user[c].at \in {"idle", "restart", "write", "rewrite", "spawn", "hup"}
           /\ user[c].cfg \in Rs!Config
BY DEF ResolverShape, Rs!User, Rs!Idle

\* The call in turn, of an execution nothing disturbed.
LEMMA MyTurn ==
    ASSUME ResolverInv, NEW c \in Actors, user[c].at # "idle", ~crowded, ~lost
    PROVE  Stage(c) /\ \A d \in Actors \ {c} : user[d] = Rs!Idle
<1>1. user[c] # Rs!Idle
  BY CallsAt DEF ResolverInv
<1> QED BY <1>1 DEF ResolverInv, InTurn

LEMMA SyncServes ==
    ASSUME ResolverInv, NEW c \in Actors, NEW cfg \in Rs!Config, Rs!SyncInterface(c, cfg)
    PROVE  ResolverInv'
<1>1. /\ user[c] = Rs!Idle /\ crowded' = ~Rs!Quiet /\ wanted' = cfg
      /\ UNCHANGED <<alive, exited, file, loaded, lost>>
  BY DEF Rs!SyncInterface, Rs!Call
<1>2. ResolverShape /\ Rs!NoOrphan
  BY DEF ResolverInv
<1> DEFINE to == IF cfg = {} THEN Rs!Idle
                 ELSE [at |-> IF proc = {} THEN "write" ELSE "rewrite", cfg |-> cfg]
<1>3. to \in Rs!User
  BY CallsAt, <1>2 DEF Rs!User, Rs!Idle, Rs!Config
<1>4. /\ user' \in [Actors -> Rs!User] /\ user'[c] = to
      /\ \A d \in Actors \ {c} : user'[d] = user[d]
  <2>1. Rs!Then(c, to)
    BY DEF Rs!SyncInterface
  <2> HIDE DEF to
  <2> QED BY <1>2, <1>3, <2>1, Moved
<1>5. /\ proc' = {} \/ proc' = proc
      /\ ending' \subseteq alive /\ Rs!NoOrphan'
      /\ IF cfg = {} THEN (~lost => Off') ELSE proc' = proc /\ ending' = ending
  <2>1. CASE cfg = {}
    <3>1. Rs!stop
      BY <2>1 DEF Rs!SyncInterface, Rs!Off
    <3> QED BY <1>1, <1>2, <2>1, <3>1, Stopped
  <2>2. CASE cfg # {}
    <3>1. proc' = proc /\ ending' = ending
      BY <2>2 DEF Rs!SyncInterface, Rs!Off
    <3> QED BY <1>1, <1>2, <2>2, <3>1 DEF ResolverShape, Rs!NoOrphan
  <2> QED BY <2>1, <2>2
<1>6. crowded' \in BOOLEAN
  BY <1>1
<1>7. ResolverShape'
  BY <1>1, <1>2, <1>4, <1>5, <1>6 DEF ResolverShape
<1>8. ASSUME ~crowded', ~lost'
      PROVE  /\ \A d \in Actors \ {c} : user[d] = Rs!Idle
             /\ IF user'[c] = Rs!Idle THEN Settled' ELSE Stage(c)'
  <2>1. Rs!Quiet /\ ~lost
    BY <1>1, <1>8
  <2>2. /\ \A d \in Actors : user[d] = Rs!Idle
        /\ ending = {} /\ exited = {}
    BY <2>1 DEF Rs!Quiet
  <2>3. CASE cfg = {}
    <3>1. Settled' /\ user'[c] = Rs!Idle
      BY <1>1, <1>4, <1>5, <2>1, <2>3 DEF Settled
    <3> QED BY <2>2, <3>1
  <2>4. CASE cfg # {}
    <3>1. user'[c].at = (IF proc = {} THEN "write" ELSE "rewrite") /\ user'[c].cfg = cfg
      BY <1>4, <2>4
    <3>2. user'[c] # Rs!Idle
      BY <3>1 DEF Rs!Idle
    <3>3. proc = {} => Off'
      BY <1>1, <1>2, <1>5, <2>1, <2>4 DEF Off, Rs!NoOrphan
    <3>4. proc # {} => \E p \in Procs : On(p)'
      <4>1. alive \subseteq proc /\ proc \subseteq alive
        BY <1>2, <2>1, <2>2 DEF ResolverShape, Rs!NoOrphan
      <4>2. proc # {} => \E p \in Procs : proc = {p}
        BY <1>2 DEF ResolverShape
      <4> QED BY <1>1, <1>5, <2>2, <2>4, <4>1, <4>2 DEF On
    <3> QED BY <1>1, <2>2, <2>4, <3>1, <3>2, <3>3, <3>4 DEF Stage
  <2> QED BY <2>3, <2>4
<1>9. InTurn'
  BY <1>4, <1>8, OneCall
<1> QED BY <1>5, <1>7, <1>9 DEF ResolverInv

LEMMA RestartServes ==
    ASSUME ResolverInv, NEW c \in Actors, Rs!Restart(c) PROVE ResolverInv'
<1>1. /\ crowded' = ~Rs!Quiet /\ Rs!stop
      /\ Rs!Then(c, [at |-> "restart", cfg |-> {}])
      /\ UNCHANGED <<wanted, alive, exited, file, loaded, lost>>
  BY DEF Rs!Restart, Rs!Call
<1>2. ResolverShape /\ Rs!NoOrphan
  BY DEF ResolverInv
<1>3. PICK to \in Rs!User : to = [at |-> "restart", cfg |-> {}]
  BY DEF Rs!User, Rs!Config
<1>4. /\ user' \in [Actors -> Rs!User] /\ user'[c] = to
      /\ \A d \in Actors \ {c} : user'[d] = user[d]
  BY <1>1, <1>2, <1>3, Moved
<1>5. to.at = "restart" /\ to # Rs!Idle
  BY <1>3 DEF Rs!Idle
<1>6. proc' = {} /\ ending' \subseteq alive /\ Rs!NoOrphan' /\ (~lost => Off')
  BY <1>1, <1>2, Stopped
<1>7. ResolverShape'
  BY <1>1, <1>2, <1>4, <1>6 DEF ResolverShape
<1>8. ~crowded' /\ ~lost' =>
        /\ \A d \in Actors \ {c} : user[d] = Rs!Idle
        /\ IF user'[c] = Rs!Idle THEN Settled' ELSE Stage(c)'
  BY <1>1, <1>4, <1>5, <1>6 DEF Rs!Quiet, Stage
<1>9. InTurn'
  BY <1>4, <1>8, OneCall
<1> QED BY <1>6, <1>7, <1>9 DEF ResolverInv

LEMMA BringUpServes ==
    ASSUME ResolverInv, NEW c \in Actors, Rs!BringUp(c) PROVE ResolverInv'
<1>1. /\ user[c].at = "restart"
      /\ UNCHANGED <<wanted, alive, exited, file, loaded, lost, crowded>>
  BY DEF Rs!BringUp
<1>2. ResolverShape /\ Rs!NoOrphan
  BY DEF ResolverInv
<1>3. PICK to \in Rs!User :
        to = IF wanted = {} THEN Rs!Idle ELSE [at |-> "write", cfg |-> wanted]
  BY <1>2 DEF Rs!User, Rs!Idle, Rs!Config, ResolverShape
<1>4. Rs!Then(c, to)
  BY <1>3 DEF Rs!BringUp
<1>5. /\ user' \in [Actors -> Rs!User] /\ user'[c] = to
      /\ \A d \in Actors \ {c} : user'[d] = user[d]
  BY <1>2, <1>4, Moved
<1>6. CASE wanted = {}
  <2>1. proc' = proc /\ ending' = ending
    BY <1>6 DEF Rs!BringUp
  <2>2. ResolverShape' /\ Rs!NoOrphan'
    BY <1>1, <1>2, <1>5, <2>1 DEF ResolverShape, Rs!NoOrphan
  <2>3. ASSUME ~crowded, ~lost
        PROVE  (\A d \in Actors \ {c} : user[d] = Rs!Idle) /\ Settled'
    <3>1. Stage(c) /\ \A d \in Actors \ {c} : user[d] = Rs!Idle
      BY <1>1, <2>3, MyTurn
    <3> QED BY <1>1, <1>6, <2>1, <3>1 DEF Stage, Settled, Off
  <2>4. user'[c] = Rs!Idle
    BY <1>3, <1>5, <1>6
  <2>5. InTurn'
    BY <1>1, <1>5, <2>3, <2>4, OneCall
  <2> QED BY <2>2, <2>5 DEF ResolverInv
<1>7. CASE wanted # {}
  <2>1. Rs!stop
    BY <1>7 DEF Rs!BringUp
  <2>2. proc' = {} /\ ending' \subseteq alive /\ Rs!NoOrphan' /\ (~lost => Off')
    BY <1>1, <1>2, <2>1, Stopped
  <2>3. ResolverShape'
    BY <1>1, <1>2, <1>5, <2>2 DEF ResolverShape
  <2>4. user'[c].at = "write" /\ user'[c].cfg = wanted
    BY <1>3, <1>5, <1>7
  <2>5. user'[c] # Rs!Idle
    BY <2>4 DEF Rs!Idle
  <2>6. ASSUME ~crowded, ~lost
        PROVE  (\A d \in Actors \ {c} : user[d] = Rs!Idle) /\ Stage(c)'
    <3>1. \A d \in Actors \ {c} : user[d] = Rs!Idle
      BY <1>1, <2>6, MyTurn
    <3> QED BY <1>1, <1>7, <2>2, <2>4, <2>6, <3>1 DEF Stage
  <2>7. InTurn'
    BY <1>1, <1>5, <2>5, <2>6, OneCall
  <2> QED BY <2>2, <2>3, <2>7 DEF ResolverInv
<1> QED BY <1>6, <1>7

LEMMA WriteServes ==
    ASSUME ResolverInv, NEW c \in Actors, Rs!WriteConf(c) PROVE ResolverInv'
<1>1. /\ user[c].at \in {"write", "rewrite"} /\ file' = user[c].cfg
      /\ UNCHANGED <<wanted, proc, alive, ending, exited, loaded, lost, crowded>>
  BY DEF Rs!WriteConf, Rs!NewFile
<1>2. ResolverShape /\ Rs!NoOrphan
  BY DEF ResolverInv
<1>3. PICK to \in Rs!User :
        to = [user[c] EXCEPT !.at = IF user[c].at = "write" THEN "spawn" ELSE "hup"]
  <2>1. PICK now \in {"spawn", "hup"} : now = IF user[c].at = "write" THEN "spawn" ELSE "hup"
    OBVIOUS
  <2>2. user[c] \in Rs!User
    BY <1>2, CallsAt
  <2>3. [user[c] EXCEPT !.at = now] \in Rs!User
    BY <2>2 DEF Rs!User
  <2> QED BY <2>1, <2>3
<1>4. Rs!Then(c, to)
  BY <1>3 DEF Rs!WriteConf
<1>5. /\ user' \in [Actors -> Rs!User] /\ user'[c] = to
      /\ \A d \in Actors \ {c} : user'[d] = user[d]
  BY <1>2, <1>4, Moved
<1>6. to.at = IF user[c].at = "write" THEN "spawn" ELSE "hup"
  BY <1>2, <1>3, CallsAt DEF Rs!User
<1>7. ResolverShape' /\ Rs!NoOrphan'
  BY <1>1, <1>2, <1>5, CallsAt DEF ResolverShape, Rs!NoOrphan
<1>8. user'[c] # Rs!Idle
  BY <1>5, <1>6 DEF Rs!Idle
<1>9. ASSUME ~crowded, ~lost
      PROVE  (\A d \in Actors \ {c} : user[d] = Rs!Idle) /\ Stage(c)'
  <2>1. Stage(c) /\ \A d \in Actors \ {c} : user[d] = Rs!Idle
    BY <1>1, <1>9, MyTurn
  <2>2. CASE user[c].at = "write"
    BY <1>1, <1>5, <1>6, <2>1, <2>2 DEF Stage, Off
  <2>3. CASE user[c].at = "rewrite"
    BY <1>1, <1>5, <1>6, <2>1, <2>3 DEF Stage, On
  <2> QED BY <1>1, <2>1, <2>2, <2>3
<1>10. InTurn'
  BY <1>1, <1>5, <1>8, <1>9, OneCall
<1> QED BY <1>7, <1>10 DEF ResolverInv

LEMMA SpawnServes ==
    ASSUME ResolverInv, NEW c \in Actors, Rs!Spawn(c) PROVE ResolverInv'
<1>1. PICK p \in Procs \ (alive \union exited \union proc) :
        /\ proc' = {p}
        /\ IF alive = {} THEN alive' = {p} /\ exited' = exited
                         ELSE alive' = alive /\ exited' = exited \union {p}
        /\ loaded' = [loaded EXCEPT ![p] = file]
  BY DEF Rs!Spawn
<1>2. /\ user[c].at = "spawn" /\ lost' = (lost \/ (proc \intersect alive) # {})
      /\ Rs!Then(c, Rs!Idle)
      /\ crowded' = (crowded \/ ending # {} \/ exited # {})
      /\ UNCHANGED <<wanted, ending, file>>
  BY DEF Rs!Spawn
<1>3. ResolverShape /\ Rs!NoOrphan
  BY DEF ResolverInv
<1>4. Rs!Idle \in Rs!User
  BY DEF Rs!User, Rs!Idle, Rs!Config
<1>5. /\ user' \in [Actors -> Rs!User] /\ user'[c] = Rs!Idle
      /\ \A d \in Actors \ {c} : user'[d] = user[d]
  BY <1>2, <1>3, <1>4, Moved
<1>6. loaded' \in [Procs -> Rs!Config] /\ loaded'[p] = file
  BY <1>1, <1>3 DEF ResolverShape
<1>7. ResolverShape' /\ Rs!NoOrphan'
  <2>1. ending' \subseteq alive' /\ exited' \cap alive' = {} /\ proc' \subseteq alive' \union exited'
    BY <1>1, <1>2, <1>3 DEF ResolverShape
  <2>2. lost' \in BOOLEAN /\ crowded' \in BOOLEAN
    BY <1>2, <1>3 DEF ResolverShape
  <2>3. ResolverShape'
    BY <1>1, <1>2, <1>3, <1>5, <1>6, <2>1, <2>2 DEF ResolverShape
  <2>4. Rs!NoOrphan'
    BY <1>1, <1>2, <1>3 DEF ResolverShape, Rs!NoOrphan
  <2> QED BY <2>3, <2>4
<1>8. ASSUME ~crowded', ~lost'
      PROVE  (\A d \in Actors \ {c} : user[d] = Rs!Idle) /\ Settled'
  <2>1. ~crowded /\ ~lost /\ ending = {} /\ exited = {}
    BY <1>2, <1>8
  <2>2. Stage(c) /\ \A d \in Actors \ {c} : user[d] = Rs!Idle
    BY <1>2, <2>1, MyTurn
  <2>3. Off /\ file = wanted /\ wanted # {}
    BY <1>2, <2>2 DEF Stage
  <2>4. alive' = {p} /\ exited' = {} /\ ending' = {}
    BY <1>1, <1>2, <2>1, <2>3 DEF Off
  <2> QED BY <1>1, <1>2, <1>6, <2>2, <2>3, <2>4 DEF Settled, On
<1>9. InTurn'
  BY <1>5, <1>8, OneCall
<1> QED BY <1>7, <1>9 DEF ResolverInv

LEMMA HupServes ==
    ASSUME ResolverInv, NEW c \in Actors, Rs!Hup(c) PROVE ResolverInv'
<1>1. /\ user[c].at = "hup" /\ Rs!Then(c, Rs!Idle)
      /\ loaded' = [p \in Procs |-> IF p \in proc \intersect alive THEN file ELSE loaded[p]]
      /\ UNCHANGED <<wanted, proc, alive, ending, exited, file, lost, crowded>>
  BY DEF Rs!Hup
<1>2. ResolverShape /\ Rs!NoOrphan
  BY DEF ResolverInv
<1>3. Rs!Idle \in Rs!User
  BY DEF Rs!User, Rs!Idle, Rs!Config
<1>4. /\ user' \in [Actors -> Rs!User] /\ user'[c] = Rs!Idle
      /\ \A d \in Actors \ {c} : user'[d] = user[d]
  BY <1>1, <1>2, <1>3, Moved
<1>5. loaded' \in [Procs -> Rs!Config]
  BY <1>1, <1>2 DEF ResolverShape
<1>6. ResolverShape' /\ Rs!NoOrphan'
  BY <1>1, <1>2, <1>4, <1>5 DEF ResolverShape, Rs!NoOrphan
<1>7. ASSUME ~crowded, ~lost
      PROVE  (\A d \in Actors \ {c} : user[d] = Rs!Idle) /\ Settled'
  <2>1. Stage(c) /\ \A d \in Actors \ {c} : user[d] = Rs!Idle
    BY <1>1, <1>7, MyTurn
  <2>2. PICK p \in Procs : On(p) /\ file = wanted /\ wanted # {}
    BY <1>1, <2>1 DEF Stage
  <2>3. loaded'[p] = file
    BY <1>1, <2>2 DEF On
  <2>4. On(p)'
    BY <1>1, <2>2 DEF On
  <2> QED BY <1>1, <2>1, <2>2, <2>3, <2>4 DEF Settled
<1>8. InTurn'
  BY <1>1, <1>4, <1>7, OneCall
<1> QED BY <1>6, <1>8 DEF ResolverInv

\* While no call moves, what is known of each stays true.
LEMMA NoCall ==
    ASSUME InTurn, user' = user,
           ~crowded' /\ ~lost' => ~crowded /\ ~lost,
           ~crowded' /\ ~lost' =>
             \A c \in Actors : user[c] # Rs!Idle /\ Stage(c) => Stage(c)',
           ~crowded' /\ ~lost' /\ Settled => Settled'
    PROVE  InTurn'
BY DEF InTurn, Rs!Idle

LEMMA EndsServes ==
    ASSUME ResolverInv, NEW p \in Procs, Rs!Ends(p) PROVE ResolverInv'
<1>1. /\ p \in alive
      /\ (p \in ending /\ crowded' = crowded) \/ crowded'
      /\ alive' = alive \ {p} /\ ending' = ending \ {p} /\ exited' = exited \union {p}
      /\ UNCHANGED <<wanted, proc, file, loaded, user, lost>>
  BY DEF Rs!Ends
<1>2. ResolverShape /\ Rs!NoOrphan
  BY DEF ResolverInv
<1>3. crowded' \in BOOLEAN
  BY <1>2 DEF Rs!Ends, ResolverShape
<1>4. ResolverShape' /\ Rs!NoOrphan'
  BY <1>1, <1>2, <1>3 DEF ResolverShape, Rs!NoOrphan
<1>5. ASSUME ~crowded', ~lost'
      PROVE  /\ ~crowded /\ ~lost
             /\ Off => Off'
             /\ \A q \in Procs : ~On(q)
  BY <1>1, <1>5 DEF Off, On
<1>6. ASSUME ~crowded', ~lost', NEW c \in Actors, Stage(c) PROVE Stage(c)'
  <2>1. ~(\E q \in Procs : On(q)) /\ (Off => Off')
    BY <1>5, <1>6
  <2> QED BY <1>1, <1>6, <2>1 DEF Stage
<1>7. ~crowded' /\ ~lost' /\ Settled => Settled'
  BY <1>1, <1>5 DEF Settled
<1>8. InTurn'
  BY <1>1, <1>5, <1>6, <1>7, NoCall DEF ResolverInv
<1> QED BY <1>4, <1>8 DEF ResolverInv

LEMMA ExitServes ==
    ASSUME ResolverInv, NEW p \in Procs, Rs!Exit(p) PROVE ResolverInv'
<1>1. /\ p \in exited /\ exited' = exited \ {p} /\ proc' = {}
      /\ lost' = (lost \/ (proc \intersect alive) \ {p} # {})
      /\ UNCHANGED <<wanted, alive, ending, file, loaded, user, crowded>>
  BY DEF Rs!Exit
<1>2. ResolverShape /\ Rs!NoOrphan
  BY DEF ResolverInv
<1>3. lost' \in BOOLEAN
  BY <1>1, <1>2 DEF ResolverShape
<1>4. ResolverShape' /\ Rs!NoOrphan'
  BY <1>1, <1>2, <1>3 DEF ResolverShape, Rs!NoOrphan
<1>5. ASSUME ~crowded', ~lost'
      PROVE  /\ ~crowded /\ ~lost
             /\ Off => Off'
             /\ \A q \in Procs : ~On(q)
  BY <1>1, <1>5 DEF Off, On
<1>6. ASSUME ~crowded', ~lost', NEW c \in Actors, Stage(c) PROVE Stage(c)'
  <2>1. ~(\E q \in Procs : On(q)) /\ (Off => Off')
    BY <1>5, <1>6
  <2> QED BY <1>1, <1>6, <2>1 DEF Stage
<1>7. ~crowded' /\ ~lost' /\ Settled => Settled'
  BY <1>1, <1>5 DEF Settled
<1>8. InTurn'
  BY <1>1, <1>5, <1>6, <1>7, NoCall DEF ResolverInv
<1> QED BY <1>4, <1>8 DEF ResolverInv

LEMMA ResolverRests ==
    ASSUME ResolverInv,
           UNCHANGED <<wanted, proc, alive, ending, exited, file, loaded, user, lost, crowded>>
    PROVE  ResolverInv'
<1>1. ResolverShape' /\ Rs!NoOrphan'
  BY DEF ResolverInv, ResolverShape, Rs!NoOrphan
<1>2. \A c \in Actors : Stage(c) => Stage(c)'
  BY DEF Stage, Off, On
<1>3. Settled => Settled'
  BY DEF Settled, Off, On
<1> QED BY <1>1, <1>2, <1>3, NoCall DEF ResolverInv

LEMMA ResolverNext == ResolverInv /\ Rs!Next => ResolverInv'
<1> SUFFICES ASSUME ResolverInv, Rs!Next PROVE ResolverInv'
  OBVIOUS
<1>1. ASSUME NEW c \in Actors, Rs!Go(c) PROVE ResolverInv'
  BY <1>1, BringUpServes, WriteServes, SpawnServes, HupServes DEF Rs!Go
<1>2. ASSUME NEW c \in Actors, Rs!Restart(c) PROVE ResolverInv'
  BY <1>2, RestartServes
<1>3. ASSUME NEW c \in Actors, NEW cfg \in Rs!Config, Rs!SyncInterface(c, cfg) PROVE ResolverInv'
  BY <1>3, SyncServes
<1>4. ASSUME NEW p \in Procs, Rs!Ends(p) \/ Rs!Exit(p) PROVE ResolverInv'
  BY <1>4, EndsServes, ExitServes
<1> QED BY <1>1, <1>2, <1>3, <1>4 DEF Rs!Next

\* No dnsmasq runs that the manager has forgotten and has not told to end; and
\* after calls that nothing overlapped, one runs exactly when it is wanted, with
\* the settings that are wanted (start, reload, stop).
THEOREM ResolverCorrect == AllSpec => []ResolverSound
<1> DEFINE Inv == part = "resolver" => ResolverInv
<1>1. AllInit => Inv
  BY ResolverInit DEF AllInit
<1>2. Inv /\ [AllNext]_vars => Inv'
  <2> SUFFICES ASSUME Inv, [AllNext]_vars, part' = "resolver" PROVE ResolverInv'
    OBVIOUS
  <2>1. CASE part = "resolver" /\ Rs!Next
    BY <2>1, ResolverNext
  <2>2. CASE UNCHANGED vars
    BY <2>2, ResolverRests DEF vars, xvars
  <2>3. part = "resolver" => Rs!Next \/ UNCHANGED vars
    BY DEF AllNext
  <2>4. part = "resolver"
    BY DEF AllNext, Rest, vars
  <2> QED BY <2>1, <2>2, <2>3, <2>4
<1>3. Inv => ResolverSound
  BY ResolverServes DEF ResolverSound, ResolverInv
<1> QED BY <1>1, <1>2, <1>3, PTL DEF AllSpec


-----------------------------------------------------------------------------
(* The wizard.                                                             *)
page == x1
running == x2
isDone == x3
isFailed == x4
log == x5
mine == x6
at == x7
doing == x8
wire == x9
cut == x10
did == x11
USE DEF page, running, isDone, isFailed, log, mine, at, doing, wire, cut, did

WizardShape ==
  /\ running \in BOOLEAN /\ isDone \in BOOLEAN /\ isFailed \in BOOLEAN
  /\ mine = {} \/ \E r \in Actors : mine = {r}
  /\ at \in [Actors -> 0 .. 13]
  /\ doing \in [Actors -> {"new", "going", "ended", "refused"}]
  /\ wire \in [Actors -> Seq(Wz!Entry)]
  /\ cut \in [Actors -> BOOLEAN]
  /\ did \in [Actors -> SUBSET (0 .. 12)]

\* How far a run is, and what it has done.
Progress(r) ==
  CASE doing[r] = "going" -> at[r] <= 12 /\ did[r] = 0 .. (at[r] - 1)
    [] doing[r] = "ended" -> IF at[r] = 13 THEN 0 .. 11 \subseteq did[r]
                             ELSE did[r] = 0 .. (at[r] - 1)
    [] OTHER -> at[r] = 0 /\ did[r] = {} /\ wire[r] = <<>> /\ (doing[r] = "new" => ~cut[r])

\* What the dialog was told, and will be, of a run whose answer it reads.
ToldFailed(r) == \E i \in 1 .. Len(wire[r]) : Wz!SaysFailed(wire[r][i])
ToldDone(r)   == \E i \in 1 .. Len(wire[r]) : Wz!SaysDone(wire[r][i])
Heard(r) ==
  /\ doing[r] # "new"
  /\ IF cut[r] THEN isFailed /\ ~running /\ (isDone => at[r] = 13)
     ELSE /\ isFailed \/ ToldFailed(r) <=> doing[r] = "ended" /\ did[r] # 0 .. 12
          /\ isDone \/ ToldDone(r) <=> at[r] = 13
          /\ isDone => wire[r] = <<>>
          /\ \A i \in 1 .. Len(wire[r]) : Wz!SaysDone(wire[r][i]) => i = Len(wire[r])
          /\ ~running => wire[r] = <<>> /\ doing[r] \in {"ended", "refused"}

WizardSound ==
  /\ WizardShape
  /\ \A r \in Actors : Progress(r)
  /\ \A r \in mine : Heard(r)

LEMMA WizardTells == WizardSound => Wz!Truthful
<1> SUFFICES ASSUME WizardSound, NEW r \in mine
             PROVE  /\ Wz!Banner(TRUE, FALSE) => did[r] = 0 .. 12
                    /\ Wz!Banner(TRUE, TRUE) => 0 .. 11 \subseteq did[r]
                    /\ Wz!Banner(FALSE, TRUE) => did[r] # 0 .. 12 \/ cut[r]
                    /\ Wz!Banner(FALSE, FALSE) /\ ~running => doing[r] = "refused"
  BY DEF Wz!Truthful, Wz!Activate, Wz!TestApi
<1>1. r \in Actors /\ Heard(r) /\ Progress(r)
  BY DEF WizardSound, WizardShape
<1>2. wire[r] = <<>> => ~ToldFailed(r) /\ ~ToldDone(r)
  BY DEF ToldFailed, ToldDone
<1>3. did[r] = 0 .. 12 => at[r] = 13
  <2>1. at[r] \in 0 .. 13 /\ (did[r] = {} \/ at[r] = 13 \/ did[r] = 0 .. (at[r] - 1))
    BY <1>1 DEF Progress, WizardSound, WizardShape
  <2>2. 12 \in 0 .. 12
    OBVIOUS
  <2>3. at[r] # 13 => 12 \notin 0 .. (at[r] - 1)
    BY <2>1
  <2> QED BY <2>1, <2>2, <2>3
<1>4. isDone => at[r] = 13 /\ 0 .. 11 \subseteq did[r]
  <2>1. isDone => at[r] = 13
    BY <1>1 DEF Heard
  <2>2. at[r] = 13 => doing[r] = "ended"
    BY <1>1 DEF Progress, WizardSound, WizardShape
  <2> QED BY <1>1, <2>1, <2>2 DEF Progress
<1>5. isDone => doing[r] = "ended"
  BY <1>1, <1>4 DEF Progress, WizardSound, WizardShape
<1> QED BY <1>1, <1>2, <1>3, <1>4, <1>5 DEF Heard, Wz!Banner, WizardSound, WizardShape

LEMMA WizardInit == Wz!Init => WizardSound
<1> SUFFICES ASSUME Wz!Init PROVE WizardSound
  OBVIOUS
<1>1. WizardShape
  <2>1. wire \in [Actors -> Seq(Wz!Entry)]
    BY DEF Wz!Init
  <2>2. did \in [Actors -> SUBSET (0 .. 12)]
    BY DEF Wz!Init
  <2>3. at \in [Actors -> 0 .. 13] /\ cut \in [Actors -> BOOLEAN]
    BY DEF Wz!Init
  <2>4. doing \in [Actors -> {"new", "going", "ended", "refused"}]
    BY DEF Wz!Init
  <2>5. running \in BOOLEAN /\ isDone \in BOOLEAN /\ isFailed \in BOOLEAN /\ mine = {}
    BY DEF Wz!Init
  <2> QED BY <2>1, <2>2, <2>3, <2>4, <2>5 DEF WizardShape
<1>2. \A r \in Actors : Progress(r)
  BY DEF Wz!Init, Progress
<1>3. mine = {}
  BY DEF Wz!Init
<1> QED BY <1>1, <1>2, <1>3 DEF WizardSound

\* A run that is not touched is where it was.
LEMMA OtherRuns ==
    ASSUME WizardSound, NEW r \in Actors,
           \A d \in Actors \ {r} : /\ at'[d] = at[d] /\ doing'[d] = doing[d] /\ did'[d] = did[d]
                                   /\ wire'[d] = wire[d] /\ cut'[d] = cut[d],
           Progress(r)'
    PROVE  \A d \in Actors : Progress(d)'
<1> SUFFICES ASSUME NEW d \in Actors, d # r PROVE Progress(d)'
  OBVIOUS
<1>1. Progress(d)
  BY DEF WizardSound
<1> QED BY <1>1 DEF Progress

\* The request that is read from now on.
LEMMA WizardAsks ==
    ASSUME WizardSound, NEW r \in Actors, Wz!Start(r) \/ Wz!Refused(r)
    PROVE  WizardSound'
<1>1. PICK to \in {"going", "refused"} :
        /\ doing[r] = "new" /\ doing' = [doing EXCEPT ![r] = to]
        /\ running' = TRUE /\ isDone' = FALSE /\ isFailed' = FALSE /\ mine' = {r}
        /\ UNCHANGED <<at, wire, cut, did>>
  BY DEF Wz!Start, Wz!Refused
<1>2. Progress(r) /\ WizardShape
  BY DEF WizardSound
<1>3. at[r] = 0 /\ did[r] = {} /\ wire[r] = <<>> /\ ~cut[r]
  BY <1>1, <1>2 DEF Progress
<1>4. /\ doing' \in [Actors -> {"new", "going", "ended", "refused"}] /\ doing'[r] = to
      /\ \A d \in Actors \ {r} : doing'[d] = doing[d]
  BY <1>1, <1>2 DEF WizardShape
<1>5. WizardShape'
  BY <1>1, <1>2, <1>4 DEF WizardShape
<1>6. Progress(r)'
  BY <1>1, <1>3, <1>4 DEF Progress
<1>7. \A d \in Actors : Progress(d)'
  BY <1>1, <1>4, <1>6, OtherRuns
<1>8. Heard(r)'
  <2>1. ~ToldFailed(r)' /\ ~ToldDone(r)'
    BY <1>1, <1>3 DEF ToldFailed, ToldDone
  <2> QED BY <1>1, <1>3, <1>4, <2>1 DEF Heard
<1> QED BY <1>1, <1>5, <1>7, <1>8 DEF WizardSound

\* Taking the first event of a stream.
LEMMA HeadAndTail ==
    ASSUME NEW S, NEW s \in Seq(S), s # <<>>
    PROVE  /\ Head(s) \in S /\ Head(s) = s[1] /\ Tail(s) \in Seq(S)
           /\ Len(s) \in Nat \ {0} /\ Len(Tail(s)) = Len(s) - 1
           /\ \A i \in 1 .. Len(Tail(s)) : Tail(s)[i] = s[i + 1]
BY HeadTailProperties

LEMMA WizardReads ==
    ASSUME WizardSound, NEW r \in Actors, Wz!Read(r) PROVE WizardSound'
<1>1. /\ r \in mine /\ running /\ ~cut[r] /\ wire[r] # <<>>
      /\ isFailed' = (isFailed \/ Wz!SaysFailed(Head(wire[r])))
      /\ isDone' = (isDone \/ Wz!SaysDone(Head(wire[r])))
      /\ wire' = [wire EXCEPT ![r] = Tail(@)]
      /\ UNCHANGED <<running, mine, at, doing, cut, did>>
  BY DEF Wz!Read
<1>2. WizardShape /\ Progress(r) /\ Heard(r)
  BY <1>1 DEF WizardSound
<1>3. PICK s \in Seq(Wz!Entry) : s = wire[r]
  BY <1>2 DEF WizardShape
<1>4. /\ Head(s) = s[1] /\ Tail(s) \in Seq(Wz!Entry)
      /\ Len(s) \in Nat \ {0} /\ Len(Tail(s)) = Len(s) - 1
      /\ \A i \in 1 .. Len(Tail(s)) : Tail(s)[i] = s[i + 1]
  BY <1>1, <1>3, HeadAndTail
<1>5. PICK t \in Seq(Wz!Entry) : t = Tail(s)
  BY <1>4
<1>6. /\ wire' \in [Actors -> Seq(Wz!Entry)] /\ wire'[r] = t
      /\ \A d \in Actors \ {r} : wire'[d] = wire[d]
  BY <1>1, <1>2, <1>3, <1>5 DEF WizardShape
<1>7. isDone' \in BOOLEAN /\ isFailed' \in BOOLEAN
  BY <1>1, <1>2 DEF WizardShape, Wz!SaysFailed, Wz!SaysDone
<1>8. WizardShape'
  BY <1>1, <1>2, <1>6, <1>7 DEF WizardShape
<1>9. \A d \in Actors : Progress(d)'
  <2>1. doing[r] \in {"going", "ended"}
    BY <1>1, <1>2 DEF Progress, WizardShape
  <2>2. Progress(r)'
    BY <1>1, <1>2, <2>1 DEF Progress
  <2> QED BY <1>1, <1>6, <2>2, OtherRuns
<1>10. (isFailed \/ ToldFailed(r)) <=> (isFailed' \/ ToldFailed(r)')
  <2>1. ToldFailed(r) <=> Wz!SaysFailed(s[1]) \/ \E i \in 1 .. Len(t) : Wz!SaysFailed(t[i])
    <3>1. \A i \in 1 .. Len(s) : i = 1 \/ (i - 1 \in 1 .. Len(t) /\ t[i - 1] = s[i])
      BY <1>4, <1>5
    <3>2. \A i \in 1 .. Len(t) : i + 1 \in 1 .. Len(s) /\ s[i + 1] = t[i]
      BY <1>4, <1>5
    <3>3. 1 \in 1 .. Len(s)
      BY <1>4
    <3> QED BY <1>3, <3>1, <3>2, <3>3 DEF ToldFailed
  <2>2. ToldFailed(r)' <=> \E i \in 1 .. Len(t) : Wz!SaysFailed(t[i])
    BY <1>6 DEF ToldFailed, Wz!SaysFailed
  <2> QED BY <1>1, <1>3, <1>4, <2>1, <2>2
<1>11. (isDone \/ ToldDone(r)) <=> (isDone' \/ ToldDone(r)')
  <2>1. ToldDone(r) <=> Wz!SaysDone(s[1]) \/ \E i \in 1 .. Len(t) : Wz!SaysDone(t[i])
    <3>1. \A i \in 1 .. Len(s) : i = 1 \/ (i - 1 \in 1 .. Len(t) /\ t[i - 1] = s[i])
      BY <1>4, <1>5
    <3>2. \A i \in 1 .. Len(t) : i + 1 \in 1 .. Len(s) /\ s[i + 1] = t[i]
      BY <1>4, <1>5
    <3>3. 1 \in 1 .. Len(s)
      BY <1>4
    <3> QED BY <1>3, <3>1, <3>2, <3>3 DEF ToldDone
  <2>2. ToldDone(r)' <=> \E i \in 1 .. Len(t) : Wz!SaysDone(t[i])
    BY <1>6 DEF ToldDone, Wz!SaysDone
  <2> QED BY <1>1, <1>3, <1>4, <2>1, <2>2
<1>12. \A i \in 1 .. Len(s) : Wz!SaysDone(s[i]) => i = Len(s)
  <2>1. \A i \in 1 .. Len(wire[r]) : Wz!SaysDone(wire[r][i]) => i = Len(wire[r])
    BY <1>1, <1>2 DEF Heard
  <2> QED BY <1>3, <2>1
<1>13. \A i \in 1 .. Len(t) : Wz!SaysDone(t[i]) => i = Len(t)
  <2> SUFFICES ASSUME NEW i \in 1 .. Len(t), Wz!SaysDone(t[i]) PROVE i = Len(t)
    OBVIOUS
  <2>1. i + 1 \in 1 .. Len(s) /\ s[i + 1] = t[i] /\ Len(t) = Len(s) - 1
    BY <1>4, <1>5
  <2>2. i + 1 = Len(s)
    BY <1>12, <2>1
  <2>3. Len(s) \in Nat \ {0}
    BY <1>4
  <2> QED BY <2>1, <2>2, <2>3
<1>14. isDone' => t = <<>>
  <2>1. ~isDone
    BY <1>1, <1>2 DEF Heard
  <2>2. Wz!SaysDone(s[1]) => Len(s) = 1
    <3>1. 1 \in 1 .. Len(s)
      BY <1>4
    <3> QED BY <1>12, <3>1
  <2>3. Len(t) = 0 => t = <<>>
    BY EmptySeq
  <2>4. isDone' = Wz!SaysDone(s[1])
    BY <1>1, <1>3, <1>4, <2>1 DEF Wz!SaysDone
  <2> QED BY <1>4, <1>5, <2>2, <2>3, <2>4
<1>15. Heard(r)'
  <2>1. /\ isFailed \/ ToldFailed(r) <=> doing[r] = "ended" /\ did[r] # 0 .. 12
        /\ isDone \/ ToldDone(r) <=> at[r] = 13
    BY <1>1, <1>2 DEF Heard
  <2>2. /\ isFailed' \/ ToldFailed(r)' <=> doing'[r] = "ended" /\ did'[r] # 0 .. 12
        /\ isDone' \/ ToldDone(r)' <=> at'[r] = 13
    BY <1>1, <1>10, <1>11, <2>1
  <2>3. /\ isDone' => wire'[r] = <<>>
        /\ \A i \in 1 .. Len(wire'[r]) : Wz!SaysDone(wire'[r][i]) => i = Len(wire'[r])
    BY <1>6, <1>13, <1>14
  <2>4. running' /\ ~cut'[r] /\ doing'[r] # "new"
    BY <1>1, <1>2 DEF Heard
  <2> QED BY <2>2, <2>3, <2>4 DEF Heard, Wz!SaysDone
<1>16. mine' = {r}
  BY <1>1, <1>2 DEF WizardShape
<1> QED BY <1>8, <1>9, <1>15, <1>16 DEF WizardSound

\* The answer is over: everything in it was read.
LEMMA WizardHearsTheEnd ==
    ASSUME WizardSound, NEW r \in Actors, Wz!EndOfStream(r) PROVE WizardSound'
<1>1. /\ r \in mine /\ running /\ ~cut[r] /\ wire[r] = <<>>
      /\ doing[r] \in {"ended", "refused"} /\ running' = FALSE
      /\ UNCHANGED <<isDone, isFailed, mine, at, doing, wire, cut, did>>
  BY DEF Wz!EndOfStream
<1>2. WizardShape /\ Heard(r)
  BY <1>1 DEF WizardSound
<1>3. WizardShape'
  BY <1>1, <1>2 DEF WizardShape
<1>4. \A d \in Actors : Progress(d)'
  BY <1>1 DEF WizardSound, Progress
<1>5. Heard(r)'
  <2>1. ToldFailed(r)' = ToldFailed(r) /\ ToldDone(r)' = ToldDone(r)
    BY <1>1 DEF ToldFailed, ToldDone, Wz!SaysFailed, Wz!SaysDone
  <2> QED BY <1>1, <1>2, <2>1 DEF Heard, Wz!SaysDone
<1>6. mine' = {r}
  BY <1>1, <1>2 DEF WizardShape
<1> QED BY <1>3, <1>4, <1>5, <1>6 DEF WizardSound

\* The connection breaks: what was on its way is lost, and the dialog says so.
LEMMA WizardBreaks ==
    ASSUME WizardSound, NEW r \in Actors, Wz!Break(r) PROVE WizardSound'
<1>1. /\ r \in mine /\ running /\ ~cut[r]
      /\ cut' = [cut EXCEPT ![r] = TRUE] /\ wire' = [wire EXCEPT ![r] = <<>>]
      /\ isFailed' = TRUE /\ running' = FALSE
      /\ UNCHANGED <<isDone, mine, at, doing, did>>
  BY DEF Wz!Break
<1>2. WizardShape /\ Heard(r) /\ Progress(r)
  BY <1>1 DEF WizardSound
<1>3. /\ cut' \in [Actors -> BOOLEAN] /\ cut'[r]
      /\ \A d \in Actors \ {r} : cut'[d] = cut[d]
  BY <1>1, <1>2 DEF WizardShape
<1>4. /\ wire' \in [Actors -> Seq(Wz!Entry)] /\ wire'[r] = <<>>
      /\ \A d \in Actors \ {r} : wire'[d] = wire[d]
  <2>1. wire \in [Actors -> Seq(Wz!Entry)] /\ <<>> \in Seq(Wz!Entry)
    BY <1>2, EmptySeq DEF WizardShape
  <2> QED BY <1>1, <2>1
<1>5. WizardShape'
  BY <1>1, <1>2, <1>3, <1>4 DEF WizardShape
<1>6. doing[r] # "new"
  BY <1>1, <1>2 DEF Heard
<1>7. Progress(r)'
  BY <1>1, <1>2, <1>3, <1>4, <1>6 DEF Progress
<1>8. \A d \in Actors : Progress(d)'
  BY <1>1, <1>3, <1>4, <1>7, OtherRuns
<1>9. Heard(r)'
  BY <1>1, <1>2, <1>3 DEF Heard
<1>10. mine' = {r}
  BY <1>1, <1>2 DEF WizardShape
<1> QED BY <1>5, <1>8, <1>9, <1>10 DEF WizardSound

\* Turning the pages concerns no run.
LEMMA WizardTurns ==
    ASSUME WizardSound, UNCHANGED <<running, isDone, isFailed, mine, at, doing, wire, cut, did>>
    PROVE  WizardSound'
<1>1. WizardShape'
  BY DEF WizardSound, WizardShape
<1>2. \A d \in Actors : Progress(d)'
  BY DEF WizardSound, Progress
<1>3. \A d \in mine : Heard(d)'
  <2> SUFFICES ASSUME NEW d \in mine PROVE Heard(d)'
    OBVIOUS
  <2>1. Heard(d)
    BY DEF WizardSound
  <2>2. ToldFailed(d)' = ToldFailed(d) /\ ToldDone(d)' = ToldDone(d)
    BY DEF ToldFailed, ToldDone, Wz!SaysFailed, Wz!SaysDone
  <2> QED BY <2>1, <2>2 DEF Heard, Wz!SaysDone
<1> QED BY <1>1, <1>2, <1>3 DEF WizardSound

\* Events in a row: those of the first sequence, then those of the second.
LEMMA InARow ==
    ASSUME NEW S, NEW a \in Seq(S), NEW b \in Seq(S)
    PROVE  /\ a \o b \in Seq(S) /\ Len(a) \in Nat /\ Len(b) \in Nat
           /\ Len(a \o b) = Len(a) + Len(b)
           /\ \A i \in 1 .. Len(a) : (a \o b)[i] = a[i]
           /\ \A i \in 1 .. Len(b) : (a \o b)[Len(a) + i] = b[i]
           /\ \A i \in 1 .. Len(a \o b) : i \in 1 .. Len(a) \/ i - Len(a) \in 1 .. Len(b)
<1>1. /\ a \o b \in Seq(S) /\ Len(a) \in Nat /\ Len(b) \in Nat
      /\ Len(a \o b) = Len(a) + Len(b)
  BY ConcatProperties, LenProperties
<1>2. \A i \in 1 .. Len(a) + Len(b) : (a \o b)[i] = IF i <= Len(a) THEN a[i] ELSE b[i - Len(a)]
  BY ConcatProperties
<1>3. \A i \in 1 .. Len(a) : (a \o b)[i] = a[i]
  BY <1>1, <1>2
<1>4. \A i \in 1 .. Len(b) : (a \o b)[Len(a) + i] = b[i]
  <2> SUFFICES ASSUME NEW i \in 1 .. Len(b) PROVE (a \o b)[Len(a) + i] = b[i]
    OBVIOUS
  <2>1. /\ Len(a) + i \in 1 .. Len(a) + Len(b) /\ ~(Len(a) + i <= Len(a))
        /\ (Len(a) + i) - Len(a) = i
    BY <1>1
  <2> QED BY <1>2, <2>1
<1>5. \A i \in 1 .. Len(a \o b) : i \in 1 .. Len(a) \/ i - Len(a) \in 1 .. Len(b)
  BY <1>1
<1> QED BY <1>1, <1>3, <1>4, <1>5
LEMMA Two ==
    ASSUME NEW S, NEW a \in S, NEW b \in S
    PROVE  <<a>> \o <<b>> \in Seq(S) /\ Len(<<a>> \o <<b>>) = 2
           /\ (<<a>> \o <<b>>)[1] = a /\ (<<a>> \o <<b>>)[2] = b
<1>1. <<a>> \in Seq(S) /\ <<b>> \in Seq(S) /\ Len(<<a>>) = 1 /\ Len(<<b>>) = 1
      /\ <<a>>[1] = a /\ <<b>>[1] = b /\ 1 \in 1 .. 1
  OBVIOUS
<1>2. PICK s \in Seq(S) : s = <<a>>
  BY <1>1
<1>3. PICK t \in Seq(S) : t = <<b>>
  BY <1>1
<1>4. /\ s \o t \in Seq(S) /\ Len(s \o t) = Len(s) + Len(t)
      /\ \A i \in 1 .. Len(s) : (s \o t)[i] = s[i]
      /\ \A i \in 1 .. Len(t) : (s \o t)[Len(s) + i] = t[i]
  BY InARow
<1>5. Len(s) = 1 /\ Len(t) = 1 /\ s[1] = a /\ t[1] = b
  BY <1>1, <1>2, <1>3
<1>6. Len(s \o t) = 2 /\ (s \o t)[1] = a /\ (s \o t)[1 + 1] = b
  BY <1>1, <1>4, <1>5
<1> QED BY <1>2, <1>3, <1>4, <1>6

\* What a step of the run sends: bad news exactly when it failed, and the closing
\* event exactly when the run is at its end, as the last of the events.
SentBy(s, ok, es) ==
  /\ es = IF Wz!GoesOn(s, ok) THEN Wz!Verdict(s, ok) \o Wz!Announced(s + 1)
          ELSE Wz!Verdict(s, ok)
  /\ (\E i \in 1 .. Len(es) : Wz!SaysFailed(es[i])) <=> ~ok
  /\ (\E i \in 1 .. Len(es) : Wz!SaysDone(es[i])) <=> s = 12
  /\ \A i \in 1 .. Len(es) : Wz!SaysDone(es[i]) => i = Len(es)

LEMMA StepSends ==
    ASSUME NEW s \in 0 .. 12, NEW ok \in BOOLEAN
    PROVE  \E es \in Seq(Wz!Entry) : SentBy(s, ok, es)
<1> DEFINE says == [step |-> s, status |-> IF ok THEN "ok" ELSE "error"]
           next == [step |-> s + 1, status |-> IF s + 1 = 13 THEN "ok" ELSE "pending"]
<1>1. /\ says \in Wz!Entry /\ next \in Wz!Entry
      /\ Wz!SaysFailed(says) <=> ~ok
      /\ ~Wz!SaysDone(says) /\ ~Wz!SaysFailed(next)
      /\ Wz!SaysDone(next) <=> s = 12
  BY DEF Wz!Entry, Wz!Done, Wz!SaysFailed, Wz!SaysDone
<1>2. /\ Wz!Announced(s + 1) = <<next>>
      /\ Wz!Verdict(s, ok) = (IF s = 0 /\ ok THEN <<>> ELSE <<says>>)
      /\ Wz!GoesOn(s, ok) <=> ok \/ s = 12
  BY DEF Wz!Announced, Wz!Verdict, Wz!GoesOn, Wz!Done, Wz!Activate
<1> HIDE DEF says, next
<1>3. CASE ~ok /\ s # 12
  <2>1. Wz!Verdict(s, ok) = <<says>> /\ ~Wz!GoesOn(s, ok)
    BY <1>2, <1>3
  <2>2. <<says>> \in Seq(Wz!Entry) /\ Len(<<says>>) = 1 /\ <<says>>[1] = says
    BY <1>1
  <2>3. PICK es \in Seq(Wz!Entry) : es = <<says>>
    BY <2>2
  <2>4. Len(es) = 1 /\ es[1] = says
    BY <2>2, <2>3
  <2>5. es = Wz!Verdict(s, ok)
    BY <2>1, <2>3
  <2>6. 1 .. Len(es) = {1}
    BY <2>4
  <2>7. (\E i \in 1 .. Len(es) : Wz!SaysFailed(es[i])) <=> ~ok
    BY <1>1, <1>3, <2>4, <2>6
  <2>8. (\E i \in 1 .. Len(es) : Wz!SaysDone(es[i])) <=> s = 12
    BY <1>1, <1>3, <2>4, <2>6
  <2>9. \A i \in 1 .. Len(es) : Wz!SaysDone(es[i]) => i = Len(es)
    BY <1>1, <1>3, <2>4, <2>6
  <2> QED BY <2>1, <2>5, <2>7, <2>8, <2>9 DEF SentBy
<1>4. CASE ok /\ s = 0
  <2>1. /\ <<next>> \in Seq(Wz!Entry) /\ Len(<<next>>) = 1 /\ <<next>>[1] = next
    BY <1>1
  <2>2. PICK es \in Seq(Wz!Entry) : es = <<next>>
    BY <2>1
  <2>3. <<>> \o es = es
    BY <2>2, ConcatEmptySeq
  <2>4. es = Wz!Verdict(s, ok) \o Wz!Announced(s + 1) /\ Wz!GoesOn(s, ok)
    BY <1>2, <1>4, <2>2, <2>3
  <2>5. Len(es) = 1 /\ es[1] = next
    BY <2>1, <2>2
  <2>6. 1 .. Len(es) = {1}
    BY <2>5
  <2>7. (\E i \in 1 .. Len(es) : Wz!SaysFailed(es[i])) <=> ~ok
    BY <1>1, <1>4, <2>5, <2>6
  <2>8. (\E i \in 1 .. Len(es) : Wz!SaysDone(es[i])) <=> s = 12
    BY <1>1, <1>4, <2>5, <2>6
  <2>9. \A i \in 1 .. Len(es) : Wz!SaysDone(es[i]) => i = Len(es)
    BY <1>1, <1>4, <2>5, <2>6
  <2> QED BY <2>4, <2>7, <2>8, <2>9 DEF SentBy
<1>5. CASE (ok \/ s = 12) /\ ~(ok /\ s = 0)
  <2>1. /\ <<says>> \o <<next>> \in Seq(Wz!Entry) /\ Len(<<says>> \o <<next>>) = 2
        /\ (<<says>> \o <<next>>)[1] = says /\ (<<says>> \o <<next>>)[2] = next
    BY <1>1, Two
  <2>2. PICK es \in Seq(Wz!Entry) : es = <<says>> \o <<next>>
    BY <2>1
  <2>3. es = Wz!Verdict(s, ok) \o Wz!Announced(s + 1) /\ Wz!GoesOn(s, ok)
    BY <1>2, <1>5, <2>2
  <2>4. Len(es) = 2 /\ es[1] = says /\ es[2] = next
    BY <2>1, <2>2
  <2>6. 1 .. Len(es) = {1, 2}
    BY <2>4
  <2>7. (\E i \in 1 .. Len(es) : Wz!SaysFailed(es[i])) <=> ~ok
    BY <1>1, <1>5, <2>4, <2>6
  <2>8. (\E i \in 1 .. Len(es) : Wz!SaysDone(es[i])) <=> s = 12
    BY <1>1, <1>5, <2>4, <2>6
  <2>9. \A i \in 1 .. Len(es) : Wz!SaysDone(es[i]) => i = Len(es)
    BY <1>1, <1>5, <2>4, <2>6
  <2> QED BY <2>3, <2>7, <2>8, <2>9 DEF SentBy
<1> QED BY <1>3, <1>4, <1>5

\* A step moves its own run on, or ends it.
LEMMA StepGoesOn ==
    ASSUME WizardSound, NEW r \in Actors, NEW ok \in BOOLEAN, Wz!Step(r, ok)
    PROVE  /\ doing[r] = "going" /\ at[r] \in 0 .. 12 /\ did[r] = 0 .. (at[r] - 1)
           /\ did' \in [Actors -> SUBSET (0 .. 12)]
           /\ did'[r] = IF ok THEN 0 .. at[r] ELSE 0 .. (at[r] - 1)
           /\ at' \in [Actors -> 0 .. 13]
           /\ at'[r] = IF ok \/ at[r] = 12 THEN at[r] + 1 ELSE at[r]
           /\ doing' \in [Actors -> {"new", "going", "ended", "refused"}]
           /\ doing'[r] = IF ok /\ at[r] # 12 THEN "going" ELSE "ended"
           /\ \A d \in Actors \ {r} : /\ at'[d] = at[d] /\ doing'[d] = doing[d]
                                      /\ did'[d] = did[d]
           /\ UNCHANGED <<running, isDone, isFailed, mine, cut>>
<1>1. WizardShape /\ Progress(r)
  BY DEF WizardSound
<1>2. /\ doing[r] = "going" /\ at[r] \in 0 .. 13
      /\ UNCHANGED <<running, isDone, isFailed, mine, cut>>
  BY <1>1 DEF Wz!Step, Wz!dialog, WizardShape
<1>3. at[r] \in 0 .. 12 /\ did[r] = 0 .. (at[r] - 1)
  BY <1>1, <1>2 DEF Progress
<1>4. Wz!GoesOn(at[r], ok) <=> ok \/ at[r] = 12
  BY DEF Wz!GoesOn, Wz!Activate
<1>5. /\ did' \in [Actors -> SUBSET (0 .. 12)]
      /\ did'[r] = IF ok THEN 0 .. at[r] ELSE 0 .. (at[r] - 1)
      /\ \A d \in Actors \ {r} : did'[d] = did[d]
  <2>1. did' = [did EXCEPT ![r] = IF ok THEN did[r] \cup {at[r]} ELSE did[r]]
    BY DEF Wz!Step
  <2>2. (0 .. (at[r] - 1)) \cup {at[r]} = 0 .. at[r]
    BY <1>3
  <2>3. did \in [Actors -> SUBSET (0 .. 12)]
    BY <1>1 DEF WizardShape
  <2>4. (IF ok THEN did[r] \cup {at[r]} ELSE did[r]) \in SUBSET (0 .. 12)
    BY <1>3, <2>3
  <2> QED BY <1>3, <2>1, <2>2, <2>3, <2>4
<1>6. /\ at' = [at EXCEPT ![r] = IF ok \/ at[r] = 12 THEN at[r] + 1 ELSE at[r]]
      /\ doing' = [doing EXCEPT ![r] = IF ok /\ at[r] # 12 THEN "going" ELSE "ended"]
  <2>1. CASE ok \/ at[r] = 12
    <3>1. /\ at' = [at EXCEPT ![r] = at[r] + 1]
          /\ doing' = [doing EXCEPT ![r] = IF at[r] + 1 = 13 THEN "ended" ELSE doing[r]]
      BY <1>4, <2>1 DEF Wz!Step, Wz!Done
    <3>2. (IF ok \/ at[r] = 12 THEN at[r] + 1 ELSE at[r]) = at[r] + 1
      BY <2>1
    <3>3. (IF at[r] + 1 = 13 THEN "ended" ELSE doing[r])
           = IF ok /\ at[r] # 12 THEN "going" ELSE "ended"
      BY <1>2, <1>3, <2>1
    <3> QED BY <3>1, <3>2, <3>3
  <2>2. CASE ~(ok \/ at[r] = 12)
    <3>1. at' = at /\ doing' = [doing EXCEPT ![r] = "ended"]
      BY <1>4, <2>2 DEF Wz!Step
    <3>2. at \in [Actors -> 0 .. 13]
      BY <1>1 DEF WizardShape
    <3>3. at = [at EXCEPT ![r] = at[r]]
      BY <3>2
    <3> QED BY <2>2, <3>1, <3>3
  <2> QED BY <2>1, <2>2
<1>7. /\ at' \in [Actors -> 0 .. 13]
      /\ at'[r] = IF ok \/ at[r] = 12 THEN at[r] + 1 ELSE at[r]
      /\ \A d \in Actors \ {r} : at'[d] = at[d]
  <2>1. at \in [Actors -> 0 .. 13]
    BY <1>1 DEF WizardShape
  <2>2. (IF ok \/ at[r] = 12 THEN at[r] + 1 ELSE at[r]) \in 0 .. 13
    BY <1>3
  <2> QED BY <1>6, <2>1, <2>2
<1>8. /\ doing' \in [Actors -> {"new", "going", "ended", "refused"}]
      /\ doing'[r] = IF ok /\ at[r] # 12 THEN "going" ELSE "ended"
      /\ \A d \in Actors \ {r} : doing'[d] = doing[d]
  BY <1>1, <1>6 DEF WizardShape
<1> QED BY <1>2, <1>3, <1>5, <1>7, <1>8

\* What a step sends reaches the stream, unless the connection is broken.
LEMMA StepTells ==
    ASSUME WizardSound, NEW r \in Actors, NEW ok \in BOOLEAN, Wz!Step(r, ok)
    PROVE  \E es \in Seq(Wz!Entry) :
             /\ wire' = [wire EXCEPT ![r] = IF cut[r] THEN wire[r] ELSE wire[r] \o es]
             /\ SentBy(at[r], ok, es)
<1>1. PICK s \in 0 .. 12 : s = at[r]
  BY StepGoesOn
<1>2. PICK es \in Seq(Wz!Entry) : SentBy(s, ok, es)
  BY StepSends
<1>3. wire' = [wire EXCEPT ![r] = IF cut[r] THEN wire[r] ELSE wire[r] \o es]
  <2>1. CASE Wz!GoesOn(s, ok)
    BY <1>1, <1>2, <2>1 DEF SentBy, Wz!Step, Wz!Sent
  <2>2. CASE ~Wz!GoesOn(s, ok)
    BY <1>1, <1>2, <2>2 DEF SentBy, Wz!Step, Wz!Sent
  <2> QED BY <2>1, <2>2
<1> QED BY <1>1, <1>2, <1>3

\* A step of the run keeps what the dialog heard and will hear in line with what
\* the run did.
LEMMA WizardSteps ==
    ASSUME WizardSound, NEW r \in Actors, NEW ok \in BOOLEAN, Wz!Step(r, ok)
    PROVE  WizardSound'
<1>1. /\ doing[r] = "going" /\ at[r] \in 0 .. 12 /\ did[r] = 0 .. (at[r] - 1)
      /\ did'[r] = IF ok THEN 0 .. at[r] ELSE 0 .. (at[r] - 1)
      /\ at'[r] = IF ok \/ at[r] = 12 THEN at[r] + 1 ELSE at[r]
      /\ doing'[r] = IF ok /\ at[r] # 12 THEN "going" ELSE "ended"
      /\ UNCHANGED <<running, isDone, isFailed, mine, cut>>
  BY StepGoesOn
<1>2. /\ did' \in [Actors -> SUBSET (0 .. 12)] /\ at' \in [Actors -> 0 .. 13]
      /\ doing' \in [Actors -> {"new", "going", "ended", "refused"}]
      /\ \A d \in Actors \ {r} : at'[d] = at[d] /\ doing'[d] = doing[d] /\ did'[d] = did[d]
  BY StepGoesOn
<1>3. WizardShape
  BY DEF WizardSound
<1>4. PICK es \in Seq(Wz!Entry) :
        /\ wire' = [wire EXCEPT ![r] = IF cut[r] THEN wire[r] ELSE wire[r] \o es]
        /\ SentBy(at[r], ok, es)
  BY StepTells
<1>5. PICK w \in Seq(Wz!Entry) : w = wire[r]
  BY <1>3 DEF WizardShape
<1>6. /\ w \o es \in Seq(Wz!Entry) /\ Len(w) \in Nat /\ Len(es) \in Nat
      /\ Len(w \o es) = Len(w) + Len(es)
      /\ \A i \in 1 .. Len(w) : (w \o es)[i] = w[i]
      /\ \A i \in 1 .. Len(es) : (w \o es)[Len(w) + i] = es[i]
      /\ \A i \in 1 .. Len(w \o es) : i \in 1 .. Len(w) \/ i - Len(w) \in 1 .. Len(es)
  BY InARow
<1>7. PICK t \in Seq(Wz!Entry) : t = IF cut[r] THEN w ELSE w \o es
  BY <1>6
<1>8. /\ wire' \in [Actors -> Seq(Wz!Entry)] /\ wire'[r] = t
      /\ \A d \in Actors \ {r} : wire'[d] = wire[d]
  <2>1. wire \in [Actors -> Seq(Wz!Entry)]
    BY <1>3 DEF WizardShape
  <2>2. wire' = [wire EXCEPT ![r] = t]
    BY <1>4, <1>5, <1>7
  <2> QED BY <2>1, <2>2
<1>9. WizardShape'
  BY <1>1, <1>2, <1>3, <1>8 DEF WizardShape
<1>10. Progress(r)'
  <2>1. CASE ok /\ at[r] # 12
    <3>1. at'[r] = at[r] + 1 /\ did'[r] = 0 .. at[r] /\ doing'[r] = "going" /\ at'[r] <= 12
      BY <1>1, <2>1, SMTT(30)
    <3>2. at'[r] - 1 = at[r]
      BY <1>1, <3>1, SMTT(30)
    <3> QED BY <3>1, <3>2 DEF Progress
  <2>2. CASE ~ok /\ at[r] # 12
    BY <1>1, <2>2, SMTT(30) DEF Progress
  <2>3. CASE at[r] = 12
    <3>1. at'[r] = 13 /\ doing'[r] = "ended" /\ 0 .. 11 \subseteq did'[r]
      BY <1>1, <2>3
    <3> QED BY <3>1 DEF Progress
  <2> QED BY <2>1, <2>2, <2>3
<1>11. \A d \in Actors : Progress(d)'
  BY <1>1, <1>2, <1>8, <1>10, OtherRuns
<1>12. ASSUME NEW d \in mine PROVE Heard(d)'
  <2>1. d \in Actors /\ Heard(d)
    BY <1>3, <1>12 DEF WizardSound, WizardShape
  <2>2. CASE d # r
    <3>1. /\ wire'[d] = wire[d] /\ at'[d] = at[d] /\ doing'[d] = doing[d]
          /\ did'[d] = did[d] /\ UNCHANGED <<running, isDone, isFailed, cut>>
      BY <1>1, <1>2, <1>8, <2>1, <2>2
    <3>2. ToldFailed(d)' = ToldFailed(d) /\ ToldDone(d)' = ToldDone(d)
      BY <3>1 DEF ToldFailed, ToldDone, Wz!SaysFailed, Wz!SaysDone
    <3> QED BY <2>1, <3>1, <3>2 DEF Heard, Wz!SaysDone
  <2>3. CASE d = r /\ cut[r]
    <3>1. doing'[r] # "new" /\ (at[r] # 13 => ~isDone)
      BY <1>1, <2>1, <2>3 DEF Heard
    <3>2. isFailed /\ ~running
      BY <2>1, <2>3 DEF Heard
    <3>3. cut'[r] /\ isFailed' /\ ~running' /\ ~isDone'
      BY <1>1, <2>3, <3>1, <3>2, SMTT(30)
    <3> QED BY <2>3, <3>1, <3>3 DEF Heard
  <2>4. CASE d = r /\ ~cut[r]
    <3>1. /\ isFailed \/ ToldFailed(r) <=> FALSE
          /\ isDone \/ ToldDone(r) <=> FALSE
          /\ running
      BY <1>1, <2>1, <2>4, SMTT(30) DEF Heard
    <3>2. t = w \o es
      BY <1>7, <2>4
    <3>3. /\ \A i \in 1 .. Len(w) : ~Wz!SaysFailed(w[i]) /\ ~Wz!SaysDone(w[i])
      BY <1>5, <3>1 DEF ToldFailed, ToldDone
    <3>4. /\ (\E i \in 1 .. Len(es) : Wz!SaysFailed(es[i])) <=> ~ok
          /\ (\E i \in 1 .. Len(es) : Wz!SaysDone(es[i])) <=> at[r] = 12
          /\ \A i \in 1 .. Len(es) : Wz!SaysDone(es[i]) => i = Len(es)
      BY <1>4 DEF SentBy
    <3>5. /\ \A i \in 1 .. Len(es) : Len(w) + i \in 1 .. Len(t) /\ t[Len(w) + i] = es[i]
          /\ \A i \in 1 .. Len(t) : \/ i \in 1 .. Len(w) /\ t[i] = w[i]
                                    \/ i - Len(w) \in 1 .. Len(es) /\ t[i] = es[i - Len(w)]
      <4>1. \A i \in 1 .. Len(es) : Len(w) + i \in 1 .. Len(t) /\ t[Len(w) + i] = es[i]
        BY <1>6, <3>2
      <4>2. ASSUME NEW i \in 1 .. Len(t)
            PROVE  \/ i \in 1 .. Len(w) /\ t[i] = w[i]
                   \/ i - Len(w) \in 1 .. Len(es) /\ t[i] = es[i - Len(w)]
        <5>1. CASE i \in 1 .. Len(w)
          BY <1>6, <3>2, <5>1
        <5>2. CASE i - Len(w) \in 1 .. Len(es)
          <6>1. Len(w) + (i - Len(w)) = i
            BY <1>6
          <6> QED BY <1>6, <3>2, <5>2, <6>1
        <5> QED BY <1>6, <3>2, <5>1, <5>2
      <4> QED BY <4>1, <4>2
    <3>6. (\E i \in 1 .. Len(t) : Wz!SaysFailed(t[i])) <=> ~ok
      <4>1. ASSUME NEW i \in 1 .. Len(t), Wz!SaysFailed(t[i]) PROVE ~ok
        BY <3>3, <3>4, <3>5, <4>1
      <4>2. ASSUME ~ok PROVE \E i \in 1 .. Len(t) : Wz!SaysFailed(t[i])
        <5>1. PICK i \in 1 .. Len(es) : Wz!SaysFailed(es[i])
          BY <3>4, <4>2
        <5> QED BY <3>5, <5>1
      <4> QED BY <4>1, <4>2
    <3>7. (\E i \in 1 .. Len(t) : Wz!SaysDone(t[i])) <=> at[r] = 12
      <4>1. ASSUME NEW i \in 1 .. Len(t), Wz!SaysDone(t[i]) PROVE at[r] = 12
        BY <3>3, <3>4, <3>5, <4>1
      <4>2. ASSUME at[r] = 12 PROVE \E i \in 1 .. Len(t) : Wz!SaysDone(t[i])
        <5>1. PICK i \in 1 .. Len(es) : Wz!SaysDone(es[i])
          BY <3>4, <4>2
        <5> QED BY <3>5, <5>1
      <4> QED BY <4>1, <4>2
    <3>8. ASSUME NEW i \in 1 .. Len(t), Wz!SaysDone(t[i]) PROVE i = Len(t)
      <4>1. i - Len(w) \in 1 .. Len(es) /\ Wz!SaysDone(es[i - Len(w)])
        BY <3>3, <3>5, <3>8
      <4>2. i - Len(w) = Len(es)
        BY <3>4, <4>1
      <4> QED BY <1>6, <3>2, <4>2
    <3>9. /\ doing'[r] = "ended" /\ did'[r] # 0 .. 12 <=> ~ok
          /\ at'[r] = 13 <=> at[r] = 12
      <4> PICK s \in 0 .. 12 : s = at[r]
        BY <1>1
      <4>1. at'[r] = 13 <=> at[r] = 12
        <5>1. at'[r] = IF ok \/ s = 12 THEN s + 1 ELSE s
          BY <1>1
        <5> QED BY <5>1, SMTT(30)
      <4>2. 12 \in 0 .. 12 /\ 12 \notin 0 .. (at[r] - 1)
        <5>1. 12 \in 0 .. 12 /\ 12 \notin 0 .. (s - 1)
          BY SMTT(30)
        <5> QED BY <5>1
      <4>3. ok /\ at[r] = 12 => did'[r] = 0 .. 12
        BY <1>1
      <4>4. ASSUME ~ok PROVE did'[r] # 0 .. 12 /\ doing'[r] = "ended"
        <5>1. did'[r] = 0 .. (at[r] - 1) /\ doing'[r] = "ended"
          BY <1>1, <4>4
        <5> QED BY <4>2, <5>1
      <4>5. ok /\ at[r] # 12 => doing'[r] = "going"
        BY <1>1
      <4> QED BY <4>1, <4>3, <4>4, <4>5
    <3>10. /\ ToldFailed(r)' <=> \E i \in 1 .. Len(t) : Wz!SaysFailed(t[i])
           /\ ToldDone(r)' <=> \E i \in 1 .. Len(t) : Wz!SaysDone(t[i])
      BY <1>8 DEF ToldFailed, ToldDone, Wz!SaysFailed, Wz!SaysDone
    <3>11. \A i \in 1 .. Len(wire'[r]) : Wz!SaysDone(wire'[r][i]) => i = Len(wire'[r])
      BY <1>8, <3>8
    <3>12. /\ running' /\ ~cut'[r] /\ doing'[r] # "new"
           /\ (isFailed' <=> FALSE) /\ (isDone' <=> FALSE)
      BY <1>1, <2>4, <3>1
    <3>13. Heard(r)'
      BY <3>6, <3>7, <3>9, <3>10, <3>11, <3>12 DEF Heard, Wz!SaysDone
    <3> QED BY <2>4, <3>13
  <2> QED BY <2>2, <2>3, <2>4
<1>13. mine' = mine
  BY <1>1
<1> QED BY <1>9, <1>11, <1>12, <1>13 DEF WizardSound

LEMMA WizardNext == WizardSound /\ Wz!Next => WizardSound'
<1> SUFFICES ASSUME WizardSound, Wz!Next PROVE WizardSound'
  OBVIOUS
<1>1. ASSUME NEW p \in {page - 1, page + 1}, Wz!Turn(p) PROVE WizardSound'
  BY <1>1, WizardTurns DEF Wz!Turn
<1>2. ASSUME NEW r \in Actors, Wz!Start(r) \/ Wz!Refused(r) PROVE WizardSound'
  BY <1>2, WizardAsks
<1>3. ASSUME NEW r \in Actors, Wz!Read(r) PROVE WizardSound'
  BY <1>3, WizardReads
<1>4. ASSUME NEW r \in Actors, Wz!EndOfStream(r) PROVE WizardSound'
  BY <1>4, WizardHearsTheEnd
<1>5. ASSUME NEW r \in Actors, Wz!Break(r) PROVE WizardSound'
  BY <1>5, WizardBreaks
<1>6. ASSUME NEW r \in Actors, NEW ok \in BOOLEAN, Wz!Step(r, ok) PROVE WizardSound'
  BY <1>6, WizardSteps
<1> QED BY <1>1, <1>2, <1>3, <1>4, <1>5, <1>6 DEF Wz!Next

\* The banners of the wizard tell of the request whose answer it reads, whatever
\* earlier runs of the dialog still do on the server: the green one alone means
\* that every step is done, the red one alone that a step failed or the connection
\* was lost (startBootstrap, bootstrap.post).
THEOREM VerdictsAreTrue == AllSpec => []Truthful
<1> DEFINE Inv == part = "wizard" => WizardSound
<1>1. AllInit => Inv
  BY WizardInit DEF AllInit
<1>2. Inv /\ [AllNext]_vars => Inv'
  <2> SUFFICES ASSUME Inv, [AllNext]_vars, part' = "wizard" PROVE WizardSound'
    OBVIOUS
  <2>1. CASE part = "wizard" /\ Wz!Next
    BY <2>1, WizardNext
  <2>2. CASE UNCHANGED vars
    BY <2>2, WizardTurns DEF vars, xvars, running, isDone, isFailed, mine, at, doing, wire, cut, did
  <2>3. part = "wizard" => Wz!Next \/ UNCHANGED vars
    BY DEF AllNext
  <2>4. part = "wizard"
    BY DEF AllNext, Rest, vars
  <2> QED BY <2>1, <2>2, <2>3, <2>4
<1>3. Inv => Truthful
  BY WizardTells DEF Truthful
<1> QED BY <1>1, <1>2, <1>3, PTL DEF AllSpec


-----------------------------------------------------------------------------
(* Addresses and speed limits.                                             *)
cidr == x1
peers == x2
addr == x3
enabled == x4
limit == x5
class == x6
filters == x7
req == x8
again == x9
missed == x10
USE DEF cidr, peers, addr, enabled, limit, class, filters, req, again, missed

\* The place of a client in the order in which a new range is given away.
Before(R, c) == {d \in R : d < c}
Place(R, c)  == Cardinality(Before(R, c))

LEMMA Placed ==
    ASSUME NEW R \in SUBSET Nat, IsFiniteSet(R), NEW c \in R
    PROVE  /\ IsFiniteSet(Before(R, c))
           /\ Place(R, c) \in Nat /\ Place(R, c) < Cardinality(R)
           /\ Cardinality(R) \in Nat
<1>1. Before(R, c) \subseteq R /\ Before(R, c) # R
  BY DEF Before
<1>2. /\ IsFiniteSet(Before(R, c)) /\ Cardinality(Before(R, c)) <= Cardinality(R)
      /\ Cardinality(Before(R, c)) = Cardinality(R) => Before(R, c) = R
  BY <1>1, FS_Subset
<1>3. Cardinality(R) \in Nat /\ Cardinality(Before(R, c)) \in Nat
  BY <1>2, FS_CardinalityType
<1> QED BY <1>1, <1>2, <1>3 DEF Place

\* The order of the places is that of the ids.
LEMMA PlacesRise ==
    ASSUME NEW R \in SUBSET Nat, IsFiniteSet(R), NEW c \in R, NEW d \in R, c < d
    PROVE  Place(R, c) < Place(R, d)
<1>1. Before(R, c) \subseteq Before(R, d) /\ c \in Before(R, d) /\ c \notin Before(R, c)
  <2>1. c \in Nat /\ d \in Nat /\ \A x \in R : x \in Nat
    OBVIOUS
  <2>2. \A x \in R : x < c => x < d
    BY <2>1
  <2>3. Before(R, c) \subseteq Before(R, d)
    BY <2>2 DEF Before
  <2>4. c \in Before(R, d)
    BY DEF Before
  <2>5. ~(c < c)
    BY <2>1
  <2>6. c \notin Before(R, c)
    BY <2>5 DEF Before
  <2> QED BY <2>3, <2>4, <2>6
<1>2. IsFiniteSet(Before(R, d)) /\ Place(R, d) \in Nat /\ Place(R, c) \in Nat
  BY Placed
<1>3. Before(R, c) \in SUBSET Before(R, d)
  BY <1>1
<1>4. Cardinality(Before(R, c)) <= Cardinality(Before(R, d))
  BY <1>2, <1>3, FS_Subset
<1>5. Cardinality(Before(R, d)) = Cardinality(Before(R, c)) => Before(R, d) = Before(R, c)
  BY <1>2, <1>3, FS_Subset
<1> QED BY <1>1, <1>2, <1>4, <1>5 DEF Place

LEMMA PlacesDiffer ==
    ASSUME NEW R \in SUBSET Nat, IsFiniteSet(R), NEW c \in R, NEW d \in R,
           Place(R, c) = Place(R, d)
    PROVE  c = d
<1>1. c \in Nat /\ d \in Nat /\ Place(R, c) \in Nat
  BY Placed
<1>2. ~(c < d) /\ ~(d < c)
  BY <1>1, PlacesRise
<1> QED BY <1>1, <1>2

\* No place is left out: as many clients come before c as there are places.
LEMMA PlacesFull ==
    ASSUME NEW R \in SUBSET Nat, IsFiniteSet(R), NEW c \in R,
           NEW m \in Nat, m < Place(R, c)
    PROVE  \E d \in R : d < c /\ Place(R, d) = m
<1> DEFINE S == Before(R, c)
           n == Place(R, c)
           f == [d \in S |-> Place(R, d)]
<1>1. IsFiniteSet(S) /\ n \in Nat /\ n = Cardinality(S)
  BY Placed DEF Place
<1>2. \A d \in S : d \in R /\ d < c
  BY DEF Before
<1>3. IsFiniteSet(0 .. (n - 1)) /\ Cardinality(0 .. (n - 1)) = n
  <2>1. PICK k \in Int : k = n - 1
    BY <1>1
  <2>2. IsFiniteSet(0 .. k) /\ Cardinality(0 .. k) = IF 0 > k THEN 0 ELSE k - 0 + 1
    BY FS_Interval
  <2> QED BY <1>1, <2>1, <2>2
<1>4. f \in [S -> 0 .. (n - 1)]
  <2>1. ASSUME NEW d \in S PROVE Place(R, d) \in 0 .. (n - 1)
    <3>1. Place(R, d) \in Nat
      BY <1>2, Placed
    <3>2. Place(R, d) < n
      BY <1>2, PlacesRise
    <3> QED BY <1>1, <3>1, <3>2
  <2> QED BY <2>1
<1>5. \A d, e \in S : f[d] = f[e] => d = e
  BY <1>2, PlacesDiffer
<1>6. f \in Injection(S, 0 .. (n - 1))
  BY <1>4, <1>5 DEF Injection, IsInjective
<1>7. f \in Surjection(S, 0 .. (n - 1))
  <2>1. Cardinality(S) = Cardinality(0 .. (n - 1)) <=> f \in Surjection(S, 0 .. (n - 1))
    BY <1>3, <1>6, FS_Injection
  <2> QED BY <1>1, <1>3, <2>1
<1>8. m \in 0 .. (n - 1)
  BY <1>1
<1>9. PICK d \in S : f[d] = m
  BY <1>7, <1>8 DEF Surjection
<1> QED BY <1>2, <1>9

\* nextIP takes the first address that is free.
LEMMA FirstFree ==
    ASSUME NEW r \in Sh!Cidr, NEW T, Sh!Free(r, T) # {}
    PROVE  /\ Sh!nextIP(r, T) \in Sh!Gives(r) \ T
           /\ Sh!nextIP(r, T) \in Nat \ {0}
<1>1. Sh!Free(r, T) \in SUBSET Nat
  BY DEF Sh!Free, Sh!Gives, Sh!Cidr
<1>2. \E x \in Sh!Free(r, T) : \A y \in Sh!Free(r, T) : x <= y
  BY <1>1, Least
<1>3. Sh!nextIP(r, T) \in Sh!Free(r, T)
  BY <1>2 DEF Sh!nextIP
<1> QED BY <1>3 DEF Sh!Free, Sh!Gives, Sh!Cidr

\* What updateCidr gives away when the range is apart from the addresses in use:
\* the first address to the first client, the next one to the next.
InTurnOf(r, R) == [c \in R |-> r.start + 2 + Place(R, c)]

LEMMA GivenInTurn ==
    ASSUME NEW r \in Sh!Cidr, NEW R \in SUBSET Nat, IsFiniteSet(R),
           Cardinality(R) <= Cardinality(Sh!Gives(r)), NEW c \in R
    PROVE  InTurnOf(r, R)[c] = r.start + 2 + Place(R, c) /\ InTurnOf(r, R)[c] \in Sh!Gives(r)
<1>1. r.start \in Nat /\ r.end \in Nat
  BY DEF Sh!Cidr
<1>2. PICK a \in Int : a = r.start + 2
  BY <1>1
<1>3. PICK b \in Int : b = r.end - 1
  BY <1>1
<1>4. Cardinality(a .. b) = IF a > b THEN 0 ELSE b - a + 1
  BY FS_Interval
<1>5. Sh!Gives(r) = a .. b
  BY <1>2, <1>3 DEF Sh!Gives
<1>6. Place(R, c) \in Nat /\ Place(R, c) < Cardinality(R) /\ Cardinality(R) \in Nat
  BY Placed
<1>7. Place(R, c) < Cardinality(a .. b)
  BY <1>4, <1>5, <1>6
<1>8. a + Place(R, c) \in a .. b
  BY <1>4, <1>6, <1>7
<1> QED BY <1>2, <1>5, <1>8 DEF InTurnOf

LEMMA TurnIsNext ==
    ASSUME NEW r \in Sh!Cidr, NEW R \in SUBSET Nat, IsFiniteSet(R), NEW old,
           \A d \in R : old[d] \notin Sh!Gives(r),
           Cardinality(R) <= Cardinality(Sh!Gives(r)), NEW c \in R,
           NEW T, T = Sh!TakenFor(R, old, InTurnOf(r, R), c)
    PROVE  Sh!Free(r, T) # {} /\ InTurnOf(r, R)[c] = Sh!nextIP(r, T)
<1> DEFINE new == InTurnOf(r, R)
           G == Sh!Gives(r)
<1>1. \A d \in R : new[d] = r.start + 2 + Place(R, d) /\ new[d] \in G
  BY GivenInTurn
<1>2. r.start \in Nat /\ \A i \in G : i \in Int /\ r.start + 2 <= i
  BY DEF Sh!Cidr, Sh!Gives
<1>3. \A d \in R : Place(R, d) \in Nat /\ d \in Nat
  BY Placed
<1>4. \A t \in T : \E d \in R : t = IF d < c THEN new[d] ELSE old[d]
  BY DEF Sh!TakenFor
<1>5. new[c] \notin T
  <2> SUFFICES ASSUME NEW d \in R, new[c] = IF d < c THEN new[d] ELSE old[d] PROVE FALSE
    BY <1>4
  <2>1. CASE d < c
    <3>1. Place(R, d) < Place(R, c)
      BY <2>1, PlacesRise
    <3>2. new[d] # new[c]
      BY <1>1, <1>2, <1>3, <3>1
    <3> QED BY <2>1, <3>2
  <2>2. CASE ~(d < c)
    BY <1>1, <2>2
  <2> QED BY <2>1, <2>2
<1>6. ASSUME NEW i \in G, i \notin T PROVE new[c] <= i
  <2> SUFFICES ASSUME ~(new[c] <= i) PROVE FALSE
    OBVIOUS
  <2>1. PICK m \in Int : m = i - (r.start + 2)
    BY <1>2
  <2>2. m \in Nat /\ m < Place(R, c) /\ i = r.start + 2 + m
    BY <1>1, <1>2, <1>3, <2>1
  <2>3. PICK d \in R : d < c /\ Place(R, d) = m
    BY <2>2, PlacesFull
  <2>4. new[d] = i
    BY <1>1, <2>2, <2>3
  <2>5. new[d] \in T
    BY <2>3 DEF Sh!TakenFor
  <2> QED BY <1>6, <2>4, <2>5
<1>7. new[c] \in Sh!Free(r, T)
  BY <1>1, <1>5 DEF Sh!Free
<1>8. \A i \in Sh!Free(r, T) : new[c] <= i
  BY <1>6 DEF Sh!Free
<1>9. Sh!nextIP(r, T) \in Sh!Free(r, T) /\ \A j \in Sh!Free(r, T) : Sh!nextIP(r, T) <= j
  BY <1>7, <1>8 DEF Sh!nextIP
<1>10. new[c] <= Sh!nextIP(r, T) /\ Sh!nextIP(r, T) <= new[c]
  BY <1>7, <1>8, <1>9
<1>11. new[c] \in Int /\ Sh!nextIP(r, T) \in Int
  BY <1>2, <1>7, <1>9 DEF Sh!Free
<1> QED BY <1>7, <1>10, <1>11

LEMMA Renumbers ==
    ASSUME NEW r \in Sh!Cidr, NEW R \in SUBSET Nat, IsFiniteSet(R), NEW old,
           \A d \in R : old[d] \notin Sh!Gives(r),
           Cardinality(R) <= Cardinality(Sh!Gives(r))
    PROVE  \E new \in Sh!Moves(r, R, old) : Sh!Unique(R, new)
<1> DEFINE new == InTurnOf(r, R)
<1>1. new \in [R -> Sh!Gives(r)]
  <2>1. \A c \in R : new[c] \in Sh!Gives(r)
    BY GivenInTurn
  <2>2. new = [c \in R |-> new[c]]
    BY DEF InTurnOf
  <2> QED BY <2>1, <2>2
<1>2. \A c \in R : /\ Sh!Free(r, Sh!TakenFor(R, old, new, c)) # {}
                   /\ new[c] = Sh!nextIP(r, Sh!TakenFor(R, old, new, c))
  BY TurnIsNext
<1>3. new \in Sh!Moves(r, R, old)
  BY <1>1, <1>2 DEF Sh!Moves
<1>4. ASSUME NEW c \in R, NEW d \in R, new[c] = new[d] PROVE c = d
  <2>1. Place(R, c) \in Nat /\ Place(R, d) \in Nat /\ r.start \in Nat
    BY Placed DEF Sh!Cidr
  <2>2. new[c] = r.start + 2 + Place(R, c) /\ new[d] = r.start + 2 + Place(R, d)
    BY GivenInTurn
  <2>3. r.start + 2 + Place(R, c) = r.start + 2 + Place(R, d)
    BY <1>4, <2>2
  <2>4. Place(R, c) = Place(R, d)
    BY <2>1, <2>3
  <2> QED BY <2>4, PlacesDiffer
<1>5. Sh!Unique(R, new)
  BY <1>4 DEF Sh!Unique
<1> QED BY <1>3, <1>5

ShapingShape ==
  /\ cidr \in Cidrs
  /\ peers \subseteq Peers /\ IsFiniteSet(peers) /\ enabled \subseteq peers
  /\ addr \in [Peers -> Nat] /\ limit \in [Peers -> [Sh!Dirs -> Nat]]
  /\ class \in [Sh!Dirs -> [1 .. Slots -> Nat]]
  /\ filters \subseteq Sh!Filter /\ \A f \in filters : f.on # "ingress" => f.to # 0
  /\ req \in [Actors -> Sh!Request]
  /\ again \in Sh!Again /\ missed \subseteq Peers

\* What a request under way is about, step by step; a client that was looked up
\* in vain stays away.
RequestMakesSense(r) ==
  /\ r.at = "idle" => r.c = 0
  /\ r.at # "idle" => r.c \in Peers /\ addr[r.c] # 0
  /\ r.at \in {"applyDown", "applyUp"} => r.kind = "put"
  /\ r.at \in {"clearDown", "clearUp", "drop"} => r.kind # "put"
  /\ r.at \in {"read", "upsert"} => r.kind = "move"
  /\ r.at = "drop" /\ r.kind = "move" => r.c \notin peers

\* Nothing is known of a client that was never created.
Unborn(c) ==
  addr[c] = 0 =>
    /\ c \notin peers /\ limit[c] = Sh!Unlimited /\ c \notin again.todo
    /\ \A q \in Actors : req[q].c # c
    /\ \A f \in filters : f.to # Sh!classIdFor(c)

\* A direction with a limit has its filters and the rate; one without has no
\* filter of the client, whatever is left of the class.
OwnFilter(d, c) == [on |-> Sh!device(d), addr |-> addr[c], to |-> Sh!classIdFor(c)]
Ingress(c)      == [on |-> "ingress", addr |-> addr[c], to |-> 0]
OnRate(d, c) ==
  /\ OwnFilter(d, c) \in filters /\ class[d][Sh!classIdFor(c)] = limit[c][d]
  /\ d = "up" => Ingress(c) \in filters
NoFilter(d, c) == OwnFilter(d, c) \notin filters
Fits(d, c)     == IF limit[c][d] > 0 THEN OnRate(d, c) ELSE NoFilter(d, c)
Clear(c)       == \A d \in Sh!Dirs : limit[c][d] = 0 => NoFilter(d, c)

\* A client nothing is under way for.
Settles(c) == c \in peers \ missed /\ ~Sh!Busy(c) => \A d \in Sh!Dirs : Fits(d, c)

\* A client that waits for the loop and was left alone since the start.
Waits(c) ==
  c \in peers /\ c \in again.todo \intersect again.clean =>
    /\ again.lim[c] = limit[c] /\ again.addr[c] = addr[c]
    /\ \A q \in Actors : req[q].c # c
    /\ c \notin missed => Clear(c)

\* A request that runs alone on its client: what it read is still so, and the
\* kernel is as far as the request is.
InPlace(r, c) ==
  /\ r.at \in {"clearDown", "clearUp", "applyDown", "applyUp"} => r.addr = addr[c]
  /\ r.kind = "put" \/ (r.kind = "move" /\ r.at # "read") => r.lim = limit[c]
  /\ r.kind = "put" /\ c \notin missed => Clear(c)
  /\ r.at \in {"clearUp", "drop", "upsert"} => NoFilter("down", c)
  /\ r.at \in {"drop", "upsert"} => NoFilter("up", c)
  /\ r.at = "applyUp" /\ limit[c]["down"] > 0 => OnRate("down", c)
Runs(q) ==
  LET c == req[q].c IN
  req[q].at # "idle" /\ req[q].clean =>
    /\ c \notin again.todo
    /\ \A p \in Actors \ {q} : req[p].c # c
    /\ c \in peers => InPlace(req[q], c)

Ordered ==
  /\ \A q \in Actors : RequestMakesSense(req[q])
  /\ \A c \in Peers : Unborn(c)
InStep ==
  /\ \A c \in Peers : Settles(c) /\ Waits(c)
  /\ \A q \in Actors : Runs(q)

ShapingInv == ShapingShape /\ Ordered /\ InStep /\ Sh!OwnAddresses

\* The classes are numbered by the ids of the clients, modulo the number of slots:
\* until more ids than that were ever given away, each client has one of its own.
OwnClasses == \A c, d \in Peers : Sh!classIdFor(c) = Sh!classIdFor(d) => c = d

LEMMA ShapingFacts ==
  /\ Peers \subseteq Nat \ {0} /\ Cidrs \subseteq Sh!Cidr
  /\ Rates \subseteq [Sh!Dirs -> Nat] /\ Slots \in Nat \ {0}
  /\ \A c \in Peers : Sh!classIdFor(c) \in 1 .. Slots
  /\ Sh!Unlimited \in [Sh!Dirs -> Nat] /\ \A d \in Sh!Dirs : Sh!Unlimited[d] = 0
<1>1. /\ Peers \subseteq Nat \ {0} /\ Cidrs \subseteq Sh!Cidr
      /\ Rates \subseteq [Sh!Dirs -> Nat] /\ Slots \in Nat \ {0}
  BY MachinesAssumption DEF Sh!ShapingAssumption
<1>2. ASSUME NEW c \in Peers PROVE Sh!classIdFor(c) \in 1 .. Slots
  BY <1>1 DEF Sh!classIdFor
<1> QED BY <1>1, <1>2 DEF Sh!Unlimited

LEMMA IdleRequest ==
  /\ Sh!Idle \in Sh!Request /\ Sh!Idle.at = "idle" /\ Sh!Idle.c = 0
  /\ Sh!Idle.kind = "put" /\ Sh!Idle.lim = Sh!Unlimited /\ Sh!Idle.addr = 0
BY ShapingFacts DEF Sh!Idle, Sh!Request, Sh!Ats, Sh!Kinds

LEMMA ShapingInit == Sh!Init => ShapingInv
<1> SUFFICES ASSUME Sh!Init PROVE ShapingInv
  OBVIOUS
<1>1. req \in [Actors -> Sh!Request] /\ \A q \in Actors : req[q].at = "idle" /\ req[q].c = 0
  BY IdleRequest DEF Sh!Init
<1>2. Sh!Nobody \in Sh!Again /\ Sh!Nobody.todo = {}
  BY ShapingFacts DEF Sh!Nobody, Sh!Again
<1>3. class \in [Sh!Dirs -> [1 .. Slots -> Nat]]
  BY DEF Sh!Init
<1>4. limit \in [Peers -> [Sh!Dirs -> Nat]] /\ \A c \in Peers : limit[c] = Sh!Unlimited
  BY ShapingFacts DEF Sh!Init
<1>5. ShapingShape
  BY <1>1, <1>2, <1>3, <1>4, FS_EmptySet DEF Sh!Init, ShapingShape
<1>6. Ordered
  BY <1>1, <1>2, <1>4, ShapingFacts DEF Sh!Init, Ordered, RequestMakesSense, Unborn
<1>7. InStep
  BY <1>1, <1>2 DEF Sh!Init, InStep, Settles, Waits, Runs
<1>8. Sh!OwnAddresses
  BY DEF Sh!Init, Sh!OwnAddresses, Sh!Unique
<1> QED BY <1>5, <1>6, <1>7, <1>8 DEF ShapingInv

\* What the invariant says of a client is what the property asks for.
LEMMA ShapingKeeps ==
    ASSUME ShapingInv
    PROVE  Sh!Shaped
<1> SUFFICES ASSUME NEW c \in peers \ missed, ~Sh!Busy(c), ~Sh!Inherited(c), NEW d \in Sh!Dirs
             PROVE  Sh!ratesOf(d, addr[c]) = {limit[c][d]}
  BY DEF Sh!Shaped
<1> DEFINE k == Sh!classIdFor(c)
           S == Sh!sentTo(d, addr[c])
<1>1. c \in Peers /\ Fits(d, c)
  BY DEF ShapingInv, ShapingShape, InStep, Settles
<1>2. k \in 1 .. Slots /\ limit[c][d] \in Nat
  BY <1>1, ShapingFacts DEF ShapingInv, ShapingShape
<1>3. ASSUME NEW f \in filters, f.on = Sh!device(d), f.addr = addr[c]
      PROVE  f = OwnFilter(d, c)
  <2>1. f \in Sh!Filter /\ f.on # "ingress"
    BY <1>3 DEF ShapingInv, ShapingShape, Sh!device
  <2>2. f.to # 0
    BY <2>1 DEF ShapingInv, ShapingShape
  <2>3. f.to = k
    BY <1>3, <2>2 DEF Sh!Inherited
  <2>4. f = [on |-> f.on, addr |-> f.addr, to |-> f.to]
    BY <2>1 DEF Sh!Filter
  <2> QED BY <1>3, <2>3, <2>4 DEF OwnFilter
<1>4. OwnFilter(d, c).on = Sh!device(d) /\ OwnFilter(d, c).addr = addr[c] /\ OwnFilter(d, c).to = k
  BY DEF OwnFilter
<1>5. CASE limit[c][d] > 0
  <2>1. OwnFilter(d, c) \in filters /\ class[d][k] = limit[c][d]
    BY <1>1, <1>5 DEF Fits, OnRate
  <2>2. S = {k}
    BY <1>3, <1>4, <2>1 DEF Sh!sentTo
  <2>3. ~(d = "up" /\ [on |-> "ingress", addr |-> addr[c], to |-> 0] \notin filters)
    BY <1>1, <1>5 DEF Fits, OnRate, Ingress
  <2> QED BY <2>1, <2>2, <2>3 DEF Sh!ratesOf
<1>6. CASE ~(limit[c][d] > 0)
  <2>1. limit[c][d] = 0 /\ OwnFilter(d, c) \notin filters
    BY <1>1, <1>2, <1>6 DEF Fits, NoFilter
  <2>2. S = {}
    BY <1>3, <2>1 DEF Sh!sentTo
  <2> QED BY <2>1, <2>2 DEF Sh!ratesOf
<1> QED BY <1>5, <1>6

\* A request goes on as before; only whether it runs alone may have changed.
Stays(p) ==
  /\ req'[p].at = req[p].at /\ req'[p].kind = req[p].kind /\ req'[p].c = req[p].c
  /\ req'[p].lim = req[p].lim /\ req'[p].addr = req[p].addr
  /\ req'[p].clean => req[p].clean

LEMMA GoesTo ==
    ASSUME ShapingShape, NEW q \in Actors, NEW new \in Sh!Request, Sh!Go(q, new)
    PROVE  /\ req' \in [Actors -> Sh!Request] /\ req'[q] = new
           /\ \A p \in Actors \ {q} : req'[p] = req[p] /\ Stays(p)
BY DEF ShapingShape, Sh!Go, Stays

LEMMA Disturbances ==
    ASSUME ShapingShape, NEW C, NEW p \in Actors,
           NEW D, D = Sh!Disturbed(C)
    PROVE  /\ D[p] \in Sh!Request
           /\ D[p].at = req[p].at /\ D[p].kind = req[p].kind /\ D[p].c = req[p].c
           /\ D[p].lim = req[p].lim /\ D[p].addr = req[p].addr
           /\ D[p].clean => req[p].clean /\ req[p].c \notin C
<1>1. PICK old \in Sh!Request : old = req[p]
  BY DEF ShapingShape
<1>2. PICK b \in BOOLEAN : b <=> old.clean /\ old.c \notin C
  OBVIOUS
<1>3. PICK new : new = [old EXCEPT !.clean = b]
  OBVIOUS
<1>4. /\ new \in Sh!Request
      /\ new.at = old.at /\ new.kind = old.kind /\ new.c = old.c
      /\ new.lim = old.lim /\ new.addr = old.addr /\ new.clean = b
  BY <1>1, <1>3 DEF Sh!Request
<1>5. (old.clean /\ old.c \notin C) = b
  BY <1>1, <1>2 DEF Sh!Request
<1>6. D[p] = [req[p] EXCEPT !.clean = (req[p].clean /\ req[p].c \notin C)]
  BY DEF Sh!Disturbed
<1>7. D[p] = new
  BY <1>1, <1>3, <1>5, <1>6
<1> QED BY <1>1, <1>2, <1>4, <1>7

\* The filters that a limit adds, and those that a clear leaves.
FiltersTyped(W) ==
  W \subseteq Sh!Filter /\ \A f \in W : f.on # "ingress" => f.to # 0
AddsOnly(W, d, c, a, rate) ==
  \A f \in W \ filters :
    /\ rate > 0 /\ f.addr = a
    /\ \/ f.on = Sh!device(d) /\ f.to = Sh!classIdFor(c)
       \/ f.on = "ingress" /\ f.to = 0
Adds(W, d, c, a, rate) ==
  /\ filters \subseteq W
  /\ rate > 0 => [on |-> Sh!device(d), addr |-> a, to |-> Sh!classIdFor(c)] \in W
  /\ rate > 0 /\ d = "up" => [on |-> "ingress", addr |-> a, to |-> 0] \in W

LEMMA AddedFilters ==
    ASSUME ShapingShape, NEW d \in Sh!Dirs, NEW c \in Peers, NEW a \in Nat, NEW rate \in Nat,
           NEW W, W = Sh!WithFilters(d, a, Sh!classIdFor(c), rate)
    PROVE  FiltersTyped(W) /\ AddsOnly(W, d, c, a, rate) /\ Adds(W, d, c, a, rate)
<1> DEFINE k == Sh!classIdFor(c)
           A == [on : {Sh!device(d)}, addr : {a}, to : {k}]
           B == [on : {"ingress"}, addr : {a}, to : {0}]
<1>1. k \in 1 .. Slots /\ Slots \in Nat
  BY ShapingFacts
<1>2. Sh!device(d) \in {"wg0", "ifb"}
  BY DEF Sh!device
<1>3. W = filters \union {f \in A \union B : rate > 0 /\ (f.on = "ingress" => d = "up")}
  BY DEF Sh!WithFilters
<1>4. \A f \in A : f \in Sh!Filter /\ f.on = Sh!device(d) /\ f.addr = a /\ f.to = k /\ f.to # 0
  BY <1>1, <1>2 DEF Sh!Filter
<1>5. \A f \in B : f \in Sh!Filter /\ f.on = "ingress" /\ f.addr = a /\ f.to = 0
  BY <1>1 DEF Sh!Filter
<1>6. filters \subseteq W /\ W \subseteq Sh!Filter
  BY <1>3, <1>4, <1>5 DEF ShapingShape
<1>7. \A f \in W : f.on # "ingress" => f.to # 0
  BY <1>3, <1>4, <1>5 DEF ShapingShape
<1>8. \A f \in W \ filters : rate > 0 /\ (f \in A \/ f \in B)
  BY <1>3
<1>9. rate > 0 => [on |-> Sh!device(d), addr |-> a, to |-> k] \in W
  <2>1. PICK f : f = [on |-> Sh!device(d), addr |-> a, to |-> k]
    OBVIOUS
  <2>2. f \in A /\ f.on # "ingress"
    BY <1>2, <2>1
  <2> QED BY <1>3, <2>1, <2>2
<1>10. rate > 0 /\ d = "up" => [on |-> "ingress", addr |-> a, to |-> 0] \in W
  <2>1. PICK f : f = [on |-> "ingress", addr |-> a, to |-> 0]
    OBVIOUS
  <2>2. f \in B
    BY <2>1
  <2> QED BY <1>3, <2>1, <2>2
<1>11. FiltersTyped(W)
  BY <1>6, <1>7 DEF FiltersTyped
<1>12. AddsOnly(W, d, c, a, rate)
  BY <1>4, <1>5, <1>8 DEF AddsOnly
<1>13. Adds(W, d, c, a, rate)
  BY <1>6, <1>9, <1>10 DEF Adds
<1> QED BY <1>11, <1>12, <1>13

LEMMA KeptFilters ==
    ASSUME NEW d \in Sh!Dirs, NEW a
    PROVE  /\ Sh!Kept(d, a) \subseteq filters
           /\ \A f \in filters : f.addr # a => f \in Sh!Kept(d, a)
           /\ \A f \in filters : f.on \notin {Sh!device(d), "ingress"} => f \in Sh!Kept(d, a)
           /\ \A f \in filters : d = "down" /\ f.on # Sh!device(d) => f \in Sh!Kept(d, a)
           /\ \A f \in Sh!Kept(d, a) : f.addr = a => f.on # Sh!device(d)
BY DEF Sh!Kept

\* What a step on another client leaves alone.
SameRow(c) ==
  /\ limit'[c] = limit[c] /\ addr'[c] = addr[c]
  /\ c \in peers' => c \in peers
  /\ c \in missed => c \in missed'
SameLoop(c) ==
  /\ c \in again'.todo <=> c \in again.todo
  /\ c \in again'.todo /\ c \in again'.clean => c \in again.clean
  /\ again'.lim[c] = again.lim[c] /\ again'.addr[c] = again.addr[c]
SameRequests(c) ==
  \A p \in Actors : req[p].c = c \/ req'[p].c = c => Stays(p)
KernelKeeps(c) ==
  \A d \in Sh!Dirs :
    /\ NoFilter(d, c) => NoFilter(d, c)'
    /\ limit[c][d] > 0 /\ OnRate(d, c) => OnRate(d, c)'

\* Or the step takes its filters away, and everybody knows.
Struck(c) ==
  c \in missed' /\ \A p \in Actors : req'[p].c = c => ~req'[p].clean

LEMMA Bystander ==
    ASSUME InStep, ShapingShape, NEW c \in Peers, SameRow(c), SameLoop(c), SameRequests(c),
           c \in peers => KernelKeeps(c) \/ Struck(c)
    PROVE  /\ Settles(c)' /\ Waits(c)'
           /\ \A p \in Actors : req'[p].c = c => Runs(p)'
<1>1. Settles(c)'
  <2> SUFFICES ASSUME c \in peers', c \notin missed', ~Sh!Busy(c)', NEW d \in Sh!Dirs
               PROVE  Fits(d, c)'
    BY DEF Settles
  <2>1. KernelKeeps(c)
    BY DEF Struck, SameRow
  <2>2. \A p \in Actors : req[p].c # c
    BY DEF SameRequests, Stays, Sh!Busy
  <2>3. ~Sh!Busy(c)
    BY <2>2 DEF Sh!Busy, SameLoop
  <2>4. Fits(d, c)
    BY <2>3 DEF SameRow, InStep, Settles
  <2> QED BY <2>1, <2>4 DEF Fits, SameRow, KernelKeeps
<1>2. Waits(c)'
  <2> SUFFICES ASSUME c \in peers', c \in again'.todo, c \in again'.clean
               PROVE  /\ again'.lim[c] = limit'[c] /\ again'.addr[c] = addr'[c]
                      /\ \A q \in Actors : req'[q].c # c
                      /\ c \notin missed' => Clear(c)'
    BY DEF Waits
  <2>1. /\ again.lim[c] = limit[c] /\ again.addr[c] = addr[c]
        /\ \A q \in Actors : req[q].c # c
        /\ c \notin missed => Clear(c)
    BY DEF InStep, Waits, SameRow, SameLoop
  <2>2. \A q \in Actors : req'[q].c # c
    BY <2>1 DEF SameRequests, Stays
  <2>3. c \notin missed' => Clear(c)'
    BY <2>1 DEF SameRow, Struck, KernelKeeps, Clear
  <2> QED BY <2>1, <2>2, <2>3 DEF SameRow, SameLoop
<1>3. ASSUME NEW p \in Actors, req'[p].c = c PROVE Runs(p)'
  <2>1. Stays(p) /\ req[p].c = c
    BY <1>3 DEF SameRequests, Stays
  <2> SUFFICES ASSUME req'[p].at # "idle", req'[p].clean PROVE Runs(p)'
    BY DEF Runs
  <2>2. Runs(p) /\ req[p].at # "idle" /\ req[p].clean
    BY <2>1 DEF InStep, Stays
  <2>3. c \notin again'.todo
    BY <2>1, <2>2 DEF Runs, SameLoop
  <2>4. \A o \in Actors \ {p} : req'[o].c # c
    BY <2>1, <2>2 DEF Runs, SameRequests, Stays
  <2> SUFFICES ASSUME c \in peers'
      PROVE  /\ req'[p].at \in {"clearDown", "clearUp", "applyDown", "applyUp"} => req'[p].addr = addr'[c]
             /\ req'[p].kind = "put" \/ (req'[p].kind = "move" /\ req'[p].at # "read")
                => req'[p].lim = limit'[c]
             /\ req'[p].kind = "put" /\ c \notin missed' => Clear(c)'
             /\ req'[p].at \in {"clearUp", "drop", "upsert"} => NoFilter("down", c)'
             /\ req'[p].at \in {"drop", "upsert"} => NoFilter("up", c)'
             /\ req'[p].at = "applyUp" /\ limit'[c]["down"] > 0 => OnRate("down", c)'
    BY <1>3, <2>3, <2>4 DEF Runs, InPlace
  <2>5. KernelKeeps(c)
    BY <1>3 DEF Struck, SameRow
  <2>6. c \in peers /\ limit'[c] = limit[c] /\ addr'[c] = addr[c] /\ (c \in missed => c \in missed')
    BY DEF SameRow
  <2>7. "down" \in Sh!Dirs /\ "up" \in Sh!Dirs
    BY DEF Sh!Dirs
  <2>8. /\ req'[p].at \in {"clearDown", "clearUp", "applyDown", "applyUp"} => req'[p].addr = addr'[c]
        /\ req'[p].kind = "put" \/ (req'[p].kind = "move" /\ req'[p].at # "read")
           => req'[p].lim = limit'[c]
    BY <2>1, <2>2, <2>6 DEF Runs, InPlace, Stays
  <2>9. req'[p].kind = "put" /\ c \notin missed' => Clear(c)'
    <3>1. req'[p].kind = "put" /\ c \notin missed' => Clear(c)
      BY <2>1, <2>2, <2>6 DEF Runs, InPlace, Stays
    <3> QED BY <3>1, <2>5, <2>6 DEF Clear, KernelKeeps
  <2>10. /\ req'[p].at \in {"clearUp", "drop", "upsert"} => NoFilter("down", c)
         /\ req'[p].at \in {"drop", "upsert"} => NoFilter("up", c)
         /\ req'[p].at = "applyUp" /\ limit'[c]["down"] > 0 => OnRate("down", c)
    BY <2>1, <2>2, <2>6 DEF Runs, InPlace, Stays
  <2>11. req'[p].at = "applyUp" /\ limit'[c]["down"] > 0 => OnRate("down", c)'
    BY <2>5, <2>6, <2>7, <2>10 DEF KernelKeeps
  <2>12. /\ req'[p].at \in {"clearUp", "drop", "upsert"} => NoFilter("down", c)'
         /\ req'[p].at \in {"drop", "upsert"} => NoFilter("up", c)'
    BY <2>5, <2>7, <2>10 DEF KernelKeeps
  <2> QED BY <2>8, <2>9, <2>11, <2>12
<1> QED BY <1>1, <1>2, <1>3

\* The kernel is not touched.
LEMMA KernelIdle ==
    ASSUME NEW c \in Peers, limit'[c] = limit[c], addr'[c] = addr[c],
           class' = class, filters' = filters
    PROVE  KernelKeeps(c)
BY DEF KernelKeeps, NoFilter, OnRate, OwnFilter, Ingress

LEMMA Devices ==
  /\ Sh!device("down") = "wg0" /\ Sh!device("up") = "ifb"
  /\ \A d \in Sh!Dirs : d = "down" \/ d = "up"
  /\ "down" \in Sh!Dirs /\ "up" \in Sh!Dirs
BY DEF Sh!device, Sh!Dirs

LEMMA OwnFields ==
    ASSUME ShapingShape, NEW c \in Peers, NEW d \in Sh!Dirs
    PROVE  /\ OwnFilter(d, c).on = Sh!device(d) /\ OwnFilter(d, c).addr = addr[c]
           /\ OwnFilter(d, c).to = Sh!classIdFor(c)
           /\ OwnFilter(d, c).on # "ingress" /\ OwnFilter(d, c).to # 0
           /\ Ingress(c).on = "ingress" /\ Ingress(c).addr = addr[c] /\ Ingress(c).to = 0
<1>1. Sh!classIdFor(c) \in 1 .. Slots /\ Slots \in Nat
  BY ShapingFacts
<1> QED BY <1>1, Devices DEF OwnFilter, Ingress

\* A class that is set, in place of one number.
RateIs(W, d, k, rate) ==
  /\ W \in [Sh!Dirs -> [1 .. Slots -> Nat]] /\ W[d][k] = rate
  /\ \A e \in Sh!Dirs, j \in 1 .. Slots : e # d \/ j # k => W[e][j] = class[e][j]
LEMMA RateSet ==
    ASSUME ShapingShape, NEW d \in Sh!Dirs, NEW k \in 1 .. Slots, NEW rate \in Nat,
           NEW W, W = [class EXCEPT ![d][k] = rate]
    PROVE  RateIs(W, d, k, rate)
BY DEF ShapingShape, RateIs

\* What setting a limit does to the kernel.
ShapedOnly(d, c, rate) ==
  /\ class' \in [Sh!Dirs -> [1 .. Slots -> Nat]]
  /\ rate > 0 => class'[d][Sh!classIdFor(c)] = rate
  /\ \A e \in Sh!Dirs, j \in 1 .. Slots :
       e # d \/ j # Sh!classIdFor(c) => class'[e][j] = class[e][j]

LEMMA ShapeSets ==
    ASSUME ShapingShape, NEW c \in Peers, NEW d \in Sh!Dirs, NEW a \in Nat, NEW rate \in Nat,
           Sh!Shape(d, c, a, rate)
    PROVE  /\ ShapedOnly(d, c, rate) /\ FiltersTyped(filters')
           /\ AddsOnly(filters', d, c, a, rate) /\ Adds(filters', d, c, a, rate)
<1>1. Sh!classIdFor(c) \in 1 .. Slots
  BY ShapingFacts
<1>2. filters' = Sh!WithFilters(d, a, Sh!classIdFor(c), rate)
  BY DEF Sh!Shape
<1>3. FiltersTyped(filters') /\ AddsOnly(filters', d, c, a, rate) /\ Adds(filters', d, c, a, rate)
  BY <1>2, AddedFilters
<1>4. class' = IF rate = 0 THEN class ELSE [class EXCEPT ![d][Sh!classIdFor(c)] = rate]
  BY DEF Sh!Shape, Sh!WithClass
<1>5. CASE rate = 0
  BY <1>3, <1>4, <1>5 DEF ShapingShape, ShapedOnly
<1>6. CASE rate # 0
  <2>1. RateIs(class', d, Sh!classIdFor(c), rate)
    BY <1>1, <1>4, <1>6, RateSet
  <2> QED BY <1>3, <2>1 DEF RateIs, ShapedOnly
<1> QED BY <1>5, <1>6

\* A limit on one client leaves the others theirs: their classes and filters are
\* of their own.
LEMMA ShapesOthers ==
    ASSUME ShapingShape, OwnClasses, NEW c0 \in Peers, NEW d0 \in Sh!Dirs, NEW a \in Nat,
           NEW rate \in Nat, Sh!Shape(d0, c0, a, rate),
           NEW c \in Peers \ {c0}, limit'[c] = limit[c], addr'[c] = addr[c]
    PROVE  KernelKeeps(c)
<1>1. Sh!classIdFor(c) \in 1 .. Slots /\ Sh!classIdFor(c) # Sh!classIdFor(c0)
  BY ShapingFacts DEF OwnClasses
<1>2. \A d \in Sh!Dirs : class'[d][Sh!classIdFor(c)] = class[d][Sh!classIdFor(c)]
  BY <1>1, ShapeSets DEF ShapedOnly
<1>3. filters \subseteq filters'
  BY ShapeSets DEF Adds
<1>4. \A f \in filters' \ filters : f.to = Sh!classIdFor(c0) \/ f.on = "ingress"
  BY ShapeSets DEF AddsOnly
<1>5. \A d \in Sh!Dirs : OwnFilter(d, c)' = OwnFilter(d, c) /\ Ingress(c)' = Ingress(c)
  BY DEF OwnFilter, Ingress
<1>6. ASSUME NEW d \in Sh!Dirs, NoFilter(d, c) PROVE NoFilter(d, c)'
  BY <1>1, <1>4, <1>5, <1>6, OwnFields DEF NoFilter
<1>7. ASSUME NEW d \in Sh!Dirs, OnRate(d, c) PROVE OnRate(d, c)'
  BY <1>2, <1>3, <1>5, <1>7 DEF OnRate
<1> QED BY <1>6, <1>7 DEF KernelKeeps

\* The limit itself, and the other direction.
LEMMA ShapesMine ==
    ASSUME ShapingShape, NEW c \in Peers, NEW d \in Sh!Dirs,
           Sh!Shape(d, c, addr[c], limit[c][d]), limit'[c] = limit[c], addr'[c] = addr[c]
    PROVE  /\ limit[c][d] > 0 => OnRate(d, c)'
           /\ \A e \in Sh!Dirs \ {d} : /\ NoFilter(e, c) => NoFilter(e, c)'
                                       /\ OnRate(e, c) => OnRate(e, c)'
           /\ limit[c][d] = 0 /\ NoFilter(d, c) => NoFilter(d, c)'
<1> DEFINE k == Sh!classIdFor(c)
           a == addr[c]
           rate == limit[c][d]
<1>0. a \in Nat /\ rate \in Nat /\ k \in 1 .. Slots
  BY ShapingFacts DEF ShapingShape
<1> HIDE DEF a, rate
<1>1. Sh!Shape(d, c, a, rate)
  BY DEF a, rate
<1>2. ShapedOnly(d, c, rate) /\ AddsOnly(filters', d, c, a, rate) /\ Adds(filters', d, c, a, rate)
  BY <1>0, <1>1, ShapeSets
<1>3. /\ rate > 0 => class'[d][k] = rate
      /\ \A e \in Sh!Dirs \ {d} : class'[e][k] = class[e][k]
  BY <1>0, <1>2 DEF ShapedOnly
<1>4. \A e \in Sh!Dirs : OwnFilter(e, c)' = OwnFilter(e, c) /\ Ingress(c)' = Ingress(c)
  BY DEF OwnFilter, Ingress
<1>5. ASSUME rate > 0 PROVE OnRate(d, c)'
  <2>1. OwnFilter(d, c) = [on |-> Sh!device(d), addr |-> a, to |-> k]
    BY DEF OwnFilter, a
  <2>2. Ingress(c) = [on |-> "ingress", addr |-> a, to |-> 0]
    BY DEF Ingress, a
  <2>3. OwnFilter(d, c) \in filters' /\ (d = "up" => Ingress(c) \in filters')
    BY <1>2, <1>5, <2>1, <2>2 DEF Adds
  <2>4. limit'[c][d] = rate
    BY DEF rate
  <2> QED BY <1>3, <1>4, <1>5, <2>3, <2>4 DEF OnRate
<1>6. ASSUME NEW e \in Sh!Dirs, e # d, NoFilter(e, c) PROVE NoFilter(e, c)'
  <2>1. Sh!device(e) # Sh!device(d)
    BY <1>6, Devices
  <2> QED BY <1>2, <1>4, <1>6, <2>1, OwnFields DEF NoFilter, AddsOnly
<1>7. ASSUME NEW e \in Sh!Dirs, e # d, OnRate(e, c) PROVE OnRate(e, c)'
  BY <1>2, <1>3, <1>4, <1>7 DEF OnRate, Adds
<1>8. ASSUME rate = 0, NoFilter(d, c) PROVE NoFilter(d, c)'
  BY <1>2, <1>4, <1>8 DEF NoFilter, AddsOnly
<1> QED BY <1>5, <1>6, <1>7, <1>8 DEF rate

\* What a clear does to the kernel.
ClearedOnly(d, c, a) ==
  /\ class' \in [Sh!Dirs -> [1 .. Slots -> Nat]]
  /\ \A e \in Sh!Dirs, j \in 1 .. Slots :
       e # d \/ j # Sh!classIdFor(c) => class'[e][j] = class[e][j]
  /\ filters' \subseteq filters
  /\ \A f \in filters : f.addr # a => f \in filters'
  /\ \A f \in filters' : f.addr = a => f.on # Sh!device(d)

LEMMA UnshapeClears ==
    ASSUME ShapingShape, NEW c \in Peers, NEW d \in Sh!Dirs, NEW a, Sh!Unshape(d, c, a)
    PROVE  ClearedOnly(d, c, a)
<1>1. Sh!classIdFor(c) \in 1 .. Slots
  BY ShapingFacts
<1>2. /\ filters' \subseteq filters
      /\ \A f \in filters : f.addr # a => f \in filters'
      /\ \A f \in filters' : f.addr = a => f.on # Sh!device(d)
  BY KeptFilters DEF Sh!Unshape
<1>3. class' = class \/ class' = [class EXCEPT ![d][Sh!classIdFor(c)] = 0]
  BY DEF Sh!Unshape
<1>4. CASE class' = class
  BY <1>2, <1>4 DEF ShapingShape, ClearedOnly
<1>5. CASE class' = [class EXCEPT ![d][Sh!classIdFor(c)] = 0]
  <2>1. RateIs(class', d, Sh!classIdFor(c), 0)
    BY <1>1, <1>5, RateSet
  <2> QED BY <1>2, <2>1 DEF RateIs, ClearedOnly
<1> QED BY <1>3, <1>4, <1>5

\* A clear leaves the others theirs, but for a limited client at the address.
LEMMA ClearsOthers ==
    ASSUME ShapingShape, OwnClasses, NEW c0 \in Peers, NEW d0 \in Sh!Dirs, NEW a,
           ClearedOnly(d0, c0, a),
           NEW c \in Peers \ {c0}, limit'[c] = limit[c], addr'[c] = addr[c],
           addr[c] # a \/ limit[c] = Sh!Unlimited
    PROVE  KernelKeeps(c)
<1>1. Sh!classIdFor(c) \in 1 .. Slots /\ Sh!classIdFor(c) # Sh!classIdFor(c0)
  BY ShapingFacts DEF OwnClasses
<1>2. \A d \in Sh!Dirs : class'[d][Sh!classIdFor(c)] = class[d][Sh!classIdFor(c)]
  BY <1>1 DEF ClearedOnly
<1>3. \A d \in Sh!Dirs : OwnFilter(d, c)' = OwnFilter(d, c) /\ Ingress(c)' = Ingress(c)
  BY DEF OwnFilter, Ingress
<1>4. ASSUME NEW d \in Sh!Dirs, NoFilter(d, c) PROVE NoFilter(d, c)'
  BY <1>3, <1>4 DEF NoFilter, ClearedOnly
<1>5. ASSUME NEW d \in Sh!Dirs, limit[c][d] > 0, OnRate(d, c) PROVE OnRate(d, c)'
  <2>1. addr[c] # a
    BY <1>5, ShapingFacts
  <2>2. OwnFilter(d, c) \in filters' /\ (d = "up" => Ingress(c) \in filters')
    BY <1>5, <2>1, OwnFields DEF OnRate, ClearedOnly
  <2> QED BY <1>2, <1>3, <1>5, <2>2 DEF OnRate
<1> QED BY <1>4, <1>5 DEF KernelKeeps

LEMMA ClearsMine ==
    ASSUME ShapingShape, NEW c \in Peers, NEW d \in Sh!Dirs,
           ClearedOnly(d, c, addr[c]), addr'[c] = addr[c]
    PROVE  /\ NoFilter(d, c)'
           /\ \A e \in Sh!Dirs : NoFilter(e, c) => NoFilter(e, c)'
<1>1. \A e \in Sh!Dirs : OwnFilter(e, c)' = OwnFilter(e, c)
  BY DEF OwnFilter
<1>2. OwnFilter(d, c) \notin filters'
  BY OwnFields DEF ClearedOnly
<1> QED BY <1>1, <1>2 DEF NoFilter, ClearedOnly

\* A step of a request, which no other client notices.
ServesOnly(q) ==
  /\ req[q].at # "idle"
  /\ UNCHANGED <<cidr, peers, addr, enabled, again>>
  /\ \A p \in Actors \ {q} : Stays(p)
  /\ req'[q].c = req[q].c \/ req'[q].c = 0
  /\ \A c \in Peers \ {req[q].c} : limit'[c] = limit[c] /\ (c \in missed => c \in missed')

LEMMA ServesInOrder ==
    ASSUME ShapingShape, Ordered, OwnClasses, NEW q \in Actors, ServesOnly(q),
           RequestMakesSense(req[q])',
           \A f \in filters' \ filters : f.to = 0 \/ f.to = Sh!classIdFor(req[q].c)
    PROVE  Ordered'
<1> DEFINE c0 == req[q].c
<1>1. c0 \in Peers /\ addr[c0] # 0
  BY DEF Ordered, RequestMakesSense, ServesOnly
<1>2. ASSUME NEW p \in Actors PROVE RequestMakesSense(req[p])'
  <2>1. CASE p = q
    BY <2>1
  <2>2. CASE p # q
    <3>1. RequestMakesSense(req[p]) /\ Stays(p) /\ peers' = peers /\ addr' = addr
      BY <2>2 DEF Ordered, ServesOnly
    <3> QED BY <3>1 DEF RequestMakesSense, Stays
  <2> QED BY <2>1, <2>2
<1>3. ASSUME NEW c \in Peers, addr'[c] = 0
      PROVE  /\ c \notin peers' /\ limit'[c] = Sh!Unlimited /\ c \notin again'.todo
             /\ \A p \in Actors : req'[p].c # c
             /\ \A f \in filters' : f.to # Sh!classIdFor(c)
  <2>1. /\ c \notin peers /\ limit[c] = Sh!Unlimited /\ c \notin again.todo
        /\ \A p \in Actors : req[p].c # c
        /\ \A f \in filters : f.to # Sh!classIdFor(c)
    BY <1>3 DEF Ordered, Unborn, ServesOnly
  <2>2. c # c0
    BY <1>1, <1>3 DEF ServesOnly
  <2>3. c \notin peers' /\ limit'[c] = Sh!Unlimited /\ c \notin again'.todo
    BY <2>1, <2>2 DEF ServesOnly
  <2>4. c # 0 /\ Sh!classIdFor(c) # 0 /\ Sh!classIdFor(c) # Sh!classIdFor(c0)
    BY <1>1, <2>2, ShapingFacts DEF OwnClasses
  <2>5. \A p \in Actors : req'[p].c # c
    BY <2>1, <2>2, <2>4 DEF ServesOnly, Stays
  <2>6. \A f \in filters' : f.to # Sh!classIdFor(c)
    BY <2>1, <2>4
  <2> QED BY <2>3, <2>5, <2>6
<1> QED BY <1>2, <1>3 DEF Ordered, Unborn

LEMMA ServesInStep ==
    ASSUME ShapingShape, Ordered, InStep, NEW q \in Actors, ServesOnly(q),
           NEW c0, c0 = req[q].c,
           \A c \in peers \ {c0} : KernelKeeps(c) \/ Struck(c),
           \/ req'[q].c = c0 /\ Runs(q)'
           \/ req'[q].at = "idle" /\ Settles(c0)'
    PROVE  InStep'
<1>1. c0 \in Peers /\ c0 = req[q].c /\ c0 # 0
  BY ShapingFacts DEF Ordered, RequestMakesSense, ServesOnly
<1>2. ASSUME NEW c \in Peers \ {c0}
      PROVE  /\ Settles(c)' /\ Waits(c)'
             /\ \A p \in Actors : req'[p].c = c => Runs(p)'
  <2>1. SameRow(c) /\ SameLoop(c)
    BY <1>1 DEF ServesOnly, SameRow, SameLoop
  <2>2. SameRequests(c)
    BY <1>1, ShapingFacts DEF ServesOnly, SameRequests
  <2> QED BY <1>1, <2>1, <2>2, Bystander
<1>3. Settles(c0)'
  <2>1. CASE req'[q].c = c0
    BY <2>1 DEF Settles, Sh!Busy
  <2>2. CASE req'[q].c # c0
    BY <1>1, <2>2
  <2> QED BY <2>1, <2>2
<1>4. Waits(c0)'
  <2>1. ~(c0 \in peers /\ c0 \in again.todo \intersect again.clean)
    BY <1>1 DEF InStep, Waits
  <2>2. peers' = peers /\ again' = again
    BY DEF ServesOnly
  <2> QED BY <2>1, <2>2 DEF Waits
<1>5. ASSUME NEW p \in Actors PROVE Runs(p)'
  <2>1. CASE p = q
    BY <2>1 DEF Runs
  <2>2. CASE p # q
    <3>1. Stays(p)
      BY <2>2 DEF ServesOnly
    <3> SUFFICES ASSUME req'[p].at # "idle", req'[p].clean PROVE Runs(p)'
      BY DEF Runs
    <3>2. req[p].at # "idle" /\ req[p].clean /\ req[p].c \in Peers /\ req'[p].c = req[p].c
      BY <3>1 DEF Stays, Ordered, RequestMakesSense
    <3>3. CASE req[p].c = c0
      <4>1. req[q].c # c0
        BY <2>2, <3>2, <3>3 DEF InStep, Runs
      <4> QED BY <1>1, <4>1
    <3>4. CASE req[p].c # c0
      BY <1>2, <3>2, <3>4
    <3> QED BY <3>3, <3>4
  <2> QED BY <2>1, <2>2
<1> QED BY <1>2, <1>3, <1>4, <1>5 DEF InStep

\* The types, when a request goes on.
LEMMA ServesTyped ==
    ASSUME ShapingShape, NEW q \in Actors, ServesOnly(q),
           req' \in [Actors -> Sh!Request], limit' \in [Peers -> [Sh!Dirs -> Nat]],
           class' \in [Sh!Dirs -> [1 .. Slots -> Nat]], FiltersTyped(filters'),
           missed' \subseteq Peers
    PROVE  ShapingShape'
BY DEF ShapingShape, ServesOnly, FiltersTyped

LEMMA ServesSound ==
    ASSUME ShapingInv, OwnClasses, NEW q \in Actors, ServesOnly(q),
           NEW c0, c0 = req[q].c,
           req' \in [Actors -> Sh!Request], limit' \in [Peers -> [Sh!Dirs -> Nat]],
           class' \in [Sh!Dirs -> [1 .. Slots -> Nat]], FiltersTyped(filters'),
           missed' \subseteq Peers,
           RequestMakesSense(req[q])',
           \A f \in filters' \ filters : f.to = 0 \/ f.to = Sh!classIdFor(c0),
           \A c \in peers \ {c0} : KernelKeeps(c) \/ Struck(c),
           \/ req'[q].c = c0 /\ Runs(q)'
           \/ req'[q].at = "idle" /\ Settles(c0)'
    PROVE  ShapingInv'
<1>1. ShapingShape /\ Ordered /\ InStep /\ Sh!OwnAddresses
  BY DEF ShapingInv
<1>2. ShapingShape'
  BY <1>1, ServesTyped
<1>3. Ordered'
  BY <1>1, ServesInOrder
<1>4. InStep'
  BY <1>1, ServesInStep
<1>5. Sh!OwnAddresses'
  BY <1>1 DEF ServesOnly, Sh!OwnAddresses, Sh!Unique, Sh!Within
<1> QED BY <1>2, <1>3, <1>4, <1>5 DEF ShapingInv

\* The kernel is left alone.
LEMMA KernelLeft ==
    ASSUME ShapingShape, NEW q \in Actors, ServesOnly(q), class' = class, filters' = filters
    PROVE  /\ class' \in [Sh!Dirs -> [1 .. Slots -> Nat]] /\ FiltersTyped(filters')
           /\ \A f \in filters' \ filters : f.to = 0 \/ f.to = Sh!classIdFor(req[q].c)
           /\ \A c \in Peers \ {req[q].c} : KernelKeeps(c)
<1>1. ASSUME NEW c \in Peers \ {req[q].c} PROVE KernelKeeps(c)
  BY KernelIdle DEF ServesOnly
<1> QED BY <1>1 DEF ShapingShape, FiltersTyped

LEMMA MyRequest ==
    ASSUME ShapingInv, NEW q \in Actors, req[q].at # "idle",
           NEW r, r = req[q], NEW c, c = r.c
    PROVE  /\ r \in Sh!Request /\ c \in Peers /\ addr[c] # 0 /\ addr[c] \in Nat
           /\ limit[c] \in [Sh!Dirs -> Nat]
           /\ r.lim \in [Sh!Dirs -> Nat] /\ r.addr \in Nat
           /\ RequestMakesSense(r) /\ Runs(q)
           /\ ShapingShape
<1>1. ShapingShape /\ RequestMakesSense(r) /\ Runs(q)
  BY DEF ShapingInv, Ordered, InStep
<1>2. r \in Sh!Request /\ c \in Peers /\ addr[c] # 0
  BY <1>1 DEF ShapingShape, RequestMakesSense
<1>3. addr[c] \in Nat /\ limit[c] \in [Sh!Dirs -> Nat]
  BY <1>1, <1>2 DEF ShapingShape
<1>4. r.lim \in [Sh!Dirs -> Nat] /\ r.addr \in Nat
  BY <1>2 DEF Sh!Request
<1> QED BY <1>1, <1>2, <1>3, <1>4

LEMMA RequestTo ==
    ASSUME NEW r \in Sh!Request, NEW a \in Sh!Ats, NEW new, new = [r EXCEPT !.at = a]
    PROVE  /\ new \in Sh!Request /\ new.at = a /\ new.kind = r.kind /\ new.c = r.c
           /\ new.lim = r.lim /\ new.addr = r.addr /\ new.clean = r.clean
BY DEF Sh!Request

LEMMA RequestMade ==
    ASSUME NEW a \in Sh!Ats, NEW k \in Sh!Kinds, NEW c \in Peers \union {0},
           NEW l \in [Sh!Dirs -> Nat], NEW i \in Nat, NEW b \in BOOLEAN, NEW new,
           new = [at |-> a, kind |-> k, c |-> c, lim |-> l, addr |-> i, clean |-> b]
    PROVE  /\ new \in Sh!Request /\ new.at = a /\ new.kind = k /\ new.c = c
           /\ new.lim = l /\ new.addr = i /\ new.clean = b
BY DEF Sh!Request

\* The next step of a request that runs alone.
LEMMA RunsNext ==
    ASSUME NEW q \in Actors, ServesOnly(q), Runs(q), NEW c, c = req[q].c,
           req'[q].c = c, req'[q].clean => req[q].clean,
           c \in peers /\ req[q].clean /\ InPlace(req[q], c) => InPlace(req[q], c)'
    PROVE  Runs(q)'
<1> SUFFICES ASSUME req'[q].at # "idle", req'[q].clean
             PROVE  /\ c \notin again'.todo
                    /\ \A p \in Actors \ {q} : req'[p].c # c
                    /\ c \in peers' => InPlace(req[q], c)'
  BY DEF Runs
<1>1. /\ c \notin again.todo
      /\ \A p \in Actors \ {q} : req[p].c # c
      /\ c \in peers => InPlace(req[q], c)
  BY DEF Runs, ServesOnly
<1> QED BY <1>1 DEF ServesOnly, Stays

\* Its last step.
LEMMA RunsOut ==
    ASSUME NEW q \in Actors, ServesOnly(q), Runs(q), NEW c, c = req[q].c,
           c \in peers /\ c \notin missed' => req[q].clean,
           c \in peers /\ c \notin missed' /\ req[q].clean /\ InPlace(req[q], c)
             => \A d \in Sh!Dirs : Fits(d, c)'
    PROVE  Settles(c)'
<1>1. req[q].clean /\ c \in peers => InPlace(req[q], c)
  BY DEF Runs, ServesOnly
<1>2. peers' = peers
  BY DEF ServesOnly
<1> QED BY <1>1, <1>2 DEF Settles

\* What a step of a request is, when it is no more than that.
LEMMA ServesGo ==
    ASSUME ShapingShape, NEW q \in Actors, req[q].at # "idle", NEW new \in Sh!Request,
           Sh!Go(q, new), new.c = req[q].c \/ new.c = 0,
           UNCHANGED <<cidr, peers, addr, enabled, again>>,
           \A c \in Peers \ {req[q].c} : limit'[c] = limit[c] /\ (c \in missed => c \in missed')
    PROVE  ServesOnly(q) /\ req' \in [Actors -> Sh!Request] /\ req'[q] = new
<1>1. /\ req' \in [Actors -> Sh!Request] /\ req'[q] = new
      /\ \A p \in Actors \ {q} : Stays(p)
  BY GoesTo
<1> QED BY <1>1 DEF ServesOnly

LEMMA FindSound == ASSUME ShapingInv, OwnClasses, NEW q \in Actors, Sh!Find(q) PROVE ShapingInv'
<1>1. PICK r : r = req[q]
  OBVIOUS
<1>2. PICK c : c = r.c
  OBVIOUS
<1>3. r.at = "find" /\ req[q].at # "idle"
  BY <1>1 DEF Sh!Find
<1>4. /\ r \in Sh!Request /\ c \in Peers /\ addr[c] # 0 /\ addr[c] \in Nat
      /\ RequestMakesSense(r) /\ Runs(q) /\ ShapingShape
  BY <1>1, <1>2, <1>3, MyRequest
<1>5. UNCHANGED <<cidr, peers, addr, enabled, again, limit, class, filters, missed>>
  BY DEF Sh!Find, Sh!table, Sh!kernel
<1>6. CASE c \in peers
  <2>1. PICK a \in Sh!Ats : a = IF r.kind = "put" THEN "applyDown" ELSE "clearDown"
    BY DEF Sh!Ats
  <2>2. PICK new : new = [r EXCEPT !.at = a, !.addr = addr[c]]
    OBVIOUS
  <2>3. /\ new \in Sh!Request /\ new.at = a /\ new.kind = r.kind /\ new.c = c
        /\ new.lim = r.lim /\ new.addr = addr[c] /\ new.clean = r.clean
    <3>1. PICK i \in Nat : i = addr[c]
      BY <1>4
    <3>2. new = [at |-> a, kind |-> r.kind, c |-> c, lim |-> r.lim, addr |-> i,
                 clean |-> r.clean]
      BY <1>2, <1>4, <2>2, <3>1 DEF Sh!Request
    <3>3. r.kind \in Sh!Kinds /\ r.lim \in [Sh!Dirs -> Nat] /\ r.clean \in BOOLEAN
      BY <1>4 DEF Sh!Request
    <3> QED BY <1>4, <3>1, <3>2, <3>3, RequestMade
  <2>4. Sh!Go(q, new)
    BY <1>1, <1>2, <1>6, <2>1, <2>2 DEF Sh!Find
  <2>5. ServesOnly(q) /\ req' \in [Actors -> Sh!Request] /\ req'[q] = new
    BY <1>1, <1>2, <1>3, <1>4, <1>5, <2>3, <2>4, ServesGo
  <2>6. RequestMakesSense(req[q])'
    BY <1>4, <1>5, <2>1, <2>3, <2>5 DEF RequestMakesSense
  <2>7. InPlace(req[q], c) => InPlace(req[q], c)'
    BY <1>1, <1>3, <1>5, <2>1, <2>3, <2>5
       DEF InPlace, Clear, NoFilter, OnRate, OwnFilter, Ingress
  <2>8. Runs(q)' /\ req'[q].c = c
    BY <1>1, <1>2, <1>4, <2>3, <2>5, <2>7, RunsNext
  <2> QED BY <1>1, <1>2, <1>4, <1>5, <2>5, <2>6, <2>8, KernelLeft, ServesSound DEF ShapingShape
<1>7. CASE c \notin peers
  <2>1. PICK new : new = IF r.kind = "put" THEN Sh!Idle ELSE [r EXCEPT !.at = "drop"]
    OBVIOUS
  <2>2. /\ new \in Sh!Request /\ (r.kind = "put" => new = Sh!Idle)
        /\ r.kind # "put" => /\ new.at = "drop" /\ new.kind = r.kind /\ new.c = c
                             /\ new.clean = r.clean
    BY <1>2, <1>4, <2>1, RequestTo, IdleRequest DEF Sh!Ats
  <2>3. Sh!Go(q, new)
    BY <1>1, <1>2, <1>7, <2>1 DEF Sh!Find
  <2>4. ServesOnly(q) /\ req' \in [Actors -> Sh!Request] /\ req'[q] = new
    BY <1>1, <1>2, <1>3, <1>4, <1>5, <2>2, <2>3, ServesGo, IdleRequest
  <2>5. RequestMakesSense(req[q])'
    BY <1>4, <1>5, <1>7, <2>2, <2>4, IdleRequest DEF RequestMakesSense
  <2>6. \/ req'[q].c = c /\ Runs(q)'
        \/ req'[q].at = "idle" /\ Settles(c)'
    <3>1. CASE r.kind = "put"
      BY <1>5, <1>7, <2>2, <2>4, <3>1, IdleRequest DEF Settles
    <3>2. CASE r.kind # "put"
      BY <1>1, <1>2, <1>4, <1>7, <2>2, <2>4, <3>2, RunsNext
    <3> QED BY <3>1, <3>2
  <2> QED BY <1>1, <1>2, <1>4, <1>5, <2>4, <2>5, <2>6, KernelLeft, ServesSound DEF ShapingShape
<1> QED BY <1>6, <1>7

LEMMA KnownFacts ==
    ASSUME NEW r \in Sh!Request, NEW c \in Peers, c = r.c, NEW whole \in BOOLEAN,
           missed \subseteq Peers, missed' = Sh!Known(r, whole)
    PROVE  /\ missed' \subseteq Peers
           /\ \A x \in Peers \ {c} : x \in missed => x \in missed'
           /\ c \notin missed' => r.clean /\ (whole \/ c \notin missed)
BY DEF Sh!Known

\* A step that takes the filters of an address away from whoever has it.
LEMMA ServesCleared ==
    ASSUME ShapingShape, NEW q \in Actors, req[q].at # "idle",
           NEW r, r = req[q], r.c \in Peers,
           NEW new \in Sh!Request, new.c = r.c, Sh!Cleared(q, new),
           UNCHANGED <<cidr, peers, addr, enabled, again, limit>>
    PROVE  /\ ServesOnly(q) /\ req' \in [Actors -> Sh!Request] /\ req'[q] = new
           /\ missed' \subseteq Peers /\ missed \subseteq missed'
           /\ \A c \in peers \ {r.c} : addr[c] = new.addr /\ limit[c] # Sh!Unlimited => Struck(c)
<1>1. PICK C : C = Sh!Robbed(new)
  OBVIOUS
<1>2. PICK D : D = Sh!Disturbed(C)
  OBVIOUS
<1>3. req' = [D EXCEPT ![q] = new] /\ missed' = missed \union C
  BY <1>1, <1>2 DEF Sh!Cleared
<1>4. C \subseteq peers \ {r.c} /\ peers \subseteq Peers
  BY <1>1 DEF Sh!Robbed, Sh!Limited, ShapingShape
<1>5. \A c \in peers \ {r.c} : addr[c] = new.addr /\ limit[c] # Sh!Unlimited => c \in C
  BY <1>1 DEF Sh!Robbed, Sh!Limited
<1>6. DOMAIN D = Actors /\ D = [p \in Actors |-> D[p]]
  BY <1>2 DEF Sh!Disturbed
<1>7. \A p \in Actors :
        /\ D[p] \in Sh!Request
        /\ D[p].at = req[p].at /\ D[p].kind = req[p].kind /\ D[p].c = req[p].c
        /\ D[p].lim = req[p].lim /\ D[p].addr = req[p].addr
        /\ D[p].clean => req[p].clean /\ req[p].c \notin C
  BY <1>2, Disturbances
<1>8. req'[q] = new /\ \A p \in Actors \ {q} : req'[p] = D[p]
  BY <1>3, <1>6
<1>9. req' \in [Actors -> Sh!Request]
  BY <1>3, <1>6, <1>7
<1>10. \A p \in Actors \ {q} : Stays(p)
  BY <1>7, <1>8 DEF Stays
<1>11. missed' \subseteq Peers /\ missed \subseteq missed'
  BY <1>3, <1>4 DEF ShapingShape
<1>12. ServesOnly(q)
  BY <1>8, <1>10, <1>11 DEF ServesOnly
<1>13. ASSUME NEW c \in C PROVE Struck(c)
  <2>1. ASSUME NEW p \in Actors, req'[p].c = c PROVE ~req'[p].clean
    <3>1. p # q
      BY <1>4, <1>8, <2>1
    <3> QED BY <1>7, <1>8, <2>1, <3>1
  <2> QED BY <1>3, <2>1 DEF Struck
<1> QED BY <1>5, <1>8, <1>9, <1>11, <1>12, <1>13

LEMMA ApplyDownSound ==
    ASSUME ShapingInv, OwnClasses, NEW q \in Actors, Sh!ApplyDown(q) PROVE ShapingInv'
<1>1. PICK r : r = req[q]
  OBVIOUS
<1>2. PICK c : c = r.c
  OBVIOUS
<1>3. r.at = "applyDown" /\ req[q].at # "idle" /\ r.kind = "put"
  BY <1>1, MyRequest DEF Sh!ApplyDown, RequestMakesSense
<1>4. /\ r \in Sh!Request /\ c \in Peers /\ addr[c] # 0 /\ addr[c] \in Nat
      /\ r.lim \in [Sh!Dirs -> Nat] /\ r.addr \in Nat
      /\ RequestMakesSense(r) /\ Runs(q) /\ ShapingShape
  BY <1>1, <1>2, <1>3, MyRequest
<1>5. UNCHANGED <<cidr, peers, addr, enabled, again, limit, missed>>
  BY DEF Sh!ApplyDown, Sh!table
<1>6. PICK new : new = [r EXCEPT !.at = "applyUp"]
  OBVIOUS
<1>7. /\ new \in Sh!Request /\ new.at = "applyUp" /\ new.kind = r.kind /\ new.c = c
      /\ new.lim = r.lim /\ new.addr = r.addr /\ new.clean = r.clean
  BY <1>2, <1>4, <1>6, RequestTo DEF Sh!Ats
<1>8. Sh!Go(q, new) /\ Sh!Shape("down", c, r.addr, r.lim["down"])
  BY <1>1, <1>2, <1>6 DEF Sh!ApplyDown
<1>9. ServesOnly(q) /\ req' \in [Actors -> Sh!Request] /\ req'[q] = new
  BY <1>1, <1>2, <1>3, <1>4, <1>5, <1>7, <1>8, ServesGo
<1>10. PICK rate \in Nat : rate = r.lim["down"]
  BY <1>4, Devices
<1>11. /\ ShapedOnly("down", c, rate) /\ FiltersTyped(filters')
       /\ AddsOnly(filters', "down", c, r.addr, rate)
  BY <1>4, <1>8, <1>10, ShapeSets, Devices
<1>12. \A x \in peers \ {c} : KernelKeeps(x)
  BY <1>4, <1>5, <1>8, <1>10, ShapesOthers, Devices DEF ShapingShape
<1>13. InPlace(r, c) => InPlace(req[q], c)'
  <2> SUFFICES ASSUME InPlace(r, c) PROVE InPlace(req[q], c)'
    OBVIOUS
  <2>1. r.addr = addr[c] /\ r.lim = limit[c] /\ (c \notin missed => Clear(c))
    BY <1>3 DEF InPlace
  <2>2. /\ limit[c]["down"] > 0 => OnRate("down", c)'
        /\ NoFilter("up", c) => NoFilter("up", c)'
        /\ limit[c]["down"] = 0 /\ NoFilter("down", c) => NoFilter("down", c)'
    BY <1>4, <1>5, <1>8, <2>1, ShapesMine, Devices
  <2>3. c \notin missed => Clear(c)'
    BY <1>5, <2>1, <2>2, Devices DEF Clear
  <2> QED BY <1>3, <1>5, <1>7, <1>9, <2>1, <2>2, <2>3 DEF InPlace
<1>14. Runs(q)' /\ req'[q].c = c
  BY <1>1, <1>2, <1>4, <1>7, <1>9, <1>13, RunsNext
<1>15. RequestMakesSense(req[q])'
  BY <1>2, <1>3, <1>4, <1>5, <1>7, <1>9 DEF RequestMakesSense
<1>16. \A f \in filters' \ filters : f.to = 0 \/ f.to = Sh!classIdFor(c)
  BY <1>11 DEF AddsOnly
<1>17. class' \in [Sh!Dirs -> [1 .. Slots -> Nat]]
  BY <1>11 DEF ShapedOnly
<1> QED BY <1>1, <1>2, <1>5, <1>9, <1>11, <1>12, <1>14, <1>15, <1>16, <1>17, <1>4,
           ServesSound DEF ShapingShape

LEMMA ApplyUpSound ==
    ASSUME ShapingInv, OwnClasses, NEW q \in Actors, Sh!ApplyUp(q) PROVE ShapingInv'
<1>1. PICK r : r = req[q]
  OBVIOUS
<1>2. PICK c : c = r.c
  OBVIOUS
<1>3. r.at = "applyUp" /\ req[q].at # "idle" /\ r.kind = "put"
  BY <1>1, MyRequest DEF Sh!ApplyUp, RequestMakesSense
<1>4. /\ r \in Sh!Request /\ c \in Peers /\ addr[c] # 0 /\ addr[c] \in Nat
      /\ limit[c] \in [Sh!Dirs -> Nat]
      /\ r.lim \in [Sh!Dirs -> Nat] /\ r.addr \in Nat
      /\ RequestMakesSense(r) /\ Runs(q) /\ ShapingShape
  BY <1>1, <1>2, <1>3, MyRequest
<1>5. UNCHANGED <<cidr, peers, addr, enabled, again, limit>>
  BY DEF Sh!ApplyUp, Sh!table
<1>6. PICK whole \in BOOLEAN : whole = (\A d \in Sh!Dirs : r.lim[d] > 0)
  OBVIOUS
<1>7. missed' = Sh!Known(r, whole)
  BY <1>1, <1>6 DEF Sh!ApplyUp
<1>8. /\ missed' \subseteq Peers
      /\ \A x \in Peers \ {c} : x \in missed => x \in missed'
      /\ c \notin missed' => r.clean /\ (whole \/ c \notin missed)
  BY <1>2, <1>4, <1>7, KnownFacts DEF ShapingShape
<1>9. Sh!Go(q, Sh!Idle) /\ Sh!Shape("up", c, r.addr, r.lim["up"])
  BY <1>1, <1>2 DEF Sh!ApplyUp
<1>10. ServesOnly(q) /\ req' \in [Actors -> Sh!Request] /\ req'[q] = Sh!Idle
  BY <1>1, <1>2, <1>3, <1>4, <1>5, <1>8, <1>9, ServesGo, IdleRequest
<1>11. PICK rate \in Nat : rate = r.lim["up"]
  BY <1>4, Devices
<1>12. /\ ShapedOnly("up", c, rate) /\ FiltersTyped(filters')
       /\ AddsOnly(filters', "up", c, r.addr, rate)
  BY <1>4, <1>9, <1>11, ShapeSets, Devices
<1>13. \A x \in peers \ {c} : KernelKeeps(x)
  BY <1>4, <1>5, <1>9, <1>11, ShapesOthers, Devices DEF ShapingShape
<1>14. ASSUME c \notin missed', InPlace(r, c), NEW d \in Sh!Dirs PROVE Fits(d, c)'
  <2>1. /\ r.addr = addr[c] /\ r.lim = limit[c] /\ (c \notin missed => Clear(c))
        /\ limit[c]["down"] > 0 => OnRate("down", c)
    BY <1>3, <1>14 DEF InPlace
  <2>2. /\ limit[c]["up"] > 0 => OnRate("up", c)'
        /\ NoFilter("down", c) => NoFilter("down", c)'
        /\ OnRate("down", c) => OnRate("down", c)'
        /\ limit[c]["up"] = 0 /\ NoFilter("up", c) => NoFilter("up", c)'
    BY <1>4, <1>5, <1>9, <2>1, ShapesMine, Devices
  <2>3. limit[c][d] = 0 => NoFilter(d, c)
    <3>1. CASE c \in missed
      BY <1>6, <1>8, <1>14, <2>1, <3>1
    <3>2. CASE c \notin missed
      BY <2>1, <3>2 DEF Clear
    <3> QED BY <3>1, <3>2
  <2>4. limit[c][d] \in Nat /\ limit'[c] = limit[c]
    BY <1>4, <1>5
  <2>5. CASE d = "down"
    BY <2>1, <2>2, <2>3, <2>4, <2>5 DEF Fits
  <2>6. CASE d = "up"
    BY <2>2, <2>3, <2>4, <2>6 DEF Fits
  <2> QED BY <2>5, <2>6, Devices
<1>15. req'[q].at = "idle" /\ Settles(c)'
  BY <1>1, <1>2, <1>4, <1>8, <1>10, <1>14, IdleRequest, RunsOut
<1>16. RequestMakesSense(req[q])'
  BY <1>10, IdleRequest DEF RequestMakesSense
<1>17. \A f \in filters' \ filters : f.to = 0 \/ f.to = Sh!classIdFor(c)
  BY <1>12 DEF AddsOnly
<1>18. class' \in [Sh!Dirs -> [1 .. Slots -> Nat]]
  BY <1>12 DEF ShapedOnly
<1> QED BY <1>1, <1>2, <1>5, <1>8, <1>10, <1>12, <1>13, <1>15, <1>16, <1>17, <1>18, <1>4,
           ServesSound DEF ShapingShape

LEMMA ApplyFailsSound ==
    ASSUME ShapingInv, OwnClasses, NEW q \in Actors, Sh!ApplyFails(q) PROVE ShapingInv'
<1>1. PICK r : r = req[q]
  OBVIOUS
<1>2. PICK c : c = r.c
  OBVIOUS
<1>3. req[q].at # "idle"
  BY DEF Sh!ApplyFails
<1>4. c \in Peers /\ ShapingShape
  BY <1>1, <1>2, <1>3, MyRequest
<1>5. /\ UNCHANGED <<cidr, peers, addr, enabled, again, limit, class, filters>>
      /\ missed' = missed \union {c}
  BY <1>1, <1>2 DEF Sh!ApplyFails, Sh!table, Sh!kernel
<1>6. Sh!Go(q, Sh!Idle)
  BY DEF Sh!ApplyFails
<1>7. ServesOnly(q) /\ req' \in [Actors -> Sh!Request] /\ req'[q] = Sh!Idle
  BY <1>1, <1>2, <1>3, <1>4, <1>5, <1>6, ServesGo, IdleRequest
<1>8. req'[q].at = "idle" /\ Settles(c)' /\ RequestMakesSense(req[q])'
  BY <1>5, <1>7, IdleRequest DEF Settles, RequestMakesSense
<1>9. missed' \subseteq Peers
  BY <1>4, <1>5 DEF ShapingShape
<1> QED BY <1>1, <1>2, <1>4, <1>5, <1>7, <1>8, <1>9, KernelLeft, ServesSound DEF ShapingShape

\* What a clear of either direction shares.
LEMMA ClearStep ==
    ASSUME ShapingInv, OwnClasses, NEW q \in Actors, req[q].at \in {"clearDown", "clearUp"},
           NEW d \in Sh!Dirs, NEW r, r = req[q], NEW c, c = r.c,
           NEW a \in Sh!Ats, NEW new, new = [r EXCEPT !.at = a],
           Sh!Unshape(d, c, r.addr), Sh!Cleared(q, new),
           UNCHANGED <<cidr, peers, addr, enabled, again, limit>>,
           a \in {"clearUp", "drop", "upsert"},
           a = "drop" => r.kind = "clear", a = "upsert" => r.kind = "move",
           req[q].at = "clearDown" => a = "clearUp" /\ d = "down",
           req[q].at = "clearUp" => a # "clearUp" /\ d = "up"
    PROVE  ShapingInv'
<1>1. /\ r \in Sh!Request /\ c \in Peers /\ addr[c] # 0
      /\ r.lim \in [Sh!Dirs -> Nat] /\ r.addr \in Nat
      /\ RequestMakesSense(r) /\ Runs(q) /\ ShapingShape
  BY MyRequest
<1>2. r.kind # "put"
  BY <1>1 DEF RequestMakesSense
<1>3. /\ new \in Sh!Request /\ new.at = a /\ new.kind = r.kind /\ new.c = c
      /\ new.lim = r.lim /\ new.addr = r.addr /\ new.clean = r.clean
  BY <1>1, RequestTo
<1>4. /\ ServesOnly(q) /\ req' \in [Actors -> Sh!Request] /\ req'[q] = new
      /\ missed' \subseteq Peers /\ missed \subseteq missed'
      /\ \A x \in peers \ {c} : addr[x] = r.addr /\ limit[x] # Sh!Unlimited => Struck(x)
  <2>1. PICK s \in Sh!Request : s = new
    BY <1>3
  <2>2. req[q].at # "idle" /\ r.c \in Peers /\ s.c = r.c /\ Sh!Cleared(q, s)
    BY <1>1, <1>3, <2>1
  <2>3. /\ ServesOnly(q) /\ req' \in [Actors -> Sh!Request] /\ req'[q] = s
        /\ missed' \subseteq Peers /\ missed \subseteq missed'
        /\ \A x \in peers \ {r.c} : addr[x] = s.addr /\ limit[x] # Sh!Unlimited => Struck(x)
    BY <1>1, <2>2, ServesCleared
  <2> QED BY <1>3, <2>1, <2>3
<1>5. ClearedOnly(d, c, r.addr)
  BY <1>1, UnshapeClears
<1>6. ASSUME NEW x \in peers \ {c} PROVE KernelKeeps(x) \/ Struck(x)
  <2>1. x \in Peers \ {c}
    BY <1>1 DEF ShapingShape
  <2> QED BY <1>1, <1>4, <1>5, <2>1, ClearsOthers
<1>7. InPlace(r, c) => InPlace(req[q], c)'
  <2> SUFFICES ASSUME InPlace(r, c) PROVE InPlace(req[q], c)'
    OBVIOUS
  <2>1. r.addr = addr[c] /\ (r.at = "clearUp" => NoFilter("down", c))
        /\ (r.kind = "move" => r.lim = limit[c])
    BY DEF InPlace
  <2>2. /\ NoFilter(d, c)'
        /\ \A e \in Sh!Dirs : NoFilter(e, c) => NoFilter(e, c)'
    BY <1>1, <1>5, <2>1, ClearsMine
  <2>3. NoFilter("down", c)'
    BY <2>1, <2>2, Devices
  <2>4. a # "clearUp" => NoFilter("up", c)'
    BY <2>2
  <2>5. limit'[c] = limit[c] /\ addr'[c] = addr[c]
    OBVIOUS
  <2> QED BY <1>2, <1>3, <1>4, <2>1, <2>3, <2>4, <2>5 DEF InPlace
<1>8. Runs(q)' /\ req'[q].c = c
  BY <1>1, <1>3, <1>4, <1>7, RunsNext
<1>9. RequestMakesSense(req[q])'
  BY <1>1, <1>2, <1>3, <1>4 DEF RequestMakesSense
<1>10. FiltersTyped(filters')
  BY <1>1, <1>5 DEF ClearedOnly, FiltersTyped, ShapingShape
<1>11. \A f \in filters' \ filters : f.to = 0 \/ f.to = Sh!classIdFor(c)
  BY <1>5 DEF ClearedOnly
<1>12. class' \in [Sh!Dirs -> [1 .. Slots -> Nat]]
  BY <1>5 DEF ClearedOnly
<1>13. limit' \in [Peers -> [Sh!Dirs -> Nat]]
  BY <1>1 DEF ShapingShape
<1> QED BY <1>4, <1>6, <1>8, <1>9, <1>10, <1>11, <1>12, <1>13, ServesSound

LEMMA ClearDownSound ==
    ASSUME ShapingInv, OwnClasses, NEW q \in Actors, Sh!ClearDown(q) PROVE ShapingInv'
<1>1. PICK r : r = req[q]
  OBVIOUS
<1>2. PICK c : c = r.c
  OBVIOUS
<1>3. PICK new : new = [r EXCEPT !.at = "clearUp"]
  OBVIOUS
<1>4. /\ req[q].at = "clearDown" /\ Sh!Unshape("down", c, r.addr) /\ Sh!Cleared(q, new)
      /\ UNCHANGED <<cidr, peers, addr, enabled, again, limit>>
  BY <1>1, <1>2, <1>3 DEF Sh!ClearDown, Sh!table
<1> QED BY <1>1, <1>2, <1>3, <1>4, ClearStep, Devices DEF Sh!Ats

LEMMA ClearUpSound ==
    ASSUME ShapingInv, OwnClasses, NEW q \in Actors, Sh!ClearUp(q) PROVE ShapingInv'
<1>1. PICK r : r = req[q]
  OBVIOUS
<1>2. PICK c : c = r.c
  OBVIOUS
<1>3. PICK a \in Sh!Ats : a = IF r.kind = "clear" THEN "drop" ELSE "upsert"
  BY DEF Sh!Ats
<1>4. PICK new : new = [r EXCEPT !.at = a]
  OBVIOUS
<1>5. /\ req[q].at = "clearUp" /\ Sh!Unshape("up", c, r.addr) /\ Sh!Cleared(q, new)
      /\ UNCHANGED <<cidr, peers, addr, enabled, again, limit>>
  BY <1>1, <1>2, <1>3, <1>4 DEF Sh!ClearUp, Sh!table
<1>6. r.kind \in {"clear", "move"}
  <2>1. r \in Sh!Request /\ RequestMakesSense(r)
    BY <1>1, <1>5, MyRequest
  <2> QED BY <1>1, <1>5, <2>1 DEF RequestMakesSense, Sh!Request, Sh!Kinds
<1> QED BY <1>1, <1>2, <1>3, <1>4, <1>5, <1>6, ClearStep, Devices

LEMMA DropSound ==
    ASSUME ShapingInv, OwnClasses, NEW q \in Actors, Sh!Drop(q) PROVE ShapingInv'
<1>1. PICK r : r = req[q]
  OBVIOUS
<1>2. PICK c : c = r.c
  OBVIOUS
<1>3. r.at = "drop" /\ req[q].at # "idle"
  BY <1>1 DEF Sh!Drop
<1>4. /\ r \in Sh!Request /\ c \in Peers /\ limit[c] \in [Sh!Dirs -> Nat]
      /\ RequestMakesSense(r) /\ Runs(q) /\ ShapingShape
  BY <1>1, <1>2, <1>3, MyRequest
<1>5. UNCHANGED <<cidr, peers, addr, enabled, again, class, filters>>
  BY DEF Sh!Drop, Sh!table, Sh!kernel
<1>6. PICK l \in [Sh!Dirs -> Nat] : l = IF r.kind = "clear" THEN Sh!Unlimited ELSE limit[c]
  BY <1>4, ShapingFacts
<1>7. limit' = [limit EXCEPT ![c] = l]
  BY <1>1, <1>2, <1>6 DEF Sh!Drop
<1>8. /\ limit' \in [Peers -> [Sh!Dirs -> Nat]] /\ limit'[c] = l
      /\ \A x \in Peers \ {c} : limit'[x] = limit[x]
  BY <1>4, <1>7 DEF ShapingShape
<1>9. /\ missed' \subseteq Peers
      /\ \A x \in Peers \ {c} : x \in missed => x \in missed'
      /\ c \notin missed' => r.clean
  <2>1. PICK whole \in BOOLEAN : whole = TRUE
    OBVIOUS
  <2>2. missed' = Sh!Known(r, whole)
    BY <1>1, <2>1 DEF Sh!Drop
  <2> QED BY <1>2, <1>4, <2>2, KnownFacts DEF ShapingShape
<1>10. Sh!Go(q, Sh!Idle)
  BY DEF Sh!Drop
<1>11. ServesOnly(q) /\ req' \in [Actors -> Sh!Request] /\ req'[q] = Sh!Idle
  BY <1>1, <1>2, <1>3, <1>4, <1>5, <1>8, <1>9, <1>10, ServesGo, IdleRequest
<1>12. ASSUME c \in peers, InPlace(r, c), NEW d \in Sh!Dirs PROVE Fits(d, c)'
  <2>1. r.kind = "clear"
    BY <1>2, <1>3, <1>4, <1>12 DEF RequestMakesSense, Sh!Request, Sh!Kinds
  <2>2. limit'[c][d] = 0
    BY <1>6, <1>8, <2>1, ShapingFacts
  <2>3. NoFilter(d, c)
    BY <1>3, <1>12, Devices DEF InPlace
  <2>4. NoFilter(d, c)'
    BY <1>5, <2>3 DEF NoFilter, OwnFilter
  <2> QED BY <2>2, <2>4 DEF Fits
<1>13. req'[q].at = "idle" /\ Settles(c)'
  BY <1>1, <1>2, <1>4, <1>9, <1>11, <1>12, IdleRequest, RunsOut
<1>14. RequestMakesSense(req[q])'
  BY <1>11, IdleRequest DEF RequestMakesSense
<1> QED BY <1>1, <1>2, <1>4, <1>5, <1>8, <1>9, <1>11, <1>13, <1>14, KernelLeft, ServesSound
        DEF ShapingShape

LEMMA RereadSound ==
    ASSUME ShapingInv, OwnClasses, NEW q \in Actors, Sh!Reread(q) PROVE ShapingInv'
<1>1. PICK r : r = req[q]
  OBVIOUS
<1>2. PICK c : c = r.c
  OBVIOUS
<1>3. r.at = "read" /\ req[q].at # "idle"
  BY <1>1 DEF Sh!Reread
<1>4. /\ r \in Sh!Request /\ c \in Peers /\ addr[c] # 0 /\ limit[c] \in [Sh!Dirs -> Nat]
      /\ RequestMakesSense(r) /\ Runs(q) /\ ShapingShape
  BY <1>1, <1>2, <1>3, MyRequest
<1>5. UNCHANGED <<cidr, peers, addr, enabled, again, limit, class, filters>>
  BY DEF Sh!Reread, Sh!table, Sh!kernel
<1>6. PICK new : new = Sh!Reapplied(r)
  OBVIOUS
<1>7. Sh!Go(q, new)
  BY <1>1, <1>6 DEF Sh!Reread
<1>8. /\ missed' \subseteq Peers /\ missed \subseteq missed'
      /\ missed' \subseteq missed \union {c}
  BY <1>1, <1>2, <1>4 DEF Sh!Reread, ShapingShape
<1>9. CASE limit[c] = Sh!Unlimited
  <2>1. new = Sh!Idle
    BY <1>2, <1>6, <1>9 DEF Sh!Reapplied
  <2>2. ServesOnly(q) /\ req' \in [Actors -> Sh!Request] /\ req'[q] = Sh!Idle
    BY <1>1, <1>2, <1>3, <1>4, <1>5, <1>7, <1>8, <2>1, ServesGo, IdleRequest
  <2>3. c \notin missed' => r.clean /\ ~Sh!Leftover(c, addr[c])
    BY <1>1, <1>2, <1>6, <2>1 DEF Sh!Reread
  <2>4. ASSUME c \notin missed', NEW d \in Sh!Dirs PROVE Fits(d, c)'
    <3>1. OwnFilter(d, c) \notin filters
      BY <1>4, <2>3, <2>4, OwnFields DEF Sh!Leftover
    <3>2. limit'[c][d] = 0 /\ NoFilter(d, c)'
      BY <1>5, <1>9, <3>1, ShapingFacts DEF NoFilter, OwnFilter
    <3> QED BY <3>2 DEF Fits
  <2>5. req'[q].at = "idle" /\ Settles(c)'
    BY <1>1, <1>2, <1>4, <2>2, <2>3, <2>4, IdleRequest, RunsOut
  <2>6. RequestMakesSense(req[q])'
    BY <2>2, IdleRequest DEF RequestMakesSense
  <2> QED BY <1>1, <1>2, <1>4, <1>5, <1>8, <2>2, <2>5, <2>6, KernelLeft, ServesSound
          DEF ShapingShape
<1>10. CASE limit[c] # Sh!Unlimited
  <2>1. new = [r EXCEPT !.at = "find", !.lim = limit[c]]
    BY <1>2, <1>6, <1>10 DEF Sh!Reapplied
  <2>2. new = [at |-> "find", kind |-> r.kind, c |-> c, lim |-> limit[c], addr |-> r.addr,
               clean |-> r.clean]
    BY <1>2, <1>4, <2>1 DEF Sh!Request
  <2>3. PICK l \in [Sh!Dirs -> Nat] : l = limit[c]
    BY <1>4
  <2>4. r.kind \in Sh!Kinds /\ r.addr \in Nat /\ r.clean \in BOOLEAN /\ "find" \in Sh!Ats
    BY <1>4 DEF Sh!Request, Sh!Ats
  <2>5. /\ new \in Sh!Request /\ new.at = "find" /\ new.kind = r.kind /\ new.c = c
        /\ new.lim = l /\ new.addr = r.addr /\ new.clean = r.clean
    BY <1>4, <2>2, <2>3, <2>4, RequestMade
  <2>6. ServesOnly(q) /\ req' \in [Actors -> Sh!Request] /\ req'[q] = new
    BY <1>1, <1>2, <1>3, <1>4, <1>5, <1>7, <1>8, <2>5, ServesGo
  <2>7. r.kind = "move"
    BY <1>3, <1>4 DEF RequestMakesSense
  <2>8. InPlace(r, c) => InPlace(req[q], c)'
    BY <1>5, <2>3, <2>5, <2>6, <2>7 DEF InPlace
  <2>9. Runs(q)' /\ req'[q].c = c
    BY <1>1, <1>2, <1>4, <2>5, <2>6, <2>8, RunsNext
  <2>10. RequestMakesSense(req[q])'
    BY <1>2, <1>4, <1>5, <2>5, <2>6 DEF RequestMakesSense
  <2> QED BY <1>1, <1>2, <1>4, <1>5, <1>8, <2>6, <2>9, <2>10, KernelLeft, ServesSound
          DEF ShapingShape
<1> QED BY <1>9, <1>10

LEMMA UpsertSound ==
    ASSUME ShapingInv, OwnClasses, NEW q \in Actors, Sh!Upsert(q) PROVE ShapingInv'
<1>1. PICK r : r = req[q]
  OBVIOUS
<1>2. PICK c : c = r.c
  OBVIOUS
<1>3. r.at = "upsert" /\ req[q].at # "idle"
  BY <1>1 DEF Sh!Upsert
<1>4. /\ r \in Sh!Request /\ c \in Peers /\ addr[c] # 0 /\ r.lim \in [Sh!Dirs -> Nat]
      /\ RequestMakesSense(r) /\ Runs(q) /\ ShapingShape
  BY <1>1, <1>2, <1>3, MyRequest
<1>5. UNCHANGED <<cidr, peers, addr, enabled, again, class, filters, missed>>
  BY DEF Sh!Upsert, Sh!table, Sh!kernel
<1>6. CASE c \in peers
  <2>1. limit' = [limit EXCEPT ![c] = r.lim]
    BY <1>1, <1>2, <1>6 DEF Sh!Upsert
  <2>2. PICK l \in [Sh!Dirs -> Nat] : l = r.lim
    BY <1>4
  <2>3. /\ limit' \in [Peers -> [Sh!Dirs -> Nat]] /\ limit'[c] = l
        /\ \A x \in Peers \ {c} : limit'[x] = limit[x]
    BY <1>4, <2>1, <2>2 DEF ShapingShape
  <2>4. PICK new : new = [r EXCEPT !.at = "find", !.kind = "put"]
    OBVIOUS
  <2>5. Sh!Go(q, new)
    BY <1>1, <1>2, <1>6, <2>4 DEF Sh!Upsert
  <2>6. new = [at |-> "find", kind |-> "put", c |-> c, lim |-> l, addr |-> r.addr,
               clean |-> r.clean]
    BY <1>2, <1>4, <2>2, <2>4 DEF Sh!Request
  <2>7. r.addr \in Nat /\ r.clean \in BOOLEAN /\ "find" \in Sh!Ats /\ "put" \in Sh!Kinds
    BY <1>4 DEF Sh!Request, Sh!Ats, Sh!Kinds
  <2>8. /\ new \in Sh!Request /\ new.at = "find" /\ new.kind = "put" /\ new.c = c
        /\ new.lim = l /\ new.addr = r.addr /\ new.clean = r.clean
    BY <1>4, <2>2, <2>6, <2>7, RequestMade
  <2>9. ServesOnly(q) /\ req' \in [Actors -> Sh!Request] /\ req'[q] = new
    BY <1>1, <1>2, <1>3, <1>4, <1>5, <2>3, <2>5, <2>8, ServesGo
  <2>10. ASSUME InPlace(r, c) PROVE InPlace(req[q], c)'
    <3>1. ASSUME NEW d \in Sh!Dirs PROVE NoFilter(d, c)'
      <4>1. NoFilter(d, c)
        BY <1>3, <2>10, Devices DEF InPlace
      <4> QED BY <1>5, <4>1 DEF NoFilter, OwnFilter
    <3>2. Clear(c)'
      BY <3>1 DEF Clear
    <3> QED BY <2>3, <2>8, <2>9, <3>2 DEF InPlace
  <2>11. Runs(q)' /\ req'[q].c = c
    BY <1>1, <1>2, <1>4, <2>8, <2>9, <2>10, RunsNext
  <2>12. RequestMakesSense(req[q])'
    BY <1>2, <1>4, <1>5, <2>8, <2>9 DEF RequestMakesSense
  <2>13. \A x \in peers \ {c} : KernelKeeps(x)
    BY <1>1, <1>2, <1>4, <1>5, <2>9, KernelLeft DEF ShapingShape
  <2> QED BY <1>1, <1>2, <1>4, <1>5, <2>3, <2>9, <2>11, <2>12, <2>13, ServesSound
          DEF ShapingShape, FiltersTyped
<1>7. CASE c \notin peers
  <2>1. limit' = limit /\ Sh!Go(q, Sh!Idle)
    BY <1>1, <1>2, <1>7 DEF Sh!Upsert
  <2>2. ServesOnly(q) /\ req' \in [Actors -> Sh!Request] /\ req'[q] = Sh!Idle
    BY <1>1, <1>2, <1>3, <1>4, <1>5, <2>1, ServesGo, IdleRequest
  <2>3. req'[q].at = "idle" /\ Settles(c)' /\ RequestMakesSense(req[q])'
    BY <1>5, <1>7, <2>2, IdleRequest DEF Settles, RequestMakesSense
  <2> QED BY <1>1, <1>2, <1>4, <1>5, <2>1, <2>2, <2>3, KernelLeft, ServesSound DEF ShapingShape
<1> QED BY <1>6, <1>7

\* A step on the clients of C; the others are bystanders.
LEMMA StepsInStep ==
    ASSUME ShapingShape, InStep, NEW C \in SUBSET Peers,
           \A x \in Peers \ C :
             /\ SameRow(x) /\ SameLoop(x) /\ SameRequests(x)
             /\ x \in peers => KernelKeeps(x) \/ Struck(x),
           \A x \in C : Settles(x)' /\ Waits(x)',
           \A p \in Actors : req'[p].c \in C \/ req'[p].c \notin Peers => Runs(p)'
    PROVE  InStep'
<1>1. ASSUME NEW x \in Peers \ C
      PROVE  /\ Settles(x)' /\ Waits(x)'
             /\ \A p \in Actors : req'[p].c = x => Runs(p)'
  BY Bystander
<1>2. ASSUME NEW p \in Actors PROVE Runs(p)'
  <2>1. CASE req'[p].c \in Peers \ C
    BY <1>1, <2>1
  <2>2. CASE req'[p].c \notin Peers \ C
    BY <2>2
  <2> QED BY <2>1, <2>2
<1>3. ASSUME NEW x \in Peers PROVE Settles(x)' /\ Waits(x)'
  <2>1. CASE x \in C
    BY <2>1
  <2>2. CASE x \notin C
    BY <1>1, <2>2
  <2> QED BY <2>1, <2>2
<1> QED BY <1>2, <1>3 DEF InStep

\* A request with no client, and one that does not run alone, promise nothing.
LEMMA RunsIdle ==
    ASSUME NEW p \in Actors, req'[p].at = "idle" \/ ~req'[p].clean PROVE Runs(p)'
BY DEF Runs

LEMMA RequestsOf ==
    ASSUME ShapingShape, Ordered, NEW p \in Actors
    PROVE  /\ req[p] \in Sh!Request /\ RequestMakesSense(req[p])
           /\ req[p].at = "idle" <=> req[p].c \notin Peers
           /\ req[p].at = "idle" <=> req[p].c = 0
<1>1. req[p] \in Sh!Request /\ RequestMakesSense(req[p]) /\ 0 \notin Peers
  BY ShapingFacts DEF ShapingShape, Ordered
<1> QED BY <1>1 DEF RequestMakesSense

LEMMA BeginFacts ==
    ASSUME ShapingShape, NEW q \in Actors, NEW r \in Sh!Request, NEW alone \in BOOLEAN,
           Sh!Begin(q, r, alone)
    PROVE  /\ req[q].at = "idle" /\ req' \in [Actors -> Sh!Request]
           /\ req'[q].at = r.at /\ req'[q].kind = r.kind /\ req'[q].c = r.c
           /\ req'[q].lim = r.lim /\ req'[q].addr = r.addr
           /\ req'[q].clean => alone /\ ~Sh!Busy(r.c)
           /\ \A p \in Actors \ {q} : Stays(p) /\ (req'[p].c = r.c => ~req'[p].clean)
           /\ again' \in Sh!Again /\ r.c \notin again'.clean
           /\ \A x \in Peers \ {r.c} : SameLoop(x)
           /\ again'.todo = again.todo
<1>1. PICK b \in BOOLEAN : b = (alone /\ ~Sh!Busy(r.c))
  OBVIOUS
<1>2. PICK new : new = [r EXCEPT !.clean = b]
  OBVIOUS
<1>3. /\ new \in Sh!Request /\ new.at = r.at /\ new.kind = r.kind /\ new.c = r.c
      /\ new.lim = r.lim /\ new.addr = r.addr /\ new.clean = b
  BY <1>2 DEF Sh!Request
<1>4. PICK D : D = Sh!Disturbed({r.c})
  OBVIOUS
<1>5. DOMAIN D = Actors /\ D = [p \in Actors |-> D[p]]
  BY <1>4 DEF Sh!Disturbed
<1>6. \A p \in Actors :
        /\ D[p] \in Sh!Request
        /\ D[p].at = req[p].at /\ D[p].kind = req[p].kind /\ D[p].c = req[p].c
        /\ D[p].lim = req[p].lim /\ D[p].addr = req[p].addr
        /\ D[p].clean => req[p].clean /\ req[p].c \notin {r.c}
  BY <1>4, Disturbances
<1>7. req[q].at = "idle" /\ req' = [D EXCEPT ![q] = new]
  BY <1>1, <1>2, <1>4 DEF Sh!Begin
<1>8. req'[q] = new /\ \A p \in Actors \ {q} : req'[p] = D[p]
  BY <1>5, <1>7
<1>9. req' \in [Actors -> Sh!Request]
  BY <1>3, <1>5, <1>6, <1>7
<1>10. \A p \in Actors \ {q} : Stays(p) /\ (req'[p].c = r.c => ~req'[p].clean)
  BY <1>6, <1>8 DEF Stays
<1>11. PICK old \in Sh!Again : old = again
  BY DEF ShapingShape
<1>12. PICK W \in SUBSET Peers : W = old.clean \ {r.c}
  BY DEF Sh!Again
<1>13. again' = [old EXCEPT !.clean = W]
  BY <1>11, <1>12 DEF Sh!Begin
<1>14. /\ again' \in Sh!Again /\ again'.clean = W /\ again'.todo = old.todo
       /\ again'.lim = old.lim /\ again'.addr = old.addr
  BY <1>13 DEF Sh!Again
<1>15. r.c \notin again'.clean /\ again'.todo = again.todo /\ \A x \in Peers \ {r.c} : SameLoop(x)
  BY <1>11, <1>12, <1>14 DEF SameLoop
<1> QED BY <1>1, <1>3, <1>7, <1>8, <1>9, <1>10, <1>14, <1>15

\* What the requests have in common when they arrive.
LEMMA ArrivesSound ==
    ASSUME ShapingInv, NEW q \in Actors, NEW r \in Sh!Request, NEW alone \in BOOLEAN,
           Sh!Begin(q, r, alone), NEW c0 \in peers, c0 = r.c,
           r.at \in {"find", "read"}, r.at = "read" => r.kind = "move",
           UNCHANGED <<cidr, peers, enabled, class, filters, missed>>,
           limit' \in [Peers -> [Sh!Dirs -> Nat]], addr' \in [Peers -> Nat], addr'[c0] # 0,
           \A x \in Peers \ {c0} : limit'[x] = limit[x] /\ addr'[x] = addr[x],
           alone /\ ~Sh!Busy(c0) => InPlace(r, c0)',
           Sh!OwnAddresses'
    PROVE  ShapingInv'
<1>1. ShapingShape /\ Ordered /\ InStep /\ c0 \in Peers /\ c0 # 0
  BY ShapingFacts DEF ShapingInv, ShapingShape
<1>2. /\ req[q].at = "idle" /\ req' \in [Actors -> Sh!Request]
      /\ req'[q].at = r.at /\ req'[q].kind = r.kind /\ req'[q].c = c0
      /\ req'[q].lim = r.lim /\ req'[q].addr = r.addr
      /\ req'[q].clean => alone /\ ~Sh!Busy(c0)
      /\ \A p \in Actors \ {q} : Stays(p) /\ (req'[p].c = c0 => ~req'[p].clean)
      /\ again' \in Sh!Again /\ c0 \notin again'.clean
      /\ \A x \in Peers \ {c0} : SameLoop(x)
      /\ again'.todo = again.todo
  BY <1>1, BeginFacts
<1>3. ShapingShape'
  BY <1>1, <1>2 DEF ShapingShape
<1>4. \A p \in Actors : RequestMakesSense(req[p])'
  <2>1. RequestMakesSense(req[q])'
    BY <1>1, <1>2 DEF RequestMakesSense
  <2>2. ASSUME NEW p \in Actors \ {q} PROVE RequestMakesSense(req[p])'
    <3>1. /\ RequestMakesSense(req[p]) /\ Stays(p)
          /\ \A x \in Peers : addr[x] # 0 => addr'[x] # 0
      BY <1>1, <1>2 DEF Ordered
    <3> QED BY <3>1 DEF RequestMakesSense, Stays
  <2> QED BY <2>1, <2>2
<1>5. ASSUME NEW x \in Peers PROVE Unborn(x)'
  <2> SUFFICES ASSUME addr'[x] = 0
               PROVE  /\ x \notin peers' /\ limit'[x] = Sh!Unlimited /\ x \notin again'.todo
                      /\ \A p \in Actors : req'[p].c # x
                      /\ \A f \in filters' : f.to # Sh!classIdFor(x)
    BY DEF Unborn
  <2>1. x # c0 /\ addr[x] = 0
    OBVIOUS
  <2>2. /\ x \notin peers /\ limit[x] = Sh!Unlimited /\ x \notin again.todo
        /\ \A p \in Actors : req[p].c # x
        /\ \A f \in filters : f.to # Sh!classIdFor(x)
    BY <1>1, <2>1 DEF Ordered, Unborn
  <2>3. ASSUME NEW p \in Actors PROVE req'[p].c # x
    <3>1. CASE p = q
      BY <1>2, <2>1, <3>1
    <3>2. CASE p # q
      BY <1>2, <2>2, <3>2 DEF Stays
    <3> QED BY <3>1, <3>2
  <2> QED BY <1>2, <2>1, <2>2, <2>3
<1>6. InStep'
  <2>1. PICK C \in SUBSET Peers : C = {c0}
    BY <1>1
  <2>2. ASSUME NEW x \in Peers \ C
        PROVE  SameRow(x) /\ SameLoop(x) /\ SameRequests(x) /\ KernelKeeps(x)
    <3>1. SameRow(x) /\ SameLoop(x) /\ x # c0 /\ x # 0
      BY <1>2, <2>1, ShapingFacts DEF SameRow
    <3>2. ASSUME NEW p \in Actors, req[p].c = x \/ req'[p].c = x PROVE Stays(p)
      <4>1. p # q
        BY <1>1, <1>2, <3>1, <3>2, RequestsOf
      <4> QED BY <1>2, <4>1
    <3>3. KernelKeeps(x)
      BY <2>1, KernelIdle
    <3> QED BY <3>1, <3>2, <3>3 DEF SameRequests
  <2>3. Settles(c0)' /\ Waits(c0)'
    BY <1>2 DEF Settles, Waits, Sh!Busy
  <2>4. ASSUME NEW p \in Actors, req'[p].c \in C \/ req'[p].c \notin Peers PROVE Runs(p)'
    <3>1. CASE p = q
      <4> SUFFICES ASSUME req'[q].clean PROVE Runs(q)'
        BY <3>1, RunsIdle
      <4>1. c0 \notin again'.todo /\ \A o \in Actors \ {q} : req'[o].c # c0
        BY <1>2 DEF Sh!Busy, Stays
      <4>2. InPlace(req[q], c0)'
        BY <1>2 DEF InPlace
      <4> QED BY <1>2, <4>1, <4>2 DEF Runs
    <3>2. CASE p # q
      <4>1. CASE req'[p].c = c0
        BY <1>2, <3>2, <4>1, RunsIdle
      <4>2. CASE req'[p].c # c0
        <5>1. req'[p].c \notin Peers /\ Stays(p)
          BY <1>2, <2>1, <2>4, <3>2, <4>2
        <5>2. req'[p].at = "idle"
          BY <1>1, <5>1, RequestsOf DEF Stays
        <5> QED BY <5>2, RunsIdle
      <4> QED BY <4>1, <4>2
    <3> QED BY <3>1, <3>2
  <2>5. \A x \in C : Settles(x)' /\ Waits(x)'
    BY <2>1, <2>3
  <2> QED BY <1>1, <2>2, <2>4, <2>5, StepsInStep
<1> QED BY <1>3, <1>4, <1>5, <1>6 DEF ShapingInv, Ordered

LEMMA PutSound ==
    ASSUME ShapingInv, NEW q \in Actors, NEW c \in Peers, NEW l \in Rates, Sh!PutRequest(q, c, l)
    PROVE  ShapingInv'
<1>1. PICK r : r = [Sh!Idle EXCEPT !.at = "find", !.c = c, !.lim = l]
  OBVIOUS
<1>2. PICK m \in [Sh!Dirs -> Nat] : m = l
  BY ShapingFacts
<1>3. r = [at |-> "find", kind |-> "put", c |-> c, lim |-> m, addr |-> 0, clean |-> TRUE]
  BY <1>1, <1>2 DEF Sh!Idle
<1>4. /\ r \in Sh!Request /\ r.at = "find" /\ r.kind = "put" /\ r.c = c /\ r.lim = m
  BY <1>3 DEF Sh!Request, Sh!Ats, Sh!Kinds
<1>5. PICK alone \in BOOLEAN : alone = (\A d \in Sh!Dirs : limit[c][d] > 0 => l[d] > 0)
  OBVIOUS
<1>6. /\ c \in peers /\ Sh!Begin(q, r, alone) /\ limit' = [limit EXCEPT ![c] = m]
      /\ UNCHANGED <<cidr, peers, addr, enabled, class, filters, missed>>
  BY <1>1, <1>2, <1>5 DEF Sh!PutRequest, Sh!table, Sh!kernel
<1>7. ShapingShape /\ Settles(c) /\ limit[c] \in [Sh!Dirs -> Nat]
  BY DEF ShapingInv, InStep, ShapingShape
<1>8. /\ limit' \in [Peers -> [Sh!Dirs -> Nat]] /\ limit'[c] = m
      /\ \A x \in Peers \ {c} : limit'[x] = limit[x]
  BY <1>6, <1>7 DEF ShapingShape
<1>9. addr' \in [Peers -> Nat] /\ addr'[c] # 0
  BY <1>6, <1>7 DEF ShapingInv, Ordered, Unborn, ShapingShape
<1>10. ASSUME alone, ~Sh!Busy(c) PROVE InPlace(r, c)'
  <2>1. ASSUME c \notin missed', NEW d \in Sh!Dirs, limit'[c][d] = 0 PROVE NoFilter(d, c)'
    <3>1. limit[c][d] = 0
      <4>1. \A e \in Sh!Dirs : limit[c][e] > 0 => l[e] > 0
        BY <1>5, <1>10
      <4> QED BY <1>2, <1>7, <1>8, <2>1, <4>1
    <3>2. Fits(d, c)
      BY <1>6, <1>7, <1>10, <2>1 DEF Settles
    <3>3. NoFilter(d, c)
      BY <3>1, <3>2 DEF Fits
    <3> QED BY <1>6, <3>3 DEF NoFilter, OwnFilter
  <2>2. c \notin missed' => Clear(c)'
    BY <2>1 DEF Clear
  <2> QED BY <1>4, <1>8, <2>2 DEF InPlace
<1>11. Sh!OwnAddresses'
  BY <1>6 DEF ShapingInv, Sh!OwnAddresses, Sh!Unique, Sh!Within
<1> QED BY <1>4, <1>6, <1>8, <1>9, <1>10, <1>11, ArrivesSound

LEMMA ClearSound ==
    ASSUME ShapingInv, NEW q \in Actors, NEW c \in Peers, Sh!ClearRequest(q, c)
    PROVE  ShapingInv'
<1>1. PICK r : r = [Sh!Idle EXCEPT !.at = "find", !.kind = "clear", !.c = c]
  OBVIOUS
<1>2. PICK m \in [Sh!Dirs -> Nat] : m = Sh!Unlimited
  BY ShapingFacts
<1>3. r = [at |-> "find", kind |-> "clear", c |-> c, lim |-> m, addr |-> 0, clean |-> TRUE]
  BY <1>1, <1>2 DEF Sh!Idle
<1>4. /\ r \in Sh!Request /\ r.at = "find" /\ r.kind = "clear" /\ r.c = c
  BY <1>3 DEF Sh!Request, Sh!Ats, Sh!Kinds
<1>5. PICK alone \in BOOLEAN : alone = TRUE
  OBVIOUS
<1>6. /\ c \in peers /\ Sh!Begin(q, r, alone)
      /\ UNCHANGED <<cidr, peers, addr, enabled, class, filters, missed, limit>>
  BY <1>1, <1>5 DEF Sh!ClearRequest, Sh!table, Sh!kernel
<1>7. /\ limit' \in [Peers -> [Sh!Dirs -> Nat]] /\ addr' \in [Peers -> Nat] /\ addr'[c] # 0
  BY <1>6 DEF ShapingInv, Ordered, Unborn, ShapingShape
<1>8. InPlace(r, c)'
  BY <1>4 DEF InPlace
<1>9. Sh!OwnAddresses'
  BY <1>6 DEF ShapingInv, Sh!OwnAddresses, Sh!Unique, Sh!Within
<1> QED BY <1>4, <1>6, <1>7, <1>8, <1>9, ArrivesSound

\* An administrator gives a client another address, and a free one.
LEMMA OneMoves ==
    ASSUME addr \in [Peers -> Nat], peers \subseteq Peers, Sh!OwnAddresses, cidr \in Sh!Cidr,
           NEW c \in peers, NEW a \in Sh!Within(cidr) \ {addr[d] : d \in peers},
           addr' = [addr EXCEPT ![c] = a], UNCHANGED <<cidr, peers>>
    PROVE  /\ addr' \in [Peers -> Nat] /\ addr'[c] = a /\ a # 0 /\ a \in Nat
           /\ \A x \in Peers \ {c} : addr'[x] = addr[x]
           /\ Sh!OwnAddresses'
<1>1. a \in Nat /\ a # 0
  BY DEF Sh!Within, Sh!Cidr
<1>2. /\ addr' \in [Peers -> Nat] /\ addr'[c] = a
      /\ \A x \in Peers \ {c} : addr'[x] = addr[x]
  BY <1>1
<1>3. \A d \in peers : addr[d] # a
  OBVIOUS
<1>4. \A x, y \in peers : addr[x] = addr[y] => x = y
  BY DEF Sh!OwnAddresses, Sh!Unique
<1>5. ASSUME NEW x \in peers, NEW y \in peers, addr'[x] = addr'[y] PROVE x = y
  <2>1. x \in Peers /\ y \in Peers /\ c \in Peers
    OBVIOUS
  <2> QED BY <1>2, <1>3, <1>4, <1>5, <2>1
<1>6. \A x \in peers : addr'[x] \in Sh!Within(cidr)
  BY <1>2 DEF Sh!OwnAddresses
<1> QED BY <1>1, <1>2, <1>5, <1>6 DEF Sh!OwnAddresses, Sh!Unique, Sh!Within

LEMMA UpdateSound ==
    ASSUME ShapingInv, NEW q \in Actors, NEW c \in Peers, NEW a, Sh!UpdateRequest(q, c, a)
    PROVE  ShapingInv'
<1>1. PICK r : r = [Sh!Idle EXCEPT !.at = "read", !.kind = "move", !.c = c]
  OBVIOUS
<1>2. PICK m \in [Sh!Dirs -> Nat] : m = Sh!Unlimited
  BY ShapingFacts
<1>3. r = [at |-> "read", kind |-> "move", c |-> c, lim |-> m, addr |-> 0, clean |-> TRUE]
  BY <1>1, <1>2 DEF Sh!Idle
<1>4. /\ r \in Sh!Request /\ r.at = "read" /\ r.kind = "move" /\ r.c = c
  BY <1>3 DEF Sh!Request, Sh!Ats, Sh!Kinds
<1>5. PICK alone \in BOOLEAN : alone = TRUE
  OBVIOUS
<1>6. /\ c \in peers /\ Sh!Begin(q, r, alone) /\ addr' = [addr EXCEPT ![c] = a]
      /\ a \in Sh!Within(cidr) \ {addr[d] : d \in peers}
      /\ UNCHANGED <<cidr, peers, enabled, class, filters, missed, limit>>
  BY <1>1, <1>5 DEF Sh!UpdateRequest, Sh!table, Sh!kernel
<1>7. ShapingShape /\ Sh!OwnAddresses /\ cidr \in Sh!Cidr
  BY ShapingFacts DEF ShapingInv, ShapingShape
<1>8. /\ addr' \in [Peers -> Nat] /\ addr'[c] = a /\ a # 0
      /\ \A x \in Peers \ {c} : addr'[x] = addr[x]
      /\ Sh!OwnAddresses'
  BY <1>6, <1>7, OneMoves DEF ShapingShape
<1>9. limit' \in [Peers -> [Sh!Dirs -> Nat]]
  BY <1>6, <1>7 DEF ShapingShape
<1>10. InPlace(r, c)'
  BY <1>4 DEF InPlace
<1> QED BY <1>4, <1>6, <1>8, <1>9, <1>10, ArrivesSound

\* A new client has an address of its own.
LEMMA OneComes ==
    ASSUME addr \in [Peers -> Nat], peers \subseteq Peers, IsFiniteSet(peers),
           Sh!OwnAddresses, cidr \in Sh!Cidr, NEW c \in Peers \ peers,
           Sh!Free(cidr, {addr[d] : d \in peers}) # {},
           addr' = [addr EXCEPT ![c] = Sh!nextIP(cidr, {addr[d] : d \in peers})],
           cidr' = cidr, peers' = peers \union {c}
    PROVE  /\ addr' \in [Peers -> Nat] /\ addr'[c] # 0
           /\ \A x \in Peers \ {c} : addr'[x] = addr[x]
           /\ peers' \subseteq Peers /\ IsFiniteSet(peers')
           /\ Sh!OwnAddresses'
<1>1. PICK a : a = Sh!nextIP(cidr, {addr[d] : d \in peers})
  OBVIOUS
<1>2. a \in Sh!Gives(cidr) \ {addr[d] : d \in peers} /\ a \in Nat \ {0}
  BY <1>1, FirstFree
<1>3. /\ addr' \in [Peers -> Nat] /\ addr'[c] = a
      /\ \A x \in Peers \ {c} : addr'[x] = addr[x]
  BY <1>1, <1>2
<1>4. peers' \subseteq Peers /\ IsFiniteSet(peers')
  BY FS_AddElement
<1>5. \A d \in peers : addr[d] # a
  BY <1>2
<1>6. \A x, y \in peers : addr[x] = addr[y] => x = y
  BY DEF Sh!OwnAddresses, Sh!Unique
<1>7. ASSUME NEW x \in peers', NEW y \in peers', addr'[x] = addr'[y] PROVE x = y
  BY <1>3, <1>5, <1>6, <1>7
<1>8. a \in Sh!Within(cidr)
  BY <1>2 DEF Sh!Gives, Sh!Within, Sh!Cidr
<1>9. \A x \in peers' : addr'[x] \in Sh!Within(cidr)
  BY <1>3, <1>8 DEF Sh!OwnAddresses
<1> QED BY <1>2, <1>3, <1>4, <1>7, <1>9 DEF Sh!OwnAddresses, Sh!Unique, Sh!Within

LEMMA CreateSound ==
    ASSUME ShapingInv, NEW c \in Peers, Sh!CreateRequest(c) PROVE ShapingInv'
<1>1. /\ addr[c] = 0 /\ c \notin peers
      /\ Sh!Free(cidr, {addr[d] : d \in peers}) # {}
      /\ peers' = peers \union {c} /\ enabled' = enabled \union {c}
      /\ addr' = [addr EXCEPT ![c] = Sh!nextIP(cidr, {addr[d] : d \in peers})]
      /\ UNCHANGED <<cidr, limit, class, filters, req, again, missed>>
  BY DEF Sh!CreateRequest, Sh!kernel
<1>2. ShapingShape /\ Ordered /\ InStep /\ Sh!OwnAddresses /\ cidr \in Sh!Cidr
  BY ShapingFacts DEF ShapingInv, ShapingShape
<1>3. /\ addr' \in [Peers -> Nat] /\ addr'[c] # 0
      /\ \A x \in Peers \ {c} : addr'[x] = addr[x]
      /\ peers' \subseteq Peers /\ IsFiniteSet(peers')
      /\ Sh!OwnAddresses'
  BY <1>1, <1>2, OneComes DEF ShapingShape
<1>4. /\ limit[c] = Sh!Unlimited /\ c \notin again.todo
      /\ \A q \in Actors : req[q].c # c
      /\ \A f \in filters : f.to # Sh!classIdFor(c)
  BY <1>1, <1>2 DEF Ordered, Unborn
<1>5. ShapingShape'
  BY <1>1, <1>2, <1>3 DEF ShapingShape
<1>6. \A p \in Actors : RequestMakesSense(req[p])'
  <2> SUFFICES ASSUME NEW p \in Actors PROVE RequestMakesSense(req[p])'
    OBVIOUS
  <2>1. RequestMakesSense(req[p]) /\ req'[p] = req[p] /\ req[p].c # c
    BY <1>1, <1>2, <1>4 DEF Ordered
  <2>2. \A x \in Peers : addr[x] # 0 => addr'[x] # 0
    BY <1>1, <1>3
  <2> QED BY <1>1, <2>1, <2>2 DEF RequestMakesSense
<1>7. \A x \in Peers : Unborn(x)'
  BY <1>1, <1>2, <1>3 DEF Ordered, Unborn
<1>8. InStep'
  <2>1. PICK C \in SUBSET Peers : C = {c}
    OBVIOUS
  <2>2. ASSUME NEW x \in Peers \ C
        PROVE  SameRow(x) /\ SameLoop(x) /\ SameRequests(x) /\ KernelKeeps(x)
    <3>1. SameRow(x) /\ SameLoop(x) /\ SameRequests(x)
      BY <1>1, <1>3, <2>1 DEF SameRow, SameLoop, SameRequests, Stays
    <3>2. KernelKeeps(x)
      BY <1>1, <1>3, <2>1, KernelIdle
    <3> QED BY <3>1, <3>2
  <2>3. ASSUME NEW d \in Sh!Dirs PROVE Fits(d, c)'
    <3>1. NoFilter(d, c)' /\ limit'[c][d] = 0
      BY <1>1, <1>4, ShapingFacts DEF NoFilter, OwnFilter
    <3> QED BY <3>1 DEF Fits
  <2>4. Settles(c)' /\ Waits(c)'
    BY <1>1, <1>4, <2>3 DEF Settles, Waits
  <2>5. ASSUME NEW p \in Actors, req'[p].c \in C \/ req'[p].c \notin Peers PROVE Runs(p)'
    BY <1>1, <1>2, <1>4, <2>1, <2>5, RequestsOf, RunsIdle
  <2>6. \A x \in C : Settles(x)' /\ Waits(x)'
    BY <2>1, <2>4
  <2> QED BY <1>2, <2>2, <2>5, <2>6, StepsInStep
<1> QED BY <1>3, <1>5, <1>6, <1>7, <1>8 DEF ShapingInv, Ordered

LEMMA DeleteSound ==
    ASSUME ShapingInv, NEW c \in Peers, Sh!DeleteRequest(c) PROVE ShapingInv'
<1>1. /\ c \in peers /\ peers' = peers \ {c} /\ enabled' = enabled \ {c}
      /\ limit' = [limit EXCEPT ![c] = Sh!Unlimited]
      /\ UNCHANGED <<cidr, addr, class, filters, req, again, missed>>
  BY DEF Sh!DeleteRequest, Sh!kernel
<1>2. ShapingShape /\ Ordered /\ InStep /\ Sh!OwnAddresses
  BY DEF ShapingInv
<1>3. /\ limit' \in [Peers -> [Sh!Dirs -> Nat]] /\ limit'[c] = Sh!Unlimited
      /\ \A x \in Peers \ {c} : limit'[x] = limit[x]
  BY <1>1, <1>2, ShapingFacts DEF ShapingShape
<1>4. peers' \subseteq Peers /\ IsFiniteSet(peers') /\ enabled' \subseteq peers'
  BY <1>1, <1>2, FS_Subset DEF ShapingShape
<1>5. ShapingShape'
  BY <1>1, <1>2, <1>3, <1>4 DEF ShapingShape
<1>6. \A p \in Actors : RequestMakesSense(req[p])'
  BY <1>1, <1>2 DEF Ordered, RequestMakesSense
<1>7. \A x \in Peers : Unborn(x)'
  BY <1>1, <1>2, <1>3 DEF Ordered, Unborn
<1>8. InStep'
  <2>1. PICK C \in SUBSET Peers : C = {c}
    OBVIOUS
  <2>2. ASSUME NEW x \in Peers \ C
        PROVE  SameRow(x) /\ SameLoop(x) /\ SameRequests(x) /\ KernelKeeps(x)
    <3>1. SameRow(x) /\ SameLoop(x) /\ SameRequests(x)
      BY <1>1, <1>3, <2>1 DEF SameRow, SameLoop, SameRequests, Stays
    <3>2. KernelKeeps(x)
      BY <1>1, <1>3, <2>1, KernelIdle
    <3> QED BY <3>1, <3>2
  <2>3. \A x \in C : Settles(x)' /\ Waits(x)'
    BY <1>1, <2>1 DEF Settles, Waits
  <2>4. ASSUME NEW p \in Actors, req'[p].c \in C \/ req'[p].c \notin Peers PROVE Runs(p)'
    <3>1. CASE req'[p].c = c
      <4>1. Runs(p) /\ req'[p] = req[p] /\ c \notin peers'
        BY <1>1, <1>2 DEF InStep
      <4> QED BY <1>1, <3>1, <4>1 DEF Runs
    <3>2. CASE req'[p].c # c
      BY <1>1, <1>2, <2>1, <2>4, <3>2, RequestsOf, RunsIdle
    <3> QED BY <3>1, <3>2
  <2> QED BY <1>2, <2>2, <2>3, <2>4, StepsInStep
<1>9. Sh!OwnAddresses'
  BY <1>1, <1>2 DEF Sh!OwnAddresses, Sh!Unique, Sh!Within
<1> QED BY <1>5, <1>6, <1>7, <1>8, <1>9 DEF ShapingInv, Ordered

\* Nothing that the invariant speaks of but enabled changes.
LEMMA OthersUnmoved ==
    ASSUME ShapingInv, enabled' \subseteq peers,
           UNCHANGED <<cidr, peers, addr, limit, class, filters, req, again, missed>>
    PROVE  ShapingInv'
<1>1. ShapingShape /\ Ordered /\ InStep /\ Sh!OwnAddresses
  BY DEF ShapingInv
<1>2. ShapingShape' /\ Ordered'
  BY <1>1 DEF ShapingShape, Ordered, RequestMakesSense, Unborn
<1>3. Sh!OwnAddresses'
  BY <1>1 DEF Sh!OwnAddresses, Sh!Unique, Sh!Within
<1>4. InStep'
  <2>1. PICK C \in SUBSET Peers : C = {}
    OBVIOUS
  <2>2. ASSUME NEW x \in Peers
        PROVE  SameRow(x) /\ SameLoop(x) /\ SameRequests(x) /\ KernelKeeps(x)
    <3>1. SameRow(x) /\ SameLoop(x) /\ SameRequests(x)
      BY DEF SameRow, SameLoop, SameRequests, Stays
    <3>2. KernelKeeps(x)
      BY KernelIdle
    <3> QED BY <3>1, <3>2
  <2>3. ASSUME NEW p \in Actors, req'[p].c \in C \/ req'[p].c \notin Peers PROVE Runs(p)'
    BY <1>1, <2>1, <2>3, RequestsOf, RunsIdle
  <2> QED BY <1>1, <2>1, <2>2, <2>3, StepsInStep
<1> QED BY <1>2, <1>3, <1>4 DEF ShapingInv

LEMMA ToggleSound ==
    ASSUME ShapingInv, NEW c \in Peers, Sh!Toggle(c) PROVE ShapingInv'
<1>1. enabled' \subseteq peers
  BY DEF Sh!Toggle, ShapingInv, ShapingShape
<1>2. UNCHANGED <<cidr, peers, addr, limit, class, filters, req, again, missed>>
  BY DEF Sh!Toggle, Sh!kernel
<1> QED BY <1>1, <1>2, OthersUnmoved

\* All clients move at once.
LEMMA AllMove ==
    ASSUME addr \in [Peers -> Nat], peers \subseteq Peers, NEW r \in Sh!Cidr,
           NEW new \in Sh!Moves(r, peers, addr), Sh!Unique(peers, new),
           addr' = [x \in Peers |-> IF x \in peers THEN new[x] ELSE addr[x]],
           cidr' = r, peers' = peers
    PROVE  /\ addr' \in [Peers -> Nat]
           /\ \A x \in peers : addr'[x] = new[x] /\ addr'[x] # 0
           /\ \A x \in Peers \ peers : addr'[x] = addr[x]
           /\ Sh!OwnAddresses'
<1>1. \A x \in peers : new[x] \in Sh!Gives(r)
  BY DEF Sh!Moves
<1>2. \A x \in peers : new[x] \in Nat /\ new[x] # 0 /\ new[x] \in Sh!Within(r)
  BY <1>1 DEF Sh!Gives, Sh!Within, Sh!Cidr
<1>3. /\ addr' \in [Peers -> Nat]
      /\ \A x \in peers : addr'[x] = new[x]
      /\ \A x \in Peers \ peers : addr'[x] = addr[x]
  BY <1>2
<1>4. \A x, y \in peers : addr'[x] = addr'[y] => x = y
  BY <1>3 DEF Sh!Unique
<1> QED BY <1>2, <1>3, <1>4 DEF Sh!OwnAddresses, Sh!Unique, Sh!Within

LEMMA RenumberSound ==
    ASSUME ShapingInv, NEW r \in Cidrs, NEW new \in Sh!Moves(r, peers, addr),
           Sh!Renumber(r, new)
    PROVE  ShapingInv'
<1>1. /\ Sh!Unique(peers, new) /\ cidr' = r
      /\ addr' = [x \in Peers |-> IF x \in peers THEN new[x] ELSE addr[x]]
      /\ req' = Sh!Disturbed(peers) /\ again' = [again EXCEPT !.clean = {}]
      /\ missed' = missed \union Sh!Limited \union {x \in peers : Sh!Leftover(x, new[x])}
      /\ UNCHANGED <<peers, limit, enabled, class, filters>>
  BY DEF Sh!Renumber, Sh!kernel
<1>2. ShapingShape /\ Ordered /\ InStep /\ r \in Sh!Cidr
  BY ShapingFacts DEF ShapingInv
<1>3. /\ addr' \in [Peers -> Nat]
      /\ \A x \in peers : addr'[x] = new[x] /\ addr'[x] # 0
      /\ \A x \in Peers \ peers : addr'[x] = addr[x]
      /\ Sh!OwnAddresses'
  BY <1>1, <1>2, AllMove DEF ShapingShape
<1>4. /\ DOMAIN req' = Actors /\ req' = [p \in Actors |-> req'[p]]
      /\ \A p \in Actors : /\ req'[p] \in Sh!Request /\ Stays(p)
                           /\ req'[p].clean => req[p].c \notin peers
  <2>1. PICK D : D = Sh!Disturbed(peers)
    OBVIOUS
  <2>2. DOMAIN D = Actors /\ D = [p \in Actors |-> D[p]]
    BY <2>1 DEF Sh!Disturbed
  <2>3. \A p \in Actors :
          /\ D[p] \in Sh!Request
          /\ D[p].at = req[p].at /\ D[p].kind = req[p].kind /\ D[p].c = req[p].c
          /\ D[p].lim = req[p].lim /\ D[p].addr = req[p].addr
          /\ D[p].clean => req[p].clean /\ req[p].c \notin peers
    BY <1>2, <2>1, Disturbances
  <2> QED BY <1>1, <2>1, <2>2, <2>3 DEF Stays
<1>5. req' \in [Actors -> Sh!Request]
  BY <1>4
<1>6. /\ again' \in Sh!Again /\ again'.clean = {} /\ again'.todo = again.todo
      /\ again'.lim = again.lim /\ again'.addr = again.addr
  <2>1. PICK old \in Sh!Again : old = again
    BY <1>2 DEF ShapingShape
  <2>2. again' = [old EXCEPT !.clean = {}]
    BY <1>1, <2>1
  <2> QED BY <2>1, <2>2 DEF Sh!Again
<1>7. missed' \subseteq Peers /\ missed \subseteq missed'
  BY <1>1, <1>2 DEF ShapingShape, Sh!Limited
<1>8. ShapingShape'
  BY <1>1, <1>2, <1>3, <1>5, <1>6, <1>7 DEF ShapingShape
<1>9. ASSUME NEW p \in Actors PROVE RequestMakesSense(req[p])'
  <2>1. \A x \in Peers : addr[x] # 0 => addr'[x] # 0
    BY <1>3
  <2>2. RequestMakesSense(req[p]) /\ Stays(p)
    BY <1>2, <1>4 DEF Ordered
  <2> QED BY <1>1, <2>1, <2>2 DEF RequestMakesSense, Stays
<1>10. ASSUME NEW x \in Peers PROVE Unborn(x)'
  <2> SUFFICES ASSUME addr'[x] = 0
               PROVE  /\ x \notin peers' /\ limit'[x] = Sh!Unlimited /\ x \notin again'.todo
                      /\ \A p \in Actors : req'[p].c # x
                      /\ \A f \in filters' : f.to # Sh!classIdFor(x)
    BY DEF Unborn
  <2>1. addr[x] = 0
    BY <1>3
  <2>2. /\ x \notin peers /\ limit[x] = Sh!Unlimited /\ x \notin again.todo
        /\ \A p \in Actors : req[p].c # x
        /\ \A f \in filters : f.to # Sh!classIdFor(x)
    BY <1>2, <2>1 DEF Ordered, Unborn
  <2>3. \A p \in Actors : req'[p].c # x
    BY <1>4, <2>2 DEF Stays
  <2> QED BY <1>1, <1>6, <2>2, <2>3
<1>11. InStep'
  <2>1. PICK C \in SUBSET Peers : C = peers
    BY <1>2 DEF ShapingShape
  <2>2. ASSUME NEW x \in Peers \ C
        PROVE  SameRow(x) /\ SameLoop(x) /\ SameRequests(x) /\ x \notin peers
    <3>1. SameRow(x) /\ x \notin peers
      BY <1>1, <1>3, <1>7, <2>1 DEF SameRow
    <3>2. SameLoop(x)
      BY <1>6 DEF SameLoop
    <3>3. SameRequests(x)
      BY <1>4 DEF SameRequests
    <3> QED BY <3>1, <3>2, <3>3
  <2>3. ASSUME NEW x \in peers PROVE Settles(x)' /\ Waits(x)'
    <3>1. Waits(x)'
      BY <1>6 DEF Waits
    <3>2. ASSUME x \notin missed', NEW d \in Sh!Dirs PROVE Fits(d, x)'
      <4>1. limit[x] = Sh!Unlimited /\ ~Sh!Leftover(x, new[x]) /\ x \in Peers
        BY <1>1, <1>2, <3>2 DEF Sh!Limited, ShapingShape
      <4>2. PICK g : g = OwnFilter(d, x)'
        OBVIOUS
      <4>3. g.addr = new[x] /\ g.to = Sh!classIdFor(x)
        BY <1>3, <4>2 DEF OwnFilter
      <4>4. g \notin filters
        BY <4>1, <4>3 DEF Sh!Leftover
      <4>5. limit'[x][d] = 0 /\ NoFilter(d, x)'
        BY <1>1, <4>1, <4>2, <4>4, ShapingFacts DEF NoFilter
      <4> QED BY <4>5 DEF Fits
    <3> QED BY <3>1, <3>2 DEF Settles
  <2>4. ASSUME NEW p \in Actors, req'[p].c \in C \/ req'[p].c \notin Peers PROVE Runs(p)'
    <3>1. CASE req'[p].c \in C
      BY <1>4, <2>1, <3>1, RunsIdle DEF Stays
    <3>2. CASE req'[p].c \notin Peers
      BY <1>2, <1>4, <3>2, RequestsOf, RunsIdle DEF Stays
    <3> QED BY <2>4, <3>1, <3>2
  <2>5. \A x \in C : Settles(x)' /\ Waits(x)'
    BY <2>1, <2>3
  <2> QED BY <1>2, <2>2, <2>4, <2>5, StepsInStep
<1> QED BY <1>3, <1>8, <1>9, <1>10, <1>11 DEF ShapingInv, Ordered

-----------------------------------------------------------------------------
\* The loop takes one client, and the others do not notice.
LEMMA LoopTakes ==
    ASSUME ShapingShape, NEW c \in Peers, c \in again.todo,
           again' = [again EXCEPT !.todo = @ \ {c}]
    PROVE  /\ again' \in Sh!Again /\ c \notin again'.todo /\ again'.todo \subseteq again.todo
           /\ \A x \in Peers \ {c} : SameLoop(x)
<1>1. PICK old \in Sh!Again : old = again
  BY DEF ShapingShape
<1>2. PICK W \in SUBSET Peers : W = old.todo \ {c}
  BY DEF Sh!Again
<1>3. again' = [old EXCEPT !.todo = W]
  BY <1>1, <1>2
<1>4. /\ again' \in Sh!Again /\ again'.todo = W /\ again'.clean = old.clean
      /\ again'.lim = old.lim /\ again'.addr = old.addr
  BY <1>3 DEF Sh!Again
<1> QED BY <1>1, <1>2, <1>4 DEF SameLoop

LEMMA LoopSound ==
    ASSUME ShapingInv, OwnClasses, NEW c \in Peers, c \in again.todo,
           again' = [again EXCEPT !.todo = @ \ {c}],
           UNCHANGED <<cidr, peers, addr, enabled, limit, req>>,
           class' \in [Sh!Dirs -> [1 .. Slots -> Nat]], FiltersTyped(filters'),
           missed' \subseteq Peers, missed \subseteq missed',
           \A f \in filters' \ filters : f.to = 0 \/ f.to = Sh!classIdFor(c),
           \A x \in Peers \ {c} : KernelKeeps(x),
           c \in peers /\ c \notin missed' /\ c \in again.clean /\ Waits(c)
             => \A d \in Sh!Dirs : Fits(d, c)',
           c \notin again.clean => c \in missed'
    PROVE  ShapingInv'
<1>1. ShapingShape /\ Ordered /\ InStep /\ Sh!OwnAddresses
  BY DEF ShapingInv
<1>2. /\ again' \in Sh!Again /\ c \notin again'.todo /\ again'.todo \subseteq again.todo
      /\ \A x \in Peers \ {c} : SameLoop(x)
  BY <1>1, LoopTakes
<1>3. ShapingShape'
  BY <1>1, <1>2 DEF ShapingShape, FiltersTyped
<1>4. \A p \in Actors : RequestMakesSense(req[p])'
  BY <1>1 DEF Ordered, RequestMakesSense
<1>5. ASSUME NEW x \in Peers, addr'[x] = 0 PROVE Unborn(x)'
  <2>1. /\ x \notin peers /\ limit[x] = Sh!Unlimited /\ x \notin again.todo
        /\ \A p \in Actors : req[p].c # x
        /\ \A f \in filters : f.to # Sh!classIdFor(x)
    BY <1>1, <1>5 DEF Ordered, Unborn
  <2>2. Sh!classIdFor(x) # 0 /\ Sh!classIdFor(x) # Sh!classIdFor(c)
    BY <2>1, ShapingFacts DEF OwnClasses
  <2>3. \A f \in filters' : f.to # Sh!classIdFor(x)
    BY <2>1, <2>2
  <2> QED BY <1>2, <2>1, <2>3 DEF Unborn
<1>6. InStep'
  <2>1. PICK C \in SUBSET Peers : C = {c}
    OBVIOUS
  <2>2. ASSUME NEW x \in Peers \ C
        PROVE  SameRow(x) /\ SameLoop(x) /\ SameRequests(x) /\ KernelKeeps(x)
    BY <1>2, <2>1 DEF SameRow, SameRequests, Stays
  <2>3. Waits(c)'
    BY <1>2 DEF Waits
  <2>4. Settles(c)'
    BY <1>1 DEF Settles, InStep
  <2>5. ASSUME NEW p \in Actors, req'[p].c \in C \/ req'[p].c \notin Peers PROVE Runs(p)'
    <3>1. CASE req[p].c = c
      <4>1. Runs(p)
        BY <1>1 DEF InStep
      <4>2. req[p].at = "idle" \/ ~req[p].clean
        BY <3>1, <4>1 DEF Runs
      <4> QED BY <4>2, RunsIdle
    <3>2. CASE req[p].c # c
      BY <1>1, <2>1, <2>5, <3>2, RequestsOf, RunsIdle
    <3> QED BY <3>1, <3>2
  <2>6. \A x \in C : Settles(x)' /\ Waits(x)'
    BY <2>1, <2>3, <2>4
  <2> QED BY <1>1, <2>2, <2>5, <2>6, StepsInStep
<1>7. Sh!OwnAddresses'
  BY <1>1 DEF Sh!OwnAddresses, Sh!Unique, Sh!Within
<1>8. \A x \in Peers : Unborn(x)'
  BY <1>5 DEF Unborn
<1> QED BY <1>3, <1>4, <1>6, <1>7, <1>8 DEF ShapingInv, Ordered

LEMMA ReapplyFailsSound ==
    ASSUME ShapingInv, OwnClasses, NEW c \in Peers, Sh!ReapplyFails(c) PROVE ShapingInv'
<1>1. /\ c \in again.todo /\ missed' = missed \union {c}
      /\ again' = [again EXCEPT !.todo = @ \ {c}]
      /\ UNCHANGED <<cidr, peers, addr, enabled, limit, class, filters, req>>
  BY DEF Sh!ReapplyFails, Sh!table, Sh!kernel
<1>2. missed' \subseteq Peers /\ FiltersTyped(filters')
      /\ class' \in [Sh!Dirs -> [1 .. Slots -> Nat]]
  BY <1>1 DEF ShapingInv, ShapingShape, FiltersTyped
<1>3. \A x \in Peers \ {c} : KernelKeeps(x)
  BY <1>1, KernelIdle
<1> QED BY <1>1, <1>2, <1>3, LoopSound

\* What one turn of the loop does to the kernel.
LoopClasses(k, l) ==
  /\ class' \in [Sh!Dirs -> [1 .. Slots -> Nat]]
  /\ \A d \in Sh!Dirs : l[d] > 0 => class'[d][k] = l[d]
  /\ \A d \in Sh!Dirs, j \in 1 .. Slots : j # k => class'[d][j] = class[d][j]
LoopFilters(a, k, l) ==
  /\ FiltersTyped(filters') /\ filters \subseteq filters'
  /\ \A d \in Sh!Dirs : l[d] > 0 => [on |-> Sh!device(d), addr |-> a, to |-> k] \in filters'
  /\ l["up"] > 0 => [on |-> "ingress", addr |-> a, to |-> 0] \in filters'
  /\ \A f \in filters' \ filters : \E d \in Sh!Dirs :
       /\ l[d] > 0
       /\ \/ f.on = Sh!device(d) /\ f.to = k
          \/ f.on = "ingress" /\ f.to = 0

LEMMA LoopShapes ==
    ASSUME ShapingShape, NEW c \in Peers, NEW a \in Nat, NEW l \in [Sh!Dirs -> Nat],
           NEW k, k = Sh!classIdFor(c),
           class' = [d \in Sh!Dirs |-> Sh!WithClass(d, k, l[d])[d]],
           filters' = UNION {Sh!WithFilters(d, a, k, l[d]) : d \in Sh!Dirs}
    PROVE  LoopClasses(k, l) /\ LoopFilters(a, k, l)
<1>1. k \in 1 .. Slots
  BY ShapingFacts
<1>2. ASSUME NEW d \in Sh!Dirs
      PROVE  /\ class'[d] \in [1 .. Slots -> Nat] /\ (l[d] > 0 => class'[d][k] = l[d])
             /\ \A j \in 1 .. Slots : j # k => class'[d][j] = class[d][j]
  <2>1. PICK rate \in Nat : rate = l[d]
    OBVIOUS
  <2>2. PICK W : W = Sh!WithClass(d, k, rate)
    OBVIOUS
  <2>3. class'[d] = W[d]
    BY <2>1, <2>2
  <2>4. CASE rate = 0
    <3>1. W = class
      BY <2>2, <2>4 DEF Sh!WithClass
    <3> QED BY <2>1, <2>3, <2>4, <3>1 DEF ShapingShape
  <2>5. CASE rate # 0
    <3>1. W = [class EXCEPT ![d][k] = rate]
      BY <2>2, <2>5 DEF Sh!WithClass
    <3>2. RateIs(W, d, k, rate)
      BY <1>1, <3>1, RateSet
    <3> QED BY <2>1, <2>3, <3>2 DEF RateIs
  <2> QED BY <2>4, <2>5
<1>3. class' \in [Sh!Dirs -> [1 .. Slots -> Nat]]
  <2>1. class' = [d \in Sh!Dirs |-> class'[d]]
    OBVIOUS
  <2> QED BY <1>2, <2>1
<1>4. PICK V : V = [d \in Sh!Dirs |-> Sh!WithFilters(d, a, k, l[d])]
  OBVIOUS
<1>5. ASSUME NEW d \in Sh!Dirs
      PROVE  /\ FiltersTyped(V[d]) /\ AddsOnly(V[d], d, c, a, l[d])
             /\ Adds(V[d], d, c, a, l[d])
  <2>1. PICK rate \in Nat : rate = l[d]
    OBVIOUS
  <2>2. V[d] = Sh!WithFilters(d, a, Sh!classIdFor(c), rate)
    BY <1>4, <2>1
  <2> QED BY <2>1, <2>2, AddedFilters
<1>6. filters' = UNION {V[d] : d \in Sh!Dirs}
  BY <1>4
<1>7. FiltersTyped(filters')
  BY <1>5, <1>6 DEF FiltersTyped
<1>8. filters \subseteq filters'
  BY <1>5, <1>6, Devices DEF Adds
<1>9. ASSUME NEW d \in Sh!Dirs, l[d] > 0
      PROVE  [on |-> Sh!device(d), addr |-> a, to |-> k] \in filters'
  <2>1. [on |-> Sh!device(d), addr |-> a, to |-> k] \in V[d]
    BY <1>5, <1>9 DEF Adds
  <2> QED BY <1>6, <2>1
<1>10. ASSUME l["up"] > 0 PROVE [on |-> "ingress", addr |-> a, to |-> 0] \in filters'
  <2>1. [on |-> "ingress", addr |-> a, to |-> 0] \in V["up"]
    BY <1>5, <1>10, Devices DEF Adds
  <2> QED BY <1>6, <2>1, Devices
<1>11. ASSUME NEW f \in filters' \ filters
       PROVE  \E d \in Sh!Dirs : /\ l[d] > 0
                                 /\ \/ f.on = Sh!device(d) /\ f.to = k
                                    \/ f.on = "ingress" /\ f.to = 0
  <2>1. PICK d \in Sh!Dirs : f \in V[d]
    BY <1>6
  <2>2. /\ l[d] > 0
        /\ \/ f.on = Sh!device(d) /\ f.to = k
           \/ f.on = "ingress" /\ f.to = 0
    BY <1>5, <2>1 DEF AddsOnly
  <2> QED BY <2>2
<1>12. LoopClasses(k, l)
  BY <1>2, <1>3 DEF LoopClasses
<1> QED BY <1>7, <1>8, <1>9, <1>10, <1>11, <1>12 DEF LoopFilters

LEMMA ReapplyOneSound ==
    ASSUME ShapingInv, OwnClasses, NEW c \in Peers, Sh!ReapplyOne(c) PROVE ShapingInv'
<1> DEFINE k == Sh!classIdFor(c)
<1>1. ShapingShape /\ k \in 1 .. Slots
  BY ShapingFacts DEF ShapingInv
<1>2. PICK a \in Nat : a = again.addr[c]
  BY <1>1 DEF ShapingShape, Sh!Again
<1>3. PICK l \in [Sh!Dirs -> Nat] : l = again.lim[c]
  BY <1>1 DEF ShapingShape, Sh!Again
<1>4. /\ c \in again.todo
      /\ class' = [d \in Sh!Dirs |-> Sh!WithClass(d, k, l[d])[d]]
      /\ filters' = UNION {Sh!WithFilters(d, a, k, l[d]) : d \in Sh!Dirs}
      /\ missed' = IF c \in again.clean THEN missed ELSE missed \union {c}
      /\ again' = [again EXCEPT !.todo = @ \ {c}]
      /\ UNCHANGED <<cidr, peers, addr, enabled, limit, req>>
  BY <1>2, <1>3 DEF Sh!ReapplyOne, Sh!table
<1>5. /\ class' \in [Sh!Dirs -> [1 .. Slots -> Nat]] /\ FiltersTyped(filters')
      /\ \A d \in Sh!Dirs : l[d] > 0 => class'[d][k] = l[d]
      /\ \A d \in Sh!Dirs, j \in 1 .. Slots : j # k => class'[d][j] = class[d][j]
      /\ filters \subseteq filters'
      /\ \A d \in Sh!Dirs : l[d] > 0 => [on |-> Sh!device(d), addr |-> a, to |-> k] \in filters'
      /\ l["up"] > 0 => [on |-> "ingress", addr |-> a, to |-> 0] \in filters'
      /\ \A f \in filters' \ filters : \E d \in Sh!Dirs :
           /\ l[d] > 0
           /\ \/ f.on = Sh!device(d) /\ f.to = k
              \/ f.on = "ingress" /\ f.to = 0
  <2>1. LoopClasses(k, l) /\ LoopFilters(a, k, l)
    <3>1. PICK j : j = k
      OBVIOUS
    <3>2. LoopClasses(j, l) /\ LoopFilters(a, j, l)
      BY <1>1, <1>4, <3>1, LoopShapes
    <3> QED BY <3>1, <3>2
  <2> QED BY <2>1 DEF LoopClasses, LoopFilters
<1>6. \A f \in filters' \ filters : f.to = 0 \/ f.to = k
  BY <1>5
<1>7. ASSUME NEW x \in Peers \ {c} PROVE KernelKeeps(x)
  <2>1. Sh!classIdFor(x) \in 1 .. Slots /\ Sh!classIdFor(x) # k
    BY ShapingFacts DEF OwnClasses
  <2>2. \A d \in Sh!Dirs : OwnFilter(d, x)' = OwnFilter(d, x) /\ Ingress(x)' = Ingress(x)
    BY <1>4 DEF OwnFilter, Ingress
  <2>3. ASSUME NEW d \in Sh!Dirs, NoFilter(d, x) PROVE NoFilter(d, x)'
    <3>1. OwnFilter(d, x).to = Sh!classIdFor(x) /\ OwnFilter(d, x).to # 0
      BY <1>1, OwnFields
    <3> QED BY <1>6, <2>1, <2>2, <2>3, <3>1 DEF NoFilter
  <2>4. ASSUME NEW d \in Sh!Dirs, OnRate(d, x) PROVE OnRate(d, x)'
    BY <1>4, <1>5, <2>1, <2>2, <2>4 DEF OnRate
  <2> QED BY <2>3, <2>4 DEF KernelKeeps
<1>8. ASSUME c \in peers, c \notin missed', c \in again.clean, Waits(c), NEW d \in Sh!Dirs
      PROVE  Fits(d, c)'
  <2>1. l = limit[c] /\ a = addr[c] /\ Clear(c)
    BY <1>2, <1>3, <1>4, <1>8 DEF Waits
  <2>2. /\ OwnFilter(d, c)' = OwnFilter(d, c) /\ Ingress(c)' = Ingress(c)
        /\ limit'[c] = limit[c]
    BY <1>4 DEF OwnFilter, Ingress
  <2>3. CASE l[d] > 0
    <3>1. OwnFilter(d, c) = [on |-> Sh!device(d), addr |-> a, to |-> k]
      BY <2>1 DEF OwnFilter
    <3>2. Ingress(c) = [on |-> "ingress", addr |-> a, to |-> 0]
      BY <2>1 DEF Ingress
    <3>3. OwnFilter(d, c) \in filters' /\ (d = "up" => Ingress(c) \in filters')
      BY <1>5, <2>3, <3>1, <3>2
    <3>4. class'[d][k] = limit[c][d]
      BY <1>5, <2>1, <2>3
    <3> QED BY <2>1, <2>2, <2>3, <3>3, <3>4 DEF Fits, OnRate
  <2>4. CASE ~(l[d] > 0)
    <3>1. l[d] = 0 /\ OwnFilter(d, c) \notin filters
      BY <2>1, <2>4 DEF Clear, NoFilter
    <3>2. OwnFilter(d, c) \notin filters'
      <4> SUFFICES ASSUME OwnFilter(d, c) \in filters' PROVE FALSE
        OBVIOUS
      <4>1. PICK f : f = OwnFilter(d, c)
        OBVIOUS
      <4>2. f.on = Sh!device(d) /\ f.to # 0
        BY <1>1, <4>1, OwnFields
      <4>3. PICK e \in Sh!Dirs : l[e] > 0 /\ f.on = Sh!device(e)
        BY <1>5, <3>1, <4>1, <4>2
      <4> QED BY <2>4, <4>2, <4>3, Devices
    <3> QED BY <2>1, <2>2, <2>4, <3>2 DEF Fits, NoFilter
  <2> QED BY <2>3, <2>4
<1>9. /\ missed' \subseteq Peers /\ missed \subseteq missed'
      /\ c \notin again.clean => c \in missed'
  BY <1>1, <1>4 DEF ShapingShape
<1> QED BY <1>4, <1>5, <1>6, <1>7, <1>8, <1>9, LoopSound

-----------------------------------------------------------------------------
\* The start of the engine leaves the limits of the enabled clients to the loop.
LEMMA ReloadFacts ==
    ASSUME ShapingShape, Ordered, NEW C \in SUBSET Peers,
           again' = [todo |-> Sh!ReapplyTo, lim |-> limit, addr |-> addr, clean |-> C]
    PROVE  /\ again' \in Sh!Again /\ again'.lim = limit /\ again'.addr = addr /\ again'.clean = C
           /\ again'.todo = {x \in peers : limit[x] # Sh!Unlimited} \intersect enabled
           /\ \A x \in Peers : x \in again'.todo => addr[x] # 0
<1>1. PICK W : W = Sh!ReapplyTo
  OBVIOUS
<1>2. W = {x \in peers : limit[x] # Sh!Unlimited} \intersect enabled
  BY <1>1 DEF Sh!ReapplyTo, Sh!Limited
<1>3. W \subseteq Peers
  BY <1>2 DEF ShapingShape
<1>4. /\ again'.todo = W /\ again'.lim = limit /\ again'.addr = addr /\ again'.clean = C
      /\ again' \in Sh!Again
  BY <1>1, <1>3 DEF Sh!Again, ShapingShape
<1>5. \A x \in Peers : x \in W => addr[x] # 0
  BY <1>2 DEF Ordered, Unborn
<1> QED BY <1>2, <1>4, <1>5

\* After a start the loop has the clients with a limit; what is left of the kernel
\* shapes none of the others.
LEMMA StartSound ==
    ASSUME ShapingInv, UNCHANGED <<cidr, peers, addr, enabled, limit>>,
           class' \in [Sh!Dirs -> [1 .. Slots -> Nat]], filters' \subseteq filters,
           req' \in [Actors -> Sh!Request],
           \A p \in Actors :
             req'[p] = Sh!Idle \/ (Stays(p) /\ (req'[p].at = "idle" \/ ~req'[p].clean)),
           NEW C \in SUBSET Peers,
           again' = [todo |-> Sh!ReapplyTo, lim |-> limit, addr |-> addr, clean |-> C],
           \A x \in C, p \in Actors : req'[p].c # x,
           missed' \subseteq Peers, Sh!Limited \ enabled \subseteq missed',
           \A x \in peers \ missed', d \in Sh!Dirs :
             /\ limit[x][d] = 0
             /\ x \in C \/ (limit[x] = Sh!Unlimited /\ \A p \in Actors : req'[p].c # x)
             => NoFilter(d, x)'
    PROVE  ShapingInv'
<1>1. ShapingShape /\ Ordered /\ InStep /\ Sh!OwnAddresses
  BY DEF ShapingInv
<1>2. /\ again' \in Sh!Again /\ again'.lim = limit /\ again'.addr = addr /\ again'.clean = C
      /\ again'.todo = {x \in peers : limit[x] # Sh!Unlimited} \intersect enabled
      /\ \A x \in Peers : x \in again'.todo => addr[x] # 0
  BY <1>1, ReloadFacts
<1>3. ShapingShape'
  BY <1>1, <1>2 DEF ShapingShape
<1>4. ASSUME NEW p \in Actors PROVE RequestMakesSense(req[p])'
  <2>1. CASE req'[p] = Sh!Idle
    BY <2>1, IdleRequest DEF RequestMakesSense
  <2>2. CASE Stays(p)
    BY <1>1, <2>2 DEF Ordered, RequestMakesSense, Stays
  <2> QED BY <2>1, <2>2
<1>5. ASSUME NEW x \in Peers, addr'[x] = 0 PROVE Unborn(x)'
  <2>1. /\ x \notin peers /\ limit[x] = Sh!Unlimited /\ x # 0
        /\ \A p \in Actors : req[p].c # x
        /\ \A f \in filters : f.to # Sh!classIdFor(x)
    BY <1>1, <1>5, ShapingFacts DEF Ordered, Unborn
  <2>2. \A p \in Actors : req'[p].c # x
    BY <2>1, IdleRequest DEF Stays
  <2> QED BY <1>2, <1>5, <2>1, <2>2 DEF Unborn
<1>6. ASSUME NEW x \in Peers PROVE Settles(x)'
  <2> SUFFICES ASSUME x \in peers, x \notin missed', ~Sh!Busy(x)', NEW d \in Sh!Dirs
               PROVE  Fits(d, x)'
    BY DEF Settles
  <2>1. x \notin again'.todo /\ \A p \in Actors : req'[p].c # x
    BY DEF Sh!Busy
  <2>2. limit[x] = Sh!Unlimited
    BY <1>2, <2>1 DEF Sh!Limited
  <2>3. limit[x][d] = 0 /\ NoFilter(d, x)'
    BY <2>1, <2>2, ShapingFacts
  <2>4. limit'[x][d] = 0
    BY <2>3
  <2> QED BY <2>3, <2>4 DEF Fits
<1>7. ASSUME NEW x \in Peers PROVE Waits(x)'
  <2> SUFFICES ASSUME x \in peers, x \in C
               PROVE  /\ again'.lim[x] = limit'[x] /\ again'.addr[x] = addr'[x]
                      /\ \A q \in Actors : req'[q].c # x
                      /\ x \notin missed' => Clear(x)'
    BY <1>2 DEF Waits
  <2>1. x \notin missed' => Clear(x)'
    BY DEF Clear
  <2> QED BY <1>2, <2>1
<1>8. ASSUME NEW p \in Actors PROVE Runs(p)'
  BY IdleRequest, RunsIdle
<1>9. InStep'
  BY <1>6, <1>7, <1>8 DEF InStep
<1>10. Sh!OwnAddresses'
  BY <1>1 DEF Sh!OwnAddresses, Sh!Unique, Sh!Within
<1>11. (\A p \in Actors : RequestMakesSense(req[p])') /\ \A x \in Peers : Unborn(x)'
  BY <1>4, <1>5 DEF Unborn
<1> QED BY <1>3, <1>9, <1>10, <1>11 DEF ShapingInv, Ordered

LEMMA ClassesGone ==
    ASSUME ShapingShape,
           \/ class' = [class EXCEPT !["down"] = [k \in 1 .. Slots |-> 0]]
           \/ class' = [d \in Sh!Dirs |-> [k \in 1 .. Slots |-> 0]]
    PROVE  class' \in [Sh!Dirs -> [1 .. Slots -> Nat]]
<1>1. PICK Z : Z = [k \in 1 .. Slots |-> 0]
  OBVIOUS
<1>2. Z \in [1 .. Slots -> Nat]
  BY <1>1
<1>3. CASE class' = [class EXCEPT !["down"] = Z]
  BY <1>2, <1>3 DEF ShapingShape
<1>4. CASE class' = [d \in Sh!Dirs |-> Z]
  BY <1>2, <1>4
<1> QED BY <1>1, <1>3, <1>4

LEMMA RestartSound == ASSUME ShapingInv, Sh!Restart PROVE ShapingInv'
<1>1. PICK C : C = {x \in Sh!ReapplyTo : ~Sh!Busy(x)}
  OBVIOUS
<1>2. /\ again.todo = {} /\ filters' = {f \in filters : f.on = "ifb"}
      /\ class' = [class EXCEPT !["down"] = [k \in 1 .. Slots |-> 0]]
      /\ req' = Sh!Disturbed(Peers)
      /\ again' = [todo |-> Sh!ReapplyTo, lim |-> limit, addr |-> addr, clean |-> C]
      /\ missed' = missed \union (Sh!Limited \ enabled)
      /\ UNCHANGED <<cidr, peers, addr, enabled, limit>>
  BY <1>1 DEF Sh!Restart, Sh!Reload, Sh!table
<1>3. ShapingShape /\ Ordered /\ InStep
  BY DEF ShapingInv
<1>4. class' \in [Sh!Dirs -> [1 .. Slots -> Nat]]
  BY <1>2, <1>3, ClassesGone
<1>5. C \in SUBSET Peers /\ missed' \subseteq Peers
  BY <1>1, <1>2, <1>3 DEF Sh!ReapplyTo, Sh!Limited, ShapingShape
<1>6. /\ req' \in [Actors -> Sh!Request]
      /\ \A p \in Actors :
           req'[p].c = req[p].c /\ Stays(p) /\ (req'[p].at = "idle" \/ ~req'[p].clean)
  <2>1. PICK D : D = Sh!Disturbed(Peers)
    OBVIOUS
  <2>2. DOMAIN D = Actors /\ D = [p \in Actors |-> D[p]]
    BY <2>1 DEF Sh!Disturbed
  <2>3. \A p \in Actors :
          /\ D[p] \in Sh!Request
          /\ D[p].at = req[p].at /\ D[p].kind = req[p].kind /\ D[p].c = req[p].c
          /\ D[p].lim = req[p].lim /\ D[p].addr = req[p].addr
          /\ D[p].clean => req[p].clean /\ req[p].c \notin Peers
    BY <1>3, <2>1, Disturbances
  <2>4. \A p \in Actors : req[p].c \notin Peers => req[p].at = "idle"
    BY <1>3, RequestsOf
  <2>5. req' = D
    BY <1>2, <2>1
  <2>6. req' \in [Actors -> Sh!Request]
    BY <2>2, <2>3, <2>5
  <2>7. \A p \in Actors :
          req'[p].c = req[p].c /\ Stays(p) /\ (req'[p].at = "idle" \/ ~req'[p].clean)
    BY <2>3, <2>4, <2>5 DEF Stays
  <2> QED BY <2>6, <2>7
<1>7. \A x \in C, p \in Actors : req'[p].c # x
  BY <1>1, <1>6 DEF Sh!Busy
<1>8. ASSUME NEW x \in peers \ missed', NEW d \in Sh!Dirs, limit[x][d] = 0,
             x \in C \/ (limit[x] = Sh!Unlimited /\ \A p \in Actors : req'[p].c # x)
      PROVE  NoFilter(d, x)'
  <2>1. ~Sh!Busy(x)
    BY <1>1, <1>2, <1>6, <1>8 DEF Sh!Busy
  <2>2. x \in Peers /\ x \notin missed
    BY <1>2, <1>3 DEF ShapingShape
  <2>3. NoFilter(d, x)
    BY <1>3, <1>8, <2>1, <2>2 DEF InStep, Settles, Fits
  <2> QED BY <1>2, <2>3 DEF NoFilter, OwnFilter
<1> QED BY <1>2, <1>4, <1>5, <1>6, <1>7, <1>8, StartSound

LEMMA CrashSound == ASSUME ShapingInv, Sh!Crash PROVE ShapingInv'
<1>1. PICK C : C = Sh!ReapplyTo
  OBVIOUS
<1>2. /\ filters' = {} /\ class' = [d \in Sh!Dirs |-> [k \in 1 .. Slots |-> 0]]
      /\ req' = [q \in Actors |-> Sh!Idle]
      /\ again' = [todo |-> Sh!ReapplyTo, lim |-> limit, addr |-> addr, clean |-> C]
      /\ missed' = Sh!Limited \ enabled
      /\ UNCHANGED <<cidr, peers, addr, enabled, limit>>
  BY <1>1 DEF Sh!Crash, Sh!table
<1>3. ShapingShape
  BY DEF ShapingInv
<1>4. class' \in [Sh!Dirs -> [1 .. Slots -> Nat]]
  BY <1>2, <1>3, ClassesGone
<1>5. C \in SUBSET Peers /\ missed' \subseteq Peers
  BY <1>1, <1>2, <1>3 DEF Sh!ReapplyTo, Sh!Limited, ShapingShape
<1>6. req' \in [Actors -> Sh!Request] /\ \A p \in Actors : req'[p] = Sh!Idle
  BY <1>2, IdleRequest
<1>7. \A x \in C, p \in Actors : req'[p].c # x
  BY <1>5, <1>6, IdleRequest, ShapingFacts
<1>8. \A x \in peers, d \in Sh!Dirs : NoFilter(d, x)'
  BY <1>2 DEF NoFilter
<1> QED BY <1>2, <1>4, <1>5, <1>6, <1>7, <1>8, StartSound

LEMMA ShapingNext == ASSUME ShapingInv, OwnClasses, Sh!Next PROVE ShapingInv'
<1>1. ASSUME NEW q \in Actors, Sh!Service(q) PROVE ShapingInv'
  BY <1>1, FindSound, ApplyDownSound, ApplyUpSound, ApplyFailsSound, ClearDownSound,
     ClearUpSound, DropSound, RereadSound, UpsertSound DEF Sh!Service
<1>2. ASSUME NEW q \in Actors, NEW c \in Peers, Sh!Arrives(q, c) PROVE ShapingInv'
  BY <1>2, PutSound, ClearSound, UpdateSound DEF Sh!Arrives
<1>3. ASSUME NEW c \in Peers, Sh!Table(c) \/ Sh!ReapplyOne(c) \/ Sh!ReapplyFails(c)
      PROVE  ShapingInv'
  BY <1>3, CreateSound, DeleteSound, ToggleSound, ReapplyOneSound, ReapplyFailsSound
     DEF Sh!Table
<1>4. ASSUME NEW r \in Cidrs, NEW new \in Sh!Moves(r, peers, addr), Sh!Renumber(r, new)
      PROVE  ShapingInv'
  BY <1>4, RenumberSound
<1> QED BY <1>1, <1>2, <1>3, <1>4, RestartSound, CrashSound DEF Sh!Next

\* Whatever requests overlap, fail or are cut off by a restart, the kernel shapes a
\* client as its row says, but for the clients one of the holes is open for.  The
\* class ids must not collide, which the code relies on without checking it
\* (setSpeedLimit, clearSpeedLimit, #reapplySpeedLimits, speedlimit.ts).
THEOREM LimitsHold == OwnClasses => (AllSpec => []Shaped)
<1> SUFFICES ASSUME OwnClasses PROVE AllSpec => []Shaped
  OBVIOUS
<1> DEFINE Inv == part = "shaping" => ShapingInv
<1>1. AllInit => Inv
  BY ShapingInit DEF AllInit
<1>2. Inv /\ [AllNext]_vars => Inv'
  <2> SUFFICES ASSUME Inv, [AllNext]_vars, part' = "shaping" PROVE ShapingInv'
    OBVIOUS
  <2>1. CASE part = "shaping" /\ Sh!Next
    BY <2>1, ShapingNext
  <2>2. CASE UNCHANGED vars
    <3>1. part = "shaping" /\ ShapingInv
      BY <2>2 DEF vars
    <3>2. UNCHANGED <<cidr, peers, addr, enabled, limit, class, filters, req, again, missed>>
      BY <2>2 DEF vars, xvars
    <3>3. enabled' \subseteq peers
      BY <3>1, <3>2 DEF ShapingInv, ShapingShape
    <3> QED BY <3>1, <3>2, <3>3, OthersUnmoved
  <2>3. part = "shaping" => Sh!Next \/ UNCHANGED vars
    BY DEF AllNext
  <2>4. part = "shaping"
    BY DEF AllNext, Rest, vars
  <2> QED BY <2>1, <2>2, <2>3, <2>4
<1>3. Inv => Shaped
  BY ShapingKeeps DEF Shaped
<1> QED BY <1>1, <1>2, <1>3, PTL DEF AllSpec

-----------------------------------------------------------------------------
\* The addresses alone, which need nothing of the class ids.
AddressesInv ==
  /\ cidr \in Cidrs /\ peers \subseteq Peers /\ IsFiniteSet(peers)
  /\ addr \in [Peers -> Nat] /\ Sh!OwnAddresses

LEMMA SameAddresses ==
    ASSUME AddressesInv, UNCHANGED <<cidr, addr>>, peers' \subseteq peers PROVE AddressesInv'
<1>1. IsFiniteSet(peers')
  BY FS_Subset DEF AddressesInv
<1>2. Sh!OwnAddresses'
  BY DEF AddressesInv, Sh!OwnAddresses, Sh!Unique, Sh!Within
<1> QED BY <1>1, <1>2 DEF AddressesInv

LEMMA AddressesNext == ASSUME AddressesInv, Sh!Next PROVE AddressesInv'
<1>1. cidr \in Sh!Cidr /\ Cidrs \subseteq Sh!Cidr
  BY ShapingFacts DEF AddressesInv
<1>2. ASSUME NEW q \in Actors, Sh!Service(q) PROVE AddressesInv'
  <2>1. UNCHANGED <<cidr, peers, addr>>
    BY <1>2 DEF Sh!Service, Sh!Find, Sh!ApplyDown, Sh!ApplyUp, Sh!ApplyFails, Sh!ClearDown,
       Sh!ClearUp, Sh!Drop, Sh!Reread, Sh!Upsert, Sh!table
  <2> QED BY <2>1, SameAddresses
<1>3. ASSUME NEW q \in Actors, NEW c \in Peers, Sh!Arrives(q, c) PROVE AddressesInv'
  <2>1. CASE \E l \in Rates : Sh!PutRequest(q, c, l)
    BY <2>1, SameAddresses DEF Sh!PutRequest, Sh!table
  <2>2. CASE Sh!ClearRequest(q, c)
    BY <2>2, SameAddresses DEF Sh!ClearRequest, Sh!table
  <2>3. ASSUME NEW a, Sh!UpdateRequest(q, c, a) PROVE AddressesInv'
    <3>1. /\ c \in peers /\ addr' = [addr EXCEPT ![c] = a]
          /\ a \in Sh!Within(cidr) \ {addr[d] : d \in peers} /\ UNCHANGED <<cidr, peers>>
      BY <2>3 DEF Sh!UpdateRequest
    <3>2. addr' \in [Peers -> Nat] /\ Sh!OwnAddresses'
      BY <1>1, <3>1, OneMoves DEF AddressesInv
    <3> QED BY <3>1, <3>2 DEF AddressesInv
  <2> QED BY <1>3, <2>1, <2>2, <2>3 DEF Sh!Arrives
<1>4. ASSUME NEW c \in Peers, Sh!Table(c) PROVE AddressesInv'
  <2>1. CASE Sh!CreateRequest(c)
    <3>1. /\ c \notin peers /\ Sh!Free(cidr, {addr[d] : d \in peers}) # {}
          /\ addr' = [addr EXCEPT ![c] = Sh!nextIP(cidr, {addr[d] : d \in peers})]
          /\ cidr' = cidr /\ peers' = peers \union {c}
      BY <2>1 DEF Sh!CreateRequest
    <3>2. /\ addr' \in [Peers -> Nat] /\ Sh!OwnAddresses'
          /\ peers' \subseteq Peers /\ IsFiniteSet(peers')
      BY <1>1, <3>1, OneComes DEF AddressesInv
    <3> QED BY <3>1, <3>2 DEF AddressesInv
  <2>2. CASE Sh!DeleteRequest(c)
    BY <2>2, SameAddresses DEF Sh!DeleteRequest
  <2>3. CASE Sh!Toggle(c)
    BY <2>3, SameAddresses DEF Sh!Toggle
  <2> QED BY <1>4, <2>1, <2>2, <2>3 DEF Sh!Table
<1>5. ASSUME NEW r \in Cidrs, NEW new \in Sh!Moves(r, peers, addr), Sh!Renumber(r, new)
      PROVE  AddressesInv'
  <2>1. /\ Sh!Unique(peers, new) /\ cidr' = r /\ peers' = peers
        /\ addr' = [x \in Peers |-> IF x \in peers THEN new[x] ELSE addr[x]]
    BY <1>5 DEF Sh!Renumber
  <2>2. addr' \in [Peers -> Nat] /\ Sh!OwnAddresses'
    BY <1>1, <2>1, AllMove DEF AddressesInv
  <2> QED BY <2>1, <2>2 DEF AddressesInv
<1>6. ASSUME Sh!Restart \/ Sh!Crash \/ \E c \in Peers : Sh!ReapplyOne(c) \/ Sh!ReapplyFails(c)
      PROVE  AddressesInv'
  <2>1. UNCHANGED <<cidr, peers, addr>>
    BY <1>6 DEF Sh!Restart, Sh!Crash, Sh!Reload, Sh!ReapplyOne, Sh!ReapplyFails, Sh!table
  <2> QED BY <2>1, SameAddresses
<1> QED BY <1>2, <1>3, <1>4, <1>5, <1>6 DEF Sh!Next

LEMMA RangesFit == ASSUME AddressesInv PROVE Sh!RangeFits
<1> SUFFICES ASSUME NEW r \in Cidrs, \A c \in peers : addr[c] \notin Sh!Gives(r),
                    Sh!Cardinality(peers) <= Sh!Cardinality(Sh!Gives(r))
             PROVE  \E new \in Sh!Moves(r, peers, addr) : Sh!Unique(peers, new)
  BY DEF Sh!RangeFits
<1>1. r \in Sh!Cidr /\ peers \in SUBSET Nat /\ IsFiniteSet(peers)
  BY ShapingFacts DEF AddressesInv
<1>2. Cardinality(peers) <= Cardinality(Sh!Gives(r))
  BY DEF Sh!Cardinality, Cardinality
<1> QED BY <1>1, <1>2, Renumbers

\* No two clients ever claim one address, and a range that has room for them all
\* is never refused, however the clients come, go and move (nextIP, update,
\* updateCidr).
THEOREM AddressesHold == AllSpec => []Addressed
<1> DEFINE Inv == part = "shaping" => AddressesInv
<1>1. AllInit => Inv
  <2> SUFFICES ASSUME Sh!Init PROVE AddressesInv
    BY DEF AllInit
  <2>1. cidr \in Cidrs /\ peers = {} /\ addr \in [Peers -> Nat]
    BY DEF Sh!Init
  <2>2. Sh!OwnAddresses
    BY <2>1 DEF Sh!OwnAddresses, Sh!Unique
  <2> QED BY <2>1, <2>2, FS_EmptySet DEF AddressesInv
<1>2. Inv /\ [AllNext]_vars => Inv'
  <2> SUFFICES ASSUME Inv, [AllNext]_vars, part' = "shaping" PROVE AddressesInv'
    OBVIOUS
  <2>1. CASE part = "shaping" /\ Sh!Next
    BY <2>1, AddressesNext
  <2>2. CASE UNCHANGED vars
    BY <2>2, SameAddresses DEF vars, xvars
  <2>3. part = "shaping" => Sh!Next \/ UNCHANGED vars
    BY DEF AllNext
  <2>4. part = "shaping"
    BY DEF AllNext, Rest, vars
  <2> QED BY <2>1, <2>2, <2>3, <2>4
<1>3. Inv => Addressed
  BY RangesFit DEF Addressed, AddressesInv
<1> QED BY <1>1, <1>2, <1>3, PTL DEF AllSpec

-----------------------------------------------------------------------------
(* The page of the charts.                                                 *)

dashboard == x1
range == x2
buckets == x3
own == x4
old == x5
usageCache == x6
alone == x7
choices == x8
USE DEF dashboard, range, buckets, own, old, usageCache, alone, choices

Choices == {"24h", "7d", "30d"}

\* The one request of a button pressed alone is of the range that is lit, and
\* without it the chart is of that range; the cache says what its answer is of.
UsagePageInv ==
  /\ own \in [Choices -> Nat]
  /\ usageCache = Gone \/ \E r \in Choices : usageCache = <<r, r>>
  /\ range # Gone /\ alone =>
       /\ range \in Choices /\ own[range] \in {0, 1}
       /\ \A r \in Choices \ {range} : own[r] = 0
       /\ own[range] = 0 => buckets = range

LEMMA UsagePageLabels == UsagePageInv => Up!Labelled
<1> SUFFICES ASSUME UsagePageInv, range # Gone, alone, ~Up!Loading PROVE buckets = range
  BY DEF Up!Labelled
<1>1. range \in Choices /\ own[range] \in {0, 1} /\ ~(own[range] > 0)
  BY DEF UsagePageInv, Up!Loading, Choices
<1> QED BY <1>1 DEF UsagePageInv

\* A choice from nothing under way draws the cache's answer or asks for one.
LEMMA LoadsAlone ==
    ASSUME UsagePageInv, NEW r \in Choices, NEW drawn, NEW requests \in [Choices -> Nat],
           Up!LoadUsage(r, drawn, requests), range' = r, usageCache' = usageCache,
           alone' => \A q \in Choices : requests[q] = 0
    PROVE  UsagePageInv'
<1>1. CASE Up!Hit(r)
  <2>1. usageCache = <<r, r>>
    BY <1>1 DEF UsagePageInv, Up!Hit
  <2>2. buckets' = r /\ own' = requests
    BY <1>1, <2>1 DEF Up!LoadUsage
  <2> QED BY <2>2 DEF UsagePageInv
<1>2. CASE ~Up!Hit(r)
  <2>1. own' = [requests EXCEPT ![r] = @ + 1]
    BY <1>2 DEF Up!LoadUsage
  <2>2. own' \in [Choices -> Nat] /\ own'[r] = requests[r] + 1
        /\ \A q \in Choices \ {r} : own'[q] = requests[q]
    BY <2>1
  <2> QED BY <2>2 DEF UsagePageInv
<1> QED BY <1>1, <1>2

LEMMA UsagePageNext == ASSUME UsagePageInv, Up!Next PROVE UsagePageInv'
<1>0. Up!NoRequest \in [Choices -> Nat] /\ \A q \in Choices : Up!NoRequest[q] = 0
  BY DEF Up!NoRequest, Choices
<1>1. ASSUME Up!Open PROVE UsagePageInv'
  <2>1. /\ Up!LoadUsage("24h", Gone, Up!NoRequest) /\ range' = "24h"
        /\ usageCache' = usageCache /\ "24h" \in Choices
    BY <1>1 DEF Up!Open, Choices
  <2> QED BY <1>0, <2>1, LoadsAlone
<1>2. ASSUME Up!Leave PROVE UsagePageInv'
  BY <1>0, <1>2 DEF Up!Leave, UsagePageInv
<1>3. ASSUME NEW r \in Choices, Up!Choose(r) PROVE UsagePageInv'
  <2>1. /\ Up!LoadUsage(r, buckets, own) /\ range' = r /\ usageCache' = usageCache
        /\ alone' = ~Up!Loading
    BY <1>3 DEF Up!Choose
  <2>2. own \in [Choices -> Nat]
    BY DEF UsagePageInv
  <2>3. ASSUME alone' PROVE \A q \in Choices : own[q] = 0
    <3>1. ~Up!Loading
      BY <2>1, <2>3, Zenon
    <3> QED BY <2>2, <3>1 DEF Up!Loading, Choices
  <2> QED BY <2>1, <2>2, <2>3, LoadsAlone
<1>4. ASSUME NEW r \in Choices, Up!Answer(r) PROVE UsagePageInv'
  <2>1. /\ own[r] > 0 /\ own' = [own EXCEPT ![r] = @ - 1] /\ buckets' = r
        /\ usageCache' = <<r, r>> \/ usageCache' = usageCache
        /\ range' = range /\ alone' = alone
    BY <1>4 DEF Up!Answer, Up!Remembered
  <2>2. own' \in [Choices -> Nat]
    BY <2>1 DEF UsagePageInv
  <2>3. usageCache' = Gone \/ \E q \in Choices : usageCache' = <<q, q>>
    BY <2>1 DEF UsagePageInv
  <2>4. ASSUME range # Gone, alone
        PROVE  /\ range \in Choices /\ r = range /\ own'[range] = 0
               /\ \A q \in Choices \ {range} : own'[q] = 0
    BY <2>1, <2>4 DEF UsagePageInv
  <2> QED BY <2>1, <2>2, <2>3, <2>4 DEF UsagePageInv
<1>5. ASSUME NEW r \in Choices, Up!Error(r) PROVE UsagePageInv'
  <2>1. own' \in [Choices -> Nat]
    BY <1>5 DEF Up!Error, UsagePageInv
  <2> QED BY <1>5, <2>1 DEF Up!Error, UsagePageInv
<1>6. ASSUME NEW r \in Choices, Up!LateAnswer(r) PROVE UsagePageInv'
  BY <1>6 DEF Up!LateAnswer, Up!Remembered, UsagePageInv
<1> QED BY <1>1, <1>2, <1>3, <1>4, <1>5, <1>6 DEF Up!Next, Choices

\* Once a page waits for nothing, its chart is of the button that is lit, if that
\* was pressed while nothing was under way and its request did not fail (the
\* buttons of app/pages/index.vue and clients/[id].vue, and of the dashboard with
\* its cache): however the pages are opened, left and opened again, and whatever
\* answers of pages left before come late.
THEOREM ChartIsOfTheButton == AllSpec => [](part = "usagePage" => Up!Labelled)
<1> DEFINE Inv == part = "usagePage" => UsagePageInv
<1>1. AllInit => Inv
  BY DEF AllInit, Up!Init, Up!NoRequest, UsagePageInv, Choices
<1>2. Inv /\ [AllNext]_vars => Inv'
  <2> SUFFICES ASSUME Inv, [AllNext]_vars, part' = "usagePage" PROVE UsagePageInv'
    OBVIOUS
  <2>1. CASE part = "usagePage" /\ Up!Next
    BY <2>1, UsagePageNext
  <2>2. CASE UNCHANGED vars
    BY <2>2 DEF vars, xvars, UsagePageInv
  <2>3. part = "usagePage" => Up!Next \/ UNCHANGED vars
    BY DEF AllNext
  <2>4. part = "usagePage"
    BY DEF AllNext, Rest, vars
  <2> QED BY <2>1, <2>2, <2>3, <2>4
<1>3. Inv => (part = "usagePage" => Up!Labelled)
  BY UsagePageLabels
<1> QED BY <1>1, <1>2, <1>3, PTL DEF AllSpec

-----------------------------------------------------------------------------
(* Sums.  The model's sums are folds in an order a CHOOSE picks; the order   *)
(* does not matter, values may be put into buckets and tables summed by     *)
(* rows or by columns.                                                      *)

\* Induction over the numbers, for a set of them.
LEMMA Induct ==
    ASSUME NEW S, 0 \in S, \A n \in Nat : n \in S => n + 1 \in S
    PROVE  Nat \subseteq S
<1> SUFFICES ASSUME Nat \ S # {} PROVE FALSE
  OBVIOUS
<1>1. PICK x \in Nat \ S : \A y \in Nat \ S : x <= y
  BY Least
<1>2. x # 0 /\ x - 1 \in Nat /\ x = (x - 1) + 1
  BY <1>1
<1>3. x - 1 \in S
  BY <1>1, <1>2
<1> QED BY <1>1, <1>2, <1>3

\* A sum of the values of f over any set, taken in whatever order.
Sums(g, f, D) ==
  /\ g \in [SUBSET D -> Nat] /\ g[{}] = 0
  /\ \A s \in SUBSET D : \A x \in s : g[s] = f[x] + g[s \ {x}]

Order(s) == CHOOSE x \in s : TRUE
\* A sum of the values in one order.
InOrder(g, f, D) ==
  /\ g \in [SUBSET D -> Nat] /\ g[{}] = 0
  /\ \A s \in SUBSET D : s # {} => g[s] = f[Order(s)] + g[s \ {Order(s)}]
LEMMA OrderPicks == \A s : s # {} => Order(s) \in s
BY DEF Order

\* The sum in the order of the fold is defined.
LEMMA FoldSteps ==
    ASSUME NEW D, IsFiniteSet(D), NEW f \in [D -> Nat]
    PROVE  \E g : InOrder(g, f, D) /\ Uc!Total(f) = g[D]
<1> DEFINE Folds(g) == g = [s \in SUBSET D |->
                              IF s = {} THEN 0
                              ELSE f[Order(s)] + g[s \ {Order(s)}]]
           Good(g, n) == \A s \in SUBSET D : Cardinality(s) <= n =>
                           g[s] = IF s = {} THEN 0 ELSE f[Order(s)] + g[s \ {Order(s)}]
           N == {n \in Nat : \E g \in [SUBSET D -> Nat] : Good(g, n)}
<1>0. /\ \A s \in SUBSET D : IsFiniteSet(s) /\ Cardinality(s) \in Nat
      /\ \A s \in SUBSET D : Cardinality(s) = 0 <=> s = {}
      /\ \A s \in SUBSET D : s # {} =>
           /\ Order(s) \in D /\ s \ {Order(s)} \in SUBSET D
           /\ Cardinality(s \ {Order(s)}) = Cardinality(s) - 1
  <2>1. \A s \in SUBSET D : IsFiniteSet(s) /\ Cardinality(s) \in Nat
    BY FS_Subset, FS_CardinalityType
  <2>2. \A s \in SUBSET D : Cardinality(s) = 0 <=> s = {}
    BY <2>1, FS_EmptySet
  <2>3. ASSUME NEW s \in SUBSET D, s # {}
        PROVE  /\ Order(s) \in D /\ s \ {Order(s)} \in SUBSET D
               /\ Cardinality(s \ {Order(s)}) = Cardinality(s) - 1
    BY <2>1, <2>3, OrderPicks, FS_RemoveElement
  <2> QED BY <2>1, <2>2, <2>3
<1>1. 0 \in N
  <2>1. [s \in SUBSET D |-> 0] \in [SUBSET D -> Nat]
    OBVIOUS
  <2>2. Good([s \in SUBSET D |-> 0], 0)
    BY <1>0
  <2> HIDE DEF Good
  <2> QED BY <2>1, <2>2
<1>2. ASSUME NEW n \in Nat, n \in N PROVE n + 1 \in N
  <2>1. PICK g \in [SUBSET D -> Nat] : Good(g, n)
    BY <1>2
  <2> DEFINE h == [s \in SUBSET D |-> IF s = {} THEN 0 ELSE f[Order(s)] + g[s \ {Order(s)}]]
  <2>2. h \in [SUBSET D -> Nat]
    BY <1>0, SMTT(30)
  <2>3. \A s \in SUBSET D : Cardinality(s) <= n => h[s] = g[s]
    BY <2>1
  <2>4. ASSUME NEW s \in SUBSET D, Cardinality(s) <= n + 1
        PROVE  h[s] = IF s = {} THEN 0 ELSE f[Order(s)] + h[s \ {Order(s)}]
    <3>1. CASE s = {}
      BY <3>1
    <3>2. CASE s # {}
      <4>1. s \ {Order(s)} \in SUBSET D /\ Cardinality(s \ {Order(s)}) <= n
        BY <1>0, <2>4, <3>2
      <4>2. h[s \ {Order(s)}] = g[s \ {Order(s)}]
        BY <2>3, <4>1
      <4> QED BY <3>2, <4>2
    <3> QED BY <3>1, <3>2
  <2>5. Good(h, n + 1)
    BY <2>4
  <2> HIDE DEF h, Good
  <2>6. n + 1 \in Nat
    OBVIOUS
  <2> QED BY <2>2, <2>5, <2>6
<1>3. Cardinality(D) \in Nat /\ Cardinality(D) \in N
  <2>1. Cardinality(D) \in Nat
    BY <1>0
  <2> HIDE DEF N
  <2> QED BY <1>1, <1>2, <2>1, Induct
<1>4. PICK g \in [SUBSET D -> Nat] : Good(g, Cardinality(D))
  BY <1>3
<1>5. \A s \in SUBSET D : Cardinality(s) <= Cardinality(D)
  BY FS_Subset
<1>6. Folds(g)
  <2>1. g = [s \in SUBSET D |-> g[s]]
    OBVIOUS
  <2>2. \A s \in SUBSET D : g[s] = IF s = {} THEN 0 ELSE f[Order(s)] + g[s \ {Order(s)}]
    BY <1>4, <1>5
  <2> QED BY <2>1, <2>2
<1>7. \E h : Folds(h) /\ Uc!Total(f) = h[D]
  <2>1. DOMAIN f = D
    OBVIOUS
  <2>2. \E h : h = [s \in SUBSET DOMAIN f |-> IF s = {} THEN 0
                      ELSE f[CHOOSE x \in s : TRUE] + h[s \ {CHOOSE x \in s : TRUE}]]
    BY <1>6, <2>1, ZenonT(60) DEF Order
  <2>3. \E h : /\ h = [s \in SUBSET DOMAIN f |-> IF s = {} THEN 0
                         ELSE f[CHOOSE x \in s : TRUE] + h[s \ {CHOOSE x \in s : TRUE}]]
               /\ Uc!Total(f) = h[DOMAIN f]
    BY <2>2, Zenon DEF Uc!Total, Uc!FoldFunction, Uc!FoldFunctionOnSet, Uc!MapThenFoldSet
  <2> QED BY <2>1, <2>3, Zenon DEF Order
<1>8. PICK h : Folds(h) /\ Uc!Total(f) = h[D]
  BY <1>7
<1>9. h[{}] = 0 /\ \A s \in SUBSET D : s # {} => h[s] = f[Order(s)] + h[s \ {Order(s)}]
  BY <1>8
<1> DEFINE V == {n \in Nat : \A s \in SUBSET D : Cardinality(s) = n => h[s] \in Nat}
<1>10. 0 \in V
  BY <1>0, <1>9, ZenonT(60)
<1>11. ASSUME NEW n \in Nat, n \in V PROVE n + 1 \in V
  <2>1. SUFFICES ASSUME NEW s \in SUBSET D, Cardinality(s) = n + 1 PROVE h[s] \in Nat
    OBVIOUS
  <2>2. s # {}
    BY <1>0, <2>1
  <2>3. h[s \ {Order(s)}] \in Nat /\ f[Order(s)] \in Nat
    BY <1>0, <1>11, <2>1, <2>2
  <2> QED BY <1>9, <2>2, <2>3, SMTT(30)
<1>12. Nat \subseteq V
  <2> HIDE DEF V
  <2> QED BY <1>10, <1>11, Induct
<1>13. h \in [SUBSET D -> Nat]
  <2>1. \A s \in SUBSET D : h[s] \in Nat
    BY <1>0, <1>12
  <2>2. h = [s \in SUBSET D |-> h[s]]
    BY <1>8
  <2> QED BY <2>1, <2>2
<1> QED BY <1>8, <1>9, <1>13 DEF InOrder

\* The order does not matter.
LEMMA AnyOrder ==
    ASSUME NEW D, IsFiniteSet(D), NEW f \in [D -> Nat], NEW g, InOrder(g, f, D)
    PROVE  Sums(g, f, D)
<1> DEFINE V == {n \in Nat : \A s \in SUBSET D : Cardinality(s) = n =>
                               \A x \in s : g[s] = f[x] + g[s \ {x}]}
<1>0. \A s \in SUBSET D : IsFiniteSet(s) /\ Cardinality(s) \in Nat
  BY FS_Subset, FS_CardinalityType
<1>1. 0 \in V
  BY <1>0, FS_EmptySet
<1>2. ASSUME NEW n \in Nat, n \in V PROVE n + 1 \in V
  <2>1. SUFFICES ASSUME NEW s \in SUBSET D, Cardinality(s) = n + 1, NEW x \in s
                 PROVE  g[s] = f[x] + g[s \ {x}]
    OBVIOUS
  <2>2. PICK y : y = Order(s)
    OBVIOUS
  <2>3. y \in s /\ g[s] = f[y] + g[s \ {y}] /\ x \in D /\ y \in D
    BY <2>1, <2>2, OrderPicks DEF InOrder
  <2>4. CASE x = y
    BY <2>3, <2>4
  <2>5. CASE x # y
    <3>1. /\ s \ {x} \in SUBSET D /\ s \ {y} \in SUBSET D
          /\ x \in s \ {y} /\ y \in s \ {x} /\ (s \ {x}) \ {y} = (s \ {y}) \ {x}
      BY <2>3, <2>5
    <3>2. Cardinality(s \ {x}) = n /\ Cardinality(s \ {y}) = n
      <4>1. /\ Cardinality(s \ {x}) = Cardinality(s) - 1
            /\ Cardinality(s \ {y}) = Cardinality(s) - 1
        BY <1>0, <2>3, FS_RemoveElement
      <4> QED BY <2>1, <4>1
    <3>3. g[s \ {y}] = f[x] + g[(s \ {y}) \ {x}]
      BY <1>2, <3>1, <3>2
    <3>4. g[s \ {x}] = f[y] + g[(s \ {x}) \ {y}]
      BY <1>2, <3>1, <3>2
    <3>5. PICK rest \in Nat : rest = g[(s \ {x}) \ {y}] /\ rest = g[(s \ {y}) \ {x}]
      BY <3>1 DEF InOrder
    <3>6. f[x] \in Nat /\ f[y] \in Nat
      BY <2>3
    <3>7. g[s] = f[y] + (f[x] + rest) /\ g[s \ {x}] = f[y] + rest
      BY <2>3, <3>3, <3>4, <3>5
    <3> QED BY <3>5, <3>6, <3>7
  <2> QED BY <2>4, <2>5
<1>3. Nat \subseteq V
  <2> HIDE DEF V
  <2> QED BY <1>1, <1>2, Induct
<1>4. \A s \in SUBSET D : \A x \in s : g[s] = f[x] + g[s \ {x}]
  BY <1>0, <1>3
<1> QED BY <1>4 DEF Sums, InOrder

LEMMA TotalSums ==
    ASSUME NEW D, IsFiniteSet(D), NEW f \in [D -> Nat]
    PROVE  \E g : Sums(g, f, D) /\ Uc!Total(f) = g[D]
BY FoldSteps, AnyOrder, Zenon

\* Sums of the same values are the same.
LEMMA SumsAgree ==
    ASSUME NEW D, IsFiniteSet(D), NEW f, NEW g, Sums(g, f, D),
           NEW E \in SUBSET D, NEW e, NEW h, Sums(h, e, E), \A x \in E : e[x] = f[x]
    PROVE  h[E] = g[E]
<1> DEFINE V == {n \in Nat : \A s \in SUBSET E : Cardinality(s) = n => h[s] = g[s]}
<1>0. \A s \in SUBSET E : IsFiniteSet(s) /\ Cardinality(s) \in Nat
  BY FS_Subset, FS_CardinalityType
<1>1. 0 \in V
  BY <1>0, FS_EmptySet DEF Sums
<1>2. ASSUME NEW n \in Nat, n \in V PROVE n + 1 \in V
  <2>1. SUFFICES ASSUME NEW s \in SUBSET E, Cardinality(s) = n + 1 PROVE h[s] = g[s]
    OBVIOUS
  <2>2. s # {}
    BY <2>1, FS_EmptySet
  <2>3. PICK x \in s : TRUE
    BY <2>2
  <2>4. Cardinality(s \ {x}) = n /\ s \ {x} \in SUBSET E /\ s \in SUBSET D /\ s \ {x} \in SUBSET D
    BY <1>0, <2>1, FS_RemoveElement
  <2>5. h[s \ {x}] = g[s \ {x}]
    BY <1>2, <2>4
  <2>6. h[s] = e[x] + h[s \ {x}] /\ g[s] = f[x] + g[s \ {x}]
    BY <2>4 DEF Sums
  <2> QED BY <2>5, <2>6
<1>3. Nat \subseteq V
  <2> HIDE DEF V
  <2> QED BY <1>1, <1>2, Induct
<1> QED BY <1>0, <1>3

LEMMA TotalNone == ASSUME NEW f \in [{} -> Nat] PROVE Uc!Total(f) = 0
<1>1. PICK g : Sums(g, f, {}) /\ Uc!Total(f) = g[{}]
  BY FS_EmptySet, TotalSums
<1> QED BY <1>1 DEF Sums

LEMMA TotalType ==
    ASSUME NEW D, IsFiniteSet(D), NEW f \in [D -> Nat] PROVE Uc!Total(f) \in Nat
<1>1. PICK g : Sums(g, f, D) /\ Uc!Total(f) = g[D]
  BY TotalSums
<1> QED BY <1>1 DEF Sums

\* A value and the sum of the others.
LEMMA TotalTakes ==
    ASSUME NEW D, IsFiniteSet(D), NEW f \in [D -> Nat], NEW x \in D,
           NEW e \in [D \ {x} -> Nat], \A y \in D \ {x} : e[y] = f[y]
    PROVE  Uc!Total(f) = f[x] + Uc!Total(e)
<1>2. D \ {x} \in SUBSET D /\ IsFiniteSet(D \ {x})
  BY FS_Subset
<1>3. PICK g : Sums(g, f, D) /\ Uc!Total(f) = g[D]
  BY TotalSums
<1>4. PICK h : Sums(h, e, D \ {x}) /\ Uc!Total(e) = h[D \ {x}]
  BY <1>2, TotalSums
<1>5. h[D \ {x}] = g[D \ {x}]
  BY <1>2, <1>3, <1>4, SumsAgree
<1>6. g[D] = f[x] + g[D \ {x}]
  BY <1>3 DEF Sums
<1> QED BY <1>3, <1>4, <1>5, <1>6

-----------------------------------------------------------------------------
\* Induction over the subsets of a finite set.
LEMMA InductSets ==
    ASSUME NEW D, IsFiniteSet(D), NEW P, {} \in P,
           \A s \in SUBSET D : \A x \in s : s \ {x} \in P => s \in P
    PROVE  D \in P
<1> DEFINE V == {n \in Nat : \A s \in SUBSET D : Cardinality(s) = n => s \in P}
<1>0. \A s \in SUBSET D : IsFiniteSet(s) /\ Cardinality(s) \in Nat
  BY FS_Subset, FS_CardinalityType
<1>1. 0 \in V
  BY <1>0, FS_EmptySet
<1>2. ASSUME NEW n \in Nat, n \in V PROVE n + 1 \in V
  <2>1. SUFFICES ASSUME NEW s \in SUBSET D, Cardinality(s) = n + 1 PROVE s \in P
    OBVIOUS
  <2>2. s # {}
    BY <2>1, FS_EmptySet
  <2>3. PICK x \in s : TRUE
    BY <2>2
  <2>4. Cardinality(s \ {x}) = n
    <3>1. Cardinality(s \ {x}) = Cardinality(s) - 1
      BY <1>0, <2>3, FS_RemoveElement
    <3> QED BY <2>1, <3>1
  <2>5. s \ {x} \in SUBSET D
    OBVIOUS
  <2> QED BY <1>2, <2>4, <2>5
<1>3. Nat \subseteq V
  <2> HIDE DEF V
  <2> QED BY <1>1, <1>2, Induct
<1> QED BY <1>0, <1>3

\* The sum over a part.
Part(f, s) == Uc!Total([y \in s |-> f[y]])

LEMMA PartSteps ==
    ASSUME NEW D, IsFiniteSet(D), NEW f \in [D -> Nat]
    PROVE  /\ \A s \in SUBSET D : Part(f, s) \in Nat
           /\ Part(f, {}) = 0 /\ Part(f, D) = Uc!Total(f)
           /\ \A s \in SUBSET D : \A x \in s : Part(f, s) = f[x] + Part(f, s \ {x})
<1>1. Part(f, {}) = 0
  BY TotalNone DEF Part
<1>2. [y \in D |-> f[y]] = f
  OBVIOUS
<1>3. Part(f, D) = Uc!Total(f)
  BY <1>2 DEF Part
<1>4. ASSUME NEW s \in SUBSET D
      PROVE  Part(f, s) \in Nat /\ \A x \in s : Part(f, s) = f[x] + Part(f, s \ {x})
  <2>1. PICK p : p = [y \in s |-> f[y]]
    OBVIOUS
  <2>2. p \in [s -> Nat] /\ IsFiniteSet(s)
    BY <2>1, FS_Subset
  <2>3. Part(f, s) \in Nat
    BY <2>1, <2>2, TotalType DEF Part
  <2>4. ASSUME NEW x \in s PROVE Part(f, s) = f[x] + Part(f, s \ {x})
    <3>1. PICK e : e = [y \in s \ {x} |-> f[y]]
      OBVIOUS
    <3>2. e \in [s \ {x} -> Nat] /\ (\A y \in s \ {x} : e[y] = p[y]) /\ p[x] = f[x]
      BY <2>1, <3>1
    <3>3. Uc!Total(p) = p[x] + Uc!Total(e)
      BY <2>2, <3>2, TotalTakes
    <3> QED BY <2>1, <3>1, <3>2, <3>3 DEF Part
  <2> QED BY <2>3, <2>4
<1> QED BY <1>1, <1>3, <1>4

\* Smaller values have a smaller sum.
LEMMA TotalGrows ==
    ASSUME NEW D, IsFiniteSet(D), NEW f \in [D -> Nat], NEW h \in [D -> Nat],
           \A x \in D : f[x] <= h[x]
    PROVE  Uc!Total(f) <= Uc!Total(h)
<1> DEFINE P == {s \in SUBSET D : Part(f, s) <= Part(h, s)}
<1>1. {} \in P
  BY PartSteps
<1>2. ASSUME NEW s \in SUBSET D, NEW x \in s, s \ {x} \in P PROVE s \in P
  <2>1. s \ {x} \in SUBSET D
    OBVIOUS
  <2>2. Part(f, s) = f[x] + Part(f, s \ {x}) /\ Part(f, s \ {x}) \in Nat
    BY <2>1, PartSteps
  <2>3. Part(h, s) = h[x] + Part(h, s \ {x}) /\ Part(h, s \ {x}) \in Nat
    BY <2>1, PartSteps
  <2>4. f[x] \in Nat /\ h[x] \in Nat /\ f[x] <= h[x] /\ Part(f, s \ {x}) <= Part(h, s \ {x})
    BY <1>2
  <2> QED BY <2>2, <2>3, <2>4
<1>3. D \in P
  <2> HIDE DEF P
  <2> QED BY <1>1, <1>2, InductSets
<1> QED BY <1>3, PartSteps

LEMMA TotalZero ==
    ASSUME NEW D, IsFiniteSet(D), NEW f \in [D -> Nat], \A x \in D : f[x] = 0
    PROVE  Uc!Total(f) = 0
<1> DEFINE P == {s \in SUBSET D : Part(f, s) = 0}
<1>1. {} \in P
  BY PartSteps
<1>2. ASSUME NEW s \in SUBSET D, NEW x \in s, s \ {x} \in P PROVE s \in P
  <2>1. Part(f, s) = f[x] + Part(f, s \ {x})
    BY PartSteps
  <2> QED BY <1>2, <2>1
<1>3. D \in P
  <2> HIDE DEF P
  <2> QED BY <1>1, <1>2, InductSets
<1> QED BY <1>3, PartSteps

LEMMA TotalOne ==
    ASSUME NEW D, IsFiniteSet(D), NEW f \in [D -> Nat], NEW a \in D,
           \A x \in D \ {a} : f[x] = 0
    PROVE  Uc!Total(f) = f[a]
<1>1. PICK e : e = [y \in D \ {a} |-> f[y]]
  OBVIOUS
<1>2. e \in [D \ {a} -> Nat] /\ (\A y \in D \ {a} : e[y] = f[y]) /\ IsFiniteSet(D \ {a})
  BY <1>1, FS_Subset
<1>3. Uc!Total(f) = f[a] + Uc!Total(e)
  BY <1>2, TotalTakes
<1>4. Uc!Total(e) = 0
  BY <1>2, TotalZero
<1> QED BY <1>3, <1>4

LEMMA TotalAdds ==
    ASSUME NEW D, IsFiniteSet(D), NEW f \in [D -> Nat], NEW h \in [D -> Nat],
           NEW k \in [D -> Nat], \A x \in D : k[x] = f[x] + h[x]
    PROVE  Uc!Total(k) = Uc!Total(f) + Uc!Total(h)
<1> DEFINE P == {s \in SUBSET D : Part(k, s) = Part(f, s) + Part(h, s)}
<1>1. {} \in P
  <2>1. Part(k, {}) = 0 /\ Part(f, {}) = 0 /\ Part(h, {}) = 0
    BY PartSteps
  <2> QED BY <2>1
<1>2. ASSUME NEW s \in SUBSET D, NEW x \in s, s \ {x} \in P PROVE s \in P
  <2>1. /\ Part(f, s) = f[x] + Part(f, s \ {x}) /\ Part(h, s) = h[x] + Part(h, s \ {x})
        /\ Part(k, s) = k[x] + Part(k, s \ {x})
        /\ Part(f, s \ {x}) \in Nat /\ Part(h, s \ {x}) \in Nat
    BY PartSteps
  <2>2. f[x] \in Nat /\ h[x] \in Nat /\ k[x] = f[x] + h[x]
        /\ Part(k, s \ {x}) = Part(f, s \ {x}) + Part(h, s \ {x})
    BY <1>2
  <2> QED BY <2>1, <2>2
<1>3. D \in P
  <2> HIDE DEF P
  <2> QED BY <1>1, <1>2, InductSets
<1>4. Part(k, D) = Part(f, D) + Part(h, D)
  BY <1>3
<1> QED BY <1>4, PartSteps

\* Values put into buckets by their keys add up as they did before.
Bucket(key, s, b) == {i \in s : key[i] = b}

LEMMA TotalBuckets ==
    ASSUME NEW B, IsFiniteSet(B), NEW I, IsFiniteSet(I),
           NEW key \in [I -> B], NEW d \in [I -> Nat]
    PROVE  Uc!Total([b \in B |-> Part(d, Bucket(key, I, b))]) = Uc!Total(d)
<1> DEFINE Row(s) == [b \in B |-> Part(d, Bucket(key, s, b))]
           P == {s \in SUBSET I : Uc!Total(Row(s)) = Part(d, s)}
<1>0. ASSUME NEW s \in SUBSET I
      PROVE  /\ Row(s) \in [B -> Nat]
             /\ \A b \in B : Bucket(key, s, b) \in SUBSET I
  <2>1. \A b \in B : Bucket(key, s, b) \in SUBSET I
    BY DEF Bucket
  <2>2. \A b \in B : Part(d, Bucket(key, s, b)) \in Nat
    BY <2>1, PartSteps
  <2> QED BY <2>1, <2>2
<1>1. {} \in P
  <2>1. \A b \in B : Bucket(key, {}, b) = {}
    BY DEF Bucket
  <2>2. Part(d, {}) = 0
    BY PartSteps
  <2>3. Row({}) \in [B -> Nat] /\ \A b \in B : Row({})[b] = 0
    <3>1. \A b \in B : Row({})[b] = Part(d, Bucket(key, {}, b))
      OBVIOUS
    <3>2. \A b \in B : Part(d, Bucket(key, {}, b)) = 0
      BY <2>1, <2>2
    <3>3. Row({}) \in [B -> Nat]
      BY <1>0
    <3> HIDE DEF Row
    <3> QED BY <3>1, <3>2, <3>3
  <2>4. Uc!Total(Row({})) = 0
    <3> HIDE DEF Row
    <3> QED BY <2>3, TotalZero
  <2> QED BY <2>2, <2>4
<1>2. ASSUME NEW s \in SUBSET I, NEW x \in s, s \ {x} \in P PROVE s \in P
  <2>1. PICK one : one = [b \in B |-> IF b = key[x] THEN d[x] ELSE 0]
    OBVIOUS
  <2>2. one \in [B -> Nat] /\ key[x] \in B /\ one[key[x]] = d[x]
        /\ \A b \in B \ {key[x]} : one[b] = 0
    BY <2>1
  <2>3. Uc!Total(one) = d[x]
    <3>1. Uc!Total(one) = one[key[x]]
      BY <2>2, TotalOne
    <3> QED BY <2>2, <3>1
  <2>4. ASSUME NEW b \in B PROVE Row(s)[b] = Row(s \ {x})[b] + one[b]
    <3>1. Row(s)[b] = Part(d, Bucket(key, s, b))
          /\ Row(s \ {x})[b] = Part(d, Bucket(key, s \ {x}, b))
      OBVIOUS
    <3>2. CASE b = key[x]
      <4>1. /\ Bucket(key, s \ {x}, b) = Bucket(key, s, b) \ {x}
            /\ x \in Bucket(key, s, b) /\ Bucket(key, s, b) \in SUBSET I
        BY <3>2 DEF Bucket
      <4>2. Part(d, Bucket(key, s, b)) = d[x] + Part(d, Bucket(key, s, b) \ {x})
        BY <4>1, PartSteps
      <4>3. Part(d, Bucket(key, s, b) \ {x}) \in Nat
        BY <4>1, PartSteps
      <4>4. d[x] \in Nat /\ one[b] = d[x]
        BY <2>2, <3>2
      <4>5. /\ Row(s)[b] = d[x] + Part(d, Bucket(key, s, b) \ {x})
            /\ Row(s \ {x})[b] = Part(d, Bucket(key, s, b) \ {x})
        <5> HIDE DEF Row
        <5> QED BY <3>1, <4>1, <4>2
      <4> PICK rest \in Nat : rest = Part(d, Bucket(key, s, b) \ {x})
        BY <4>3
      <4> PICK u : u = Row(s)[b]
        OBVIOUS
      <4> PICK v : v = Row(s \ {x})[b]
        OBVIOUS
      <4> HIDE DEF Row
      <4> QED BY <4>4, <4>5
    <3>3. CASE b # key[x]
      <4>1. Bucket(key, s \ {x}, b) = Bucket(key, s, b) /\ one[b] = 0
        BY <2>2, <3>3 DEF Bucket
      <4>2. Part(d, Bucket(key, s, b)) \in Nat
        BY PartSteps DEF Bucket
      <4> HIDE DEF Row
      <4> QED BY <3>1, <4>1, <4>2
    <3> QED BY <3>2, <3>3
  <2>5. Row(s) \in [B -> Nat] /\ Row(s \ {x}) \in [B -> Nat]
    BY <1>0
  <2>6. Uc!Total(Row(s)) = Uc!Total(Row(s \ {x})) + Uc!Total(one)
    <3>1. PICK u \in [B -> Nat] : u = Row(s)
      BY <2>5
    <3>2. PICK v \in [B -> Nat] : v = Row(s \ {x})
      BY <2>5
    <3>3. \A b \in B : u[b] = v[b] + one[b]
      BY <2>4, <3>1, <3>2
    <3> HIDE DEF Row, P
    <3>4. one \in [B -> Nat]
      BY <2>2
    <3>5. Uc!Total(u) = Uc!Total(v) + Uc!Total(one)
      BY <3>3, <3>4, TotalAdds
    <3> QED BY <3>1, <3>2, <3>5
  <2>7. Part(d, s) = d[x] + Part(d, s \ {x}) /\ Part(d, s \ {x}) \in Nat /\ d[x] \in Nat
    <3> HIDE DEF Row, P
    <3>1. s \ {x} \in SUBSET I /\ d[x] \in Nat
      OBVIOUS
    <3>2. Part(d, s \ {x}) \in Nat
      BY <3>1, PartSteps
    <3>3. Part(d, s) = d[x] + Part(d, s \ {x})
      BY PartSteps
    <3> QED BY <3>1, <3>2, <3>3
  <2>8. Uc!Total(Row(s \ {x})) = Part(d, s \ {x})
    BY <1>2
  <2> HIDE DEF Row
  <2> QED BY <2>3, <2>6, <2>7, <2>8
<1>3. I \in P
  <2> HIDE DEF P
  <2> QED BY <1>1, <1>2, InductSets
<1>4. Uc!Total(Row(I)) = Part(d, I)
  BY <1>3
<1> QED BY <1>4, PartSteps

\* Sums can be taken in either order.
LEMMA TotalSwaps ==
    ASSUME NEW B, IsFiniteSet(B), NEW C, IsFiniteSet(C), NEW m \in [B -> [C -> Nat]]
    PROVE  Uc!Total([b \in B |-> Uc!Total(m[b])]) =
             Uc!Total([c \in C |-> Uc!Total([b \in B |-> m[b][c]])])
<1> DEFINE Column(c) == [b \in B |-> m[b][c]]
           h == [c \in C |-> Uc!Total(Column(c))]
           Row(s) == [b \in B |-> Part(m[b], s)]
           P == {s \in SUBSET C : Uc!Total(Row(s)) = Part(h, s)}
<1>a. \A b \in B : m[b] \in [C -> Nat]
  OBVIOUS
<1>b. h \in [C -> Nat] /\ \A c \in C : h[c] = Uc!Total(Column(c))
  <2>1. \A c \in C : Column(c) \in [B -> Nat]
    BY <1>a
  <2>2. \A c \in C : Uc!Total(Column(c)) \in Nat
    <3> HIDE DEF Column
    <3> QED BY <2>1, TotalType
  <2> HIDE DEF Column
  <2> QED BY <2>2
<1>c. \A s \in SUBSET C : Part(h, s) \in Nat
  <2> HIDE DEF h
  <2> QED BY <1>b, PartSteps
<1>d. /\ Part(h, {}) = 0 /\ Part(h, C) = Uc!Total(h)
      /\ \A s \in SUBSET C : \A x \in s : Part(h, s) = h[x] + Part(h, s \ {x})
  <2> HIDE DEF h
  <2> QED BY <1>b, PartSteps
<1> HIDE DEF h
<1>0. ASSUME NEW s \in SUBSET C
      PROVE  Row(s) \in [B -> Nat] /\ \A b \in B : Row(s)[b] = Part(m[b], s)
  <2>1. \A b \in B : m[b] \in [C -> Nat]
    OBVIOUS
  <2>2. \A b \in B : Part(m[b], s) \in Nat
    BY <2>1, PartSteps
  <2> QED BY <2>2
<1>1. {} \in P
  <2>1. \A b \in B : Row({})[b] = 0
    <3>1. \A b \in B : m[b] \in [C -> Nat]
      OBVIOUS
    <3>2. \A b \in B : Part(m[b], {}) = 0
      BY <3>1, PartSteps
    <3> QED BY <3>2
  <2>2. Uc!Total(Row({})) = 0
    <3>1. Row({}) \in [B -> Nat]
      BY <1>0
    <3> HIDE DEF Row
    <3> QED BY <2>1, <3>1, TotalZero
  <2> QED BY <1>d, <2>2
<1>2. ASSUME NEW s \in SUBSET C, NEW x \in s, s \ {x} \in P PROVE s \in P
  <2>1. PICK one : one = [b \in B |-> m[b][x]]
    OBVIOUS
  <2>2. one \in [B -> Nat] /\ \A b \in B : one[b] = m[b][x] /\ m[b] \in [C -> Nat]
    BY <2>1
  <2>3. h[x] = Uc!Total(one)
    <3>1. Column(x) = one
      BY <2>1
    <3> HIDE DEF Column
    <3> QED BY <1>b, <3>1
  <2>4. ASSUME NEW b \in B PROVE Row(s)[b] = Row(s \ {x})[b] + one[b]
    <3>1. Part(m[b], s) = m[b][x] + Part(m[b], s \ {x})
      BY <2>2, PartSteps
    <3>2. Part(m[b], s \ {x}) \in Nat /\ m[b][x] \in Nat
      BY <2>2, PartSteps
    <3>3. Row(s)[b] = Part(m[b], s) /\ Row(s \ {x})[b] = Part(m[b], s \ {x})
      BY <1>0
    <3> HIDE DEF Row
    <3> QED BY <2>2, <3>1, <3>2, <3>3
  <2>5. Row(s) \in [B -> Nat] /\ Row(s \ {x}) \in [B -> Nat]
    BY <1>0
  <2>6. Uc!Total(Row(s)) = Uc!Total(Row(s \ {x})) + Uc!Total(one)
    <3>1. PICK u \in [B -> Nat] : u = Row(s)
      BY <2>5
    <3>2. PICK v \in [B -> Nat] : v = Row(s \ {x})
      BY <2>5
    <3>3. \A b \in B : u[b] = v[b] + one[b]
      BY <2>4, <3>1, <3>2
    <3> HIDE DEF Row, P
    <3>4. one \in [B -> Nat]
      BY <2>2
    <3>5. Uc!Total(u) = Uc!Total(v) + Uc!Total(one)
      BY <3>3, <3>4, TotalAdds
    <3> QED BY <3>1, <3>2, <3>5
  <2>7. Part(h, s) = h[x] + Part(h, s \ {x}) /\ Part(h, s \ {x}) \in Nat /\ h[x] \in Nat
    <3> HIDE DEF Row, P
    <3> QED BY <1>b, <1>c, <1>d
  <2>8. Uc!Total(Row(s \ {x})) = Part(h, s \ {x})
    BY <1>2
  <2> HIDE DEF Row
  <2> QED BY <2>3, <2>6, <2>7, <2>8
<1>3. C \in P
  <2> HIDE DEF P
  <2> QED BY <1>1, <1>2, InductSets
<1>4. Row(C) = [b \in B |-> Uc!Total(m[b])]
  <2>1. \A b \in B : Part(m[b], C) = Uc!Total(m[b])
    BY <1>a, PartSteps
  <2> QED BY <2>1
<1>5. Uc!Total(Row(C)) = Uc!Total(h)
  <2> HIDE DEF Row
  <2> QED BY <1>3, <1>d
<1> QED BY <1>4, <1>5 DEF h

-----------------------------------------------------------------------------
(* The charts.                                                              *)

\* The rows of a query, row by row.
TakeRow(rows, t, v, n) == IF rows[n].ts >= t THEN Append(v, rows[n]) ELSE v

LEMMA SinceSteps ==
    ASSUME NEW rows, NEW t, Len(rows) \in Nat
    PROVE  \E f : /\ f[0] = <<>> /\ Uc!Since(rows, t) = f[Len(rows)]
                  /\ \A n \in 1 .. Len(rows) : f[n] = TakeRow(rows, t, f[n - 1], n)
<1> DEFINE L == Len(rows)
           Found(u) == u = [i \in 0 .. L |->
                              IF i = 0 THEN <<>>
                              ELSE IF rows[i].ts >= t THEN Append(u[i - 1], rows[i])
                              ELSE u[i - 1]]
           Good(f, k) == /\ f[0] = <<>>
                         /\ \A n \in 0 .. L : 0 < n /\ n <= k =>
                              f[n] = TakeRow(rows, t, f[n - 1], n)
           S == {k \in Nat : \E f : f = [n \in 0 .. L |-> f[n]] /\ Good(f, k)}
<1>0. L \in Nat /\ 0 \in 0 .. L
  OBVIOUS
<1>1. 0 \in S
  <2>1. PICK f : f = [n \in 0 .. L |-> <<>>]
    OBVIOUS
  <2>2. f[0] = <<>>
    BY <1>0, <2>1
  <2>3. f = [n \in 0 .. L |-> f[n]]
    BY <2>1
  <2> HIDE DEF L
  <2>4. Good(f, 0)
    BY <1>0, <2>2
  <2> QED BY <2>3, <2>4
<1>2. ASSUME NEW k \in Nat, k \in S PROVE k + 1 \in S
  <2>1. PICK f : f = [n \in 0 .. L |-> f[n]] /\ Good(f, k)
    BY <1>2
  <2>2. PICK v : v = TakeRow(rows, t, f[k], k + 1)
    OBVIOUS
  <2>3. PICK g : g = [n \in 0 .. L |-> IF n = k + 1 THEN v ELSE f[n]]
    OBVIOUS
  <2> HIDE DEF L
  <2>4. g[0] = <<>> /\ g = [n \in 0 .. L |-> g[n]]
    BY <1>0, <2>1, <2>3
  <2>5. ASSUME NEW n \in 0 .. L, 0 < n, n <= k + 1 PROVE g[n] = TakeRow(rows, t, g[n - 1], n)
    <3>1. n - 1 \in 0 .. L /\ n - 1 # k + 1 /\ g[n - 1] = f[n - 1]
      BY <1>0, <2>3, <2>5
    <3>2. CASE n = k + 1
      BY <1>0, <2>2, <2>3, <3>1, <3>2
    <3>3. CASE n # k + 1
      <4>1. g[n] = f[n] /\ n <= k
        BY <1>0, <2>3, <2>5, <3>3
      <4>2. f[n] = TakeRow(rows, t, f[n - 1], n)
        BY <2>1, <2>5, <4>1
      <4> QED BY <3>1, <4>1, <4>2
    <3> QED BY <3>2, <3>3
  <2>6. Good(g, k + 1)
    BY <2>4, <2>5
  <2> HIDE DEF Good
  <2>7. \E h : h = [n \in 0 .. L |-> h[n]] /\ Good(h, k + 1)
    BY <2>4, <2>6, Zenon
  <2>8. k + 1 \in Nat
    OBVIOUS
  <2> QED BY <2>7, <2>8, Zenon
<1>3. L \in S
  <2> HIDE DEF S, L
  <2> QED BY <1>0, <1>1, <1>2, Induct
<1>4. PICK f : f = [n \in 0 .. L |-> f[n]] /\ Good(f, L)
  BY <1>3
<1>5. Found(f)
  <2> HIDE DEF L
  <2>1. ASSUME NEW n \in 0 .. L, n # 0 PROVE f[n] = TakeRow(rows, t, f[n - 1], n)
    BY <1>0, <1>4, <2>1
  <2> QED BY <1>4, <2>1 DEF TakeRow
<1>6. \E u : Found(u) /\ Uc!Since(rows, t) = u[L]
  <2> HIDE DEF Good, S
  <2> QED BY <1>5, Zenon DEF Uc!Since
<1>7. PICK u : Found(u) /\ Uc!Since(rows, t) = u[L]
  BY <1>6
<1>8. u[0] = <<>>
  BY <1>0, <1>7
<1>9. ASSUME NEW n \in 1 .. L PROVE u[n] = TakeRow(rows, t, u[n - 1], n)
  <2>1. n \in 0 .. L /\ n # 0
    BY <1>0
  <2> HIDE DEF L
  <2> QED BY <1>7, <2>1 DEF TakeRow
<1> QED BY <1>7, <1>8, <1>9

\* Rows in the order of time: a query for the latest leaves the first out.
Timed(rows) ==
  /\ \A i \in 1 .. Len(rows) : rows[i].ts \in Nat
  /\ \A i \in 1 .. Len(rows) - 1 : rows[i].ts <= rows[i + 1].ts
IsTail(w, rows, o) ==
  /\ o \in 0 .. Len(rows) /\ Len(w) = Len(rows) - o
  /\ \A i \in 1 .. Len(w) : w[i] = rows[i + o]

LEMMA SinceTail ==
    ASSUME NEW R, NEW rows \in Seq(R), NEW t \in Int, Timed(rows)
    PROVE  /\ Uc!Since(rows, t) \in Seq(R)
           /\ \E o : IsTail(Uc!Since(rows, t), rows, o)
<1>0. Len(rows) \in Nat /\ \A i \in 1 .. Len(rows) : rows[i] \in R
  OBVIOUS
<1>1. PICK f : /\ f[0] = <<>> /\ Uc!Since(rows, t) = f[Len(rows)]
               /\ \A n \in 1 .. Len(rows) : f[n] = TakeRow(rows, t, f[n - 1], n)
  BY <1>0, SinceSteps
<1> DEFINE Upto(n, o) == /\ o \in 0 .. n /\ f[n] \in Seq(R) /\ Len(f[n]) = n - o
                         /\ \A i \in 1 .. n - o : f[n][i] = rows[i + o]
                         /\ o < n => rows[n].ts >= t
           S == {n \in Nat : n <= Len(rows) => \E o : Upto(n, o)}
<1>2. 0 \in S
  <2>1. Upto(0, 0)
    BY <1>1
  <2> QED BY <2>1
<1>3. ASSUME NEW n \in Nat, n \in S PROVE n + 1 \in S
  <2>1. SUFFICES ASSUME n + 1 <= Len(rows) PROVE \E o : Upto(n + 1, o)
    <3> HIDE DEF Upto
    <3> QED OBVIOUS
  <2>2. PICK o : Upto(n, o)
    BY <1>0, <1>3, <2>1
  <2>3. /\ n + 1 \in 1 .. Len(rows) /\ (n + 1) - 1 = n
        /\ rows[n + 1] \in R /\ rows[n + 1].ts \in Nat
    BY <1>0, <2>1 DEF Timed
  <2>4. f[n + 1] = TakeRow(rows, t, f[n], n + 1)
    BY <1>1, <2>3
  <2>5. CASE rows[n + 1].ts >= t
    <3>1. f[n + 1] = Append(f[n], rows[n + 1])
      BY <2>4, <2>5 DEF TakeRow
    <3>2. /\ f[n + 1] \in Seq(R) /\ Len(f[n + 1]) = (n + 1) - o
          /\ \A i \in 1 .. (n + 1) - o : f[n + 1][i] = IF i = (n + 1) - o THEN rows[n + 1] ELSE f[n][i]
      <4>1. PICK v \in Seq(R) : v = f[n] /\ Len(v) = n - o
        BY <2>2
      <4>2. PICK x \in R : x = rows[n + 1]
        BY <2>3
      <4>3. /\ Append(v, x) \in Seq(R) /\ Len(Append(v, x)) = Len(v) + 1
            /\ \A i \in 1 .. Len(v) + 1 : Append(v, x)[i] = IF i = Len(v) + 1 THEN x ELSE v[i]
        OBVIOUS
      <4>4. Len(v) + 1 = (n + 1) - o /\ f[n + 1] = Append(v, x)
        BY <2>2, <3>1, <4>1, <4>2, SMTT(30)
      <4> HIDE DEF Upto
      <4> QED BY <4>1, <4>2, <4>3, <4>4
    <3>3. \A i \in 1 .. (n + 1) - o : f[n + 1][i] = rows[i + o]
      <4>1. SUFFICES ASSUME NEW i \in 1 .. (n + 1) - o PROVE f[n + 1][i] = rows[i + o]
        OBVIOUS
      <4>2. CASE i = (n + 1) - o
        <5>1. i + o = n + 1
          BY <2>2, <4>2
        <5> QED BY <3>2, <4>2, <5>1
      <4>3. CASE i # (n + 1) - o
        <5>1. i \in 1 .. n - o
          BY <2>2, <4>3
        <5> QED BY <2>2, <3>2, <4>3, <5>1
      <4> QED BY <4>2, <4>3
    <3>4. o \in 0 .. n + 1
      BY <2>2
    <3>5. Upto(n + 1, o)
      BY <2>5, <3>2, <3>3, <3>4
    <3> QED BY <3>5
  <2>6. CASE ~(rows[n + 1].ts >= t)
    <3>1. f[n + 1] = f[n]
      BY <2>4, <2>6 DEF TakeRow
    <3>2. o = n
      <4>1. SUFFICES ASSUME o < n PROVE FALSE
        BY <2>2
      <4>2. n \in 1 .. Len(rows) - 1 /\ n \in 1 .. Len(rows)
        BY <1>0, <2>1, <2>2, <4>1
      <4>3. rows[n].ts <= rows[n + 1].ts /\ rows[n].ts \in Nat
        BY <4>2 DEF Timed
      <4>4. rows[n].ts >= t
        BY <2>2, <4>1
      <4> QED BY <2>3, <2>6, <4>3, <4>4
    <3>3. f[n] \in Seq(R) /\ Len(f[n]) = 0
      BY <2>2, <3>2
    <3>4. Upto(n + 1, n + 1)
      BY <3>1, <3>3
    <3> QED BY <3>4
  <2> QED BY <2>5, <2>6
<1>4. Len(rows) \in S
  <2> HIDE DEF S
  <2> QED BY <1>0, <1>2, <1>3, Induct
<1>5. PICK o : Upto(Len(rows), o)
  BY <1>0, <1>4
<1>6. IsTail(f[Len(rows)], rows, o) /\ f[Len(rows)] \in Seq(R)
  BY <1>5 DEF IsTail
<1> QED BY <1>1, <1>6

-----------------------------------------------------------------------------
clock == x1
counter == x2
boot == x3
samples == x4
USE DEF clock, counter, boot, samples

\* What a row says follows from the row before; a counter that starts again
\* starts from nothing.
Follows(a, b) ==
  /\ a.ts <= b.ts /\ a.boot <= b.boot
  /\ a.boot = b.boot => a.bytes <= b.bytes
  /\ b.charged = IF b.bytes < a.bytes THEN b.bytes ELSE b.bytes - a.bytes
Books(rows) ==
  /\ \A i \in 1 .. Len(rows) : rows[i].ts <= clock /\ rows[i].boot <= boot
  /\ \A i \in 1 .. Len(rows) - 1 : Follows(rows[i], rows[i + 1])
Counted(rows, n) ==
  Len(rows) > 0 /\ rows[Len(rows)].boot = boot => rows[Len(rows)].bytes <= n
ChartInv == Uc!TypeOK /\ \A c \in Charted : Books(samples[c]) /\ Counted(samples[c], counter[c])

LEMMA ChartFacts ==
  /\ IsFiniteSet(Charted) /\ Lookbacks \subseteq Nat /\ Widths \in [Lookbacks -> Nat \ {0}]
  /\ Retention \in Nat /\ MaxTime \in Nat /\ MaxBytes \in Nat
<1>1. Uc!ChartAssumption
  BY MachinesAssumption
<1>2. Uc!IsFiniteSet(Charted) => IsFiniteSet(Charted)
  BY DEF Uc!IsFiniteSet, IsFiniteSet
<1> QED BY <1>1, <1>2 DEF Uc!ChartAssumption

LEMMA RowType ==
    ASSUME NEW x \in Uc!UsageRow
    PROVE  /\ x.ts \in Nat /\ x.bytes \in Nat /\ x.charged \in Nat /\ x.boot \in Nat
           /\ x.bytes <= MaxBytes /\ x.ts <= MaxTime
BY ChartFacts DEF Uc!UsageRow

\* A query for the latest rows finds books.
LEMMA SinceBooks ==
    ASSUME NEW rows \in Seq(Uc!UsageRow), NEW t \in Int, Books(rows)
    PROVE  LET w == Uc!Since(rows, t) IN
           /\ w \in Seq(Uc!UsageRow) /\ Books(w)
           /\ Len(w) > 0 => Len(rows) > 0 /\ w[Len(w)] = rows[Len(rows)]
<1>0. Len(rows) \in Nat /\ \A i \in 1 .. Len(rows) : rows[i] \in Uc!UsageRow
  OBVIOUS
<1>1. Timed(rows)
  BY <1>0, RowType DEF Timed, Books, Follows
<1>2. PICK w : w = Uc!Since(rows, t)
  OBVIOUS
<1>3. w \in Seq(Uc!UsageRow)
  BY <1>1, <1>2, SinceTail
<1>4. PICK o : IsTail(w, rows, o)
  BY <1>1, <1>2, SinceTail
<1>5. o \in 0 .. Len(rows) /\ Len(w) = Len(rows) - o /\ \A i \in 1 .. Len(w) : w[i] = rows[i + o]
  BY <1>4 DEF IsTail
<1>6. ASSUME NEW i \in 1 .. Len(w) PROVE w[i].ts <= clock /\ w[i].boot <= boot
  <2>1. i + o \in 1 .. Len(rows) /\ w[i] = rows[i + o]
    BY <1>0, <1>5
  <2> QED BY <2>1 DEF Books
<1>7. ASSUME NEW i \in 1 .. Len(w) - 1 PROVE Follows(w[i], w[i + 1])
  <2>1. i + o \in 1 .. Len(rows) - 1 /\ i \in 1 .. Len(w) /\ i + 1 \in 1 .. Len(w)
        /\ (i + 1) + o = (i + o) + 1
    BY <1>0, <1>5
  <2>2. w[i] = rows[i + o] /\ w[i + 1] = rows[(i + o) + 1]
    BY <1>5, <2>1, SMTT(30)
  <2> QED BY <2>1, <2>2 DEF Books
<1>8. Len(w) > 0 => Len(rows) > 0 /\ w[Len(w)] = rows[Len(rows)]
  BY <1>0, <1>5
<1>9. Books(w)
  BY <1>6, <1>7 DEF Books
<1> QED BY <1>2, <1>3, <1>8, <1>9

LEMMA ChartInit == Uc!Init => ChartInv
<1> SUFFICES ASSUME Uc!Init PROVE ChartInv
  OBVIOUS
<1>1. Uc!TypeOK
  BY ChartFacts DEF Uc!Init, Uc!TypeOK
<1>2. \A c \in Charted : samples[c] = <<>>
  BY DEF Uc!Init
<1> QED BY <1>1, <1>2 DEF ChartInv, Books, Counted

LEMMA PollKeeps == ASSUME ChartInv, NEW c \in Charted, Uc!PollOne(c) PROVE ChartInv'
<1> DEFINE rows == samples[c]
           n == counter[c]
           sample == [ts |-> clock, bytes |-> n, charged |-> Uc!Charge(c), boot |-> boot]
<1>0. /\ clock \in 0 .. MaxTime /\ n \in 0 .. MaxBytes /\ boot \in 0 .. 1
      /\ rows \in Seq(Uc!UsageRow) /\ Books(rows) /\ Counted(rows, n)
      /\ samples \in [Charted -> Seq(Uc!UsageRow)]
  BY DEF ChartInv, Uc!TypeOK
<1>1. /\ Uc!Charge(c) > 0 /\ samples' = [samples EXCEPT ![c] = Append(rows, sample)]
      /\ UNCHANGED <<clock, counter, boot>>
  BY DEF Uc!PollOne
<1>2. Uc!Charge(c) = IF Len(rows) = 0 THEN n
                     ELSE IF n < rows[Len(rows)].bytes THEN n ELSE n - rows[Len(rows)].bytes
  <2>1. rows = <<>> <=> Len(rows) = 0
    BY <1>0
  <2> QED BY <2>1 DEF Uc!Charge
<1>3. ASSUME Len(rows) > 0
      PROVE  rows[Len(rows)] \in Uc!UsageRow /\ rows[Len(rows)].bytes \in Nat
             /\ rows[Len(rows)].ts <= clock /\ rows[Len(rows)].boot <= boot
             /\ (rows[Len(rows)].boot = boot => rows[Len(rows)].bytes <= n)
  <2>1. Len(rows) \in 1 .. Len(rows)
    BY <1>0, <1>3
  <2>2. rows[Len(rows)] \in Uc!UsageRow
    BY <1>0, <2>1
  <2> QED BY <1>0, <1>3, <2>1, <2>2, RowType DEF Books, Counted
<1>4. Uc!Charge(c) \in 1 .. MaxBytes /\ n \in 1 .. MaxBytes
  <2> HIDE DEF rows, n
  <2> QED BY <1>0, <1>1, <1>2, <1>3, ChartFacts
<1>5. sample \in Uc!UsageRow
  BY <1>0, <1>4 DEF Uc!UsageRow
<1>6. PICK all : all = Append(rows, sample)
  OBVIOUS
<1>7. /\ all \in Seq(Uc!UsageRow) /\ Len(all) = Len(rows) + 1 /\ Len(rows) \in Nat
      /\ all[Len(all)] = sample
      /\ \A i \in 1 .. Len(rows) : all[i] = rows[i]
  <2> HIDE DEF rows, sample
  <2> QED BY <1>0, <1>5, <1>6
<1>8. Books(all)
  <2>1. ASSUME NEW i \in 1 .. Len(all) PROVE all[i].ts <= clock /\ all[i].boot <= boot
    <3>1. sample.ts = clock /\ sample.boot = boot
      OBVIOUS
    <3>2. CASE i \in 1 .. Len(rows)
      BY <1>0, <1>7, <3>2 DEF Books
    <3>3. CASE i = Len(all)
      BY <1>0, <1>7, <3>1, <3>3
    <3>4. i \in 1 .. Len(rows) \/ i = Len(all)
      BY <1>7
    <3> QED BY <3>2, <3>3, <3>4
  <2>2. ASSUME NEW i \in 1 .. Len(all) - 1 PROVE Follows(all[i], all[i + 1])
    <3>1. CASE i < Len(rows)
      <4>1. i \in 1 .. Len(rows) - 1 /\ i \in 1 .. Len(rows) /\ i + 1 \in 1 .. Len(rows)
        BY <1>7, <3>1
      <4> QED BY <1>0, <1>7, <4>1 DEF Books
    <3>2. CASE i = Len(rows)
      <4>1. Len(rows) > 0 /\ all[i] = rows[Len(rows)] /\ all[i + 1] = sample
        BY <1>7, <3>2
      <4>2. sample.ts = clock /\ sample.boot = boot /\ sample.bytes = n /\ sample.charged = Uc!Charge(c)
        OBVIOUS
      <4>3. sample.charged = IF n < rows[Len(rows)].bytes THEN n ELSE n - rows[Len(rows)].bytes
        BY <1>2, <4>1, <4>2
      <4> HIDE DEF rows, sample, n
      <4> QED BY <1>3, <4>1, <4>2, <4>3 DEF Follows
    <3> QED BY <1>7, <3>1, <3>2
  <2> QED BY <2>1, <2>2 DEF Books
<1>9. Counted(all, n)
  <2>1. sample.bytes = n
    OBVIOUS
  <2> HIDE DEF sample
  <2> QED BY <1>0, <1>7, <2>1 DEF Counted
<1> HIDE DEF sample
<1>10. samples' \in [Charted -> Seq(Uc!UsageRow)]
  BY <1>0, <1>1, <1>6, <1>7
<1>11. Uc!TypeOK'
  BY <1>1, <1>10 DEF ChartInv, Uc!TypeOK
<1>12. ASSUME NEW b \in Charted PROVE Books(samples[b])' /\ Counted(samples[b], counter[b])'
  <2>1. CASE b = c
    BY <1>0, <1>1, <1>6, <1>8, <1>9, <2>1 DEF Books, Counted
  <2>2. CASE b # c
    <3>1. samples'[b] = samples[b]
      BY <1>0, <1>1, <2>2
    <3> QED BY <1>1, <3>1 DEF ChartInv, Books, Counted
  <2> QED BY <2>1, <2>2
<1> QED BY <1>11, <1>12 DEF ChartInv

LEMMA RollupKeeps == ASSUME ChartInv, Uc!Rollup PROVE ChartInv'
<1>1. samples' = [c \in Charted |-> Uc!Since(samples[c], clock - Retention)]
      /\ UNCHANGED <<clock, counter, boot>>
  BY DEF Uc!Rollup
<1>2. clock - Retention \in Int
  BY ChartFacts DEF ChartInv, Uc!TypeOK
<1>3. ASSUME NEW c \in Charted
      PROVE  /\ samples'[c] \in Seq(Uc!UsageRow) /\ Books(samples'[c])
             /\ Counted(samples'[c], counter[c])
  <2>1. samples[c] \in Seq(Uc!UsageRow) /\ Books(samples[c]) /\ Counted(samples[c], counter[c])
    BY DEF ChartInv, Uc!TypeOK
  <2>2. PICK w : w = samples'[c]
    OBVIOUS
  <2>3. /\ w \in Seq(Uc!UsageRow) /\ Books(w)
        /\ Len(w) > 0 => Len(samples[c]) > 0 /\ w[Len(w)] = samples[c][Len(samples[c])]
    BY <1>1, <1>2, <2>1, <2>2, SinceBooks
  <2> QED BY <2>1, <2>2, <2>3 DEF Counted
<1>4. samples' \in [Charted -> Seq(Uc!UsageRow)]
  BY <1>1, <1>3
<1>5. Uc!TypeOK'
  BY <1>1, <1>4 DEF ChartInv, Uc!TypeOK
<1>6. ASSUME NEW c \in Charted PROVE Books(samples[c])' /\ Counted(samples[c], counter[c])'
  BY <1>1, <1>3 DEF Books, Counted
<1> QED BY <1>5, <1>6 DEF ChartInv

LEMMA ChartNext == ASSUME ChartInv, Uc!Next PROVE ChartInv'
<1>0. /\ clock \in 0 .. MaxTime /\ boot \in 0 .. 1 /\ counter \in [Charted -> 0 .. MaxBytes]
      /\ samples \in [Charted -> Seq(Uc!UsageRow)]
  BY DEF ChartInv, Uc!TypeOK
<1>1. ASSUME NEW c \in Charted
      PROVE  /\ Len(samples[c]) \in Nat
             /\ \A i \in 1 .. Len(samples[c]) : samples[c][i] \in Uc!UsageRow
             /\ Len(samples[c]) > 0 => Len(samples[c]) \in 1 .. Len(samples[c])
  BY <1>0
<1>2. ASSUME NEW c \in Charted, Uc!Traffic(c) PROVE ChartInv'
  <2>1. /\ counter' = [counter EXCEPT ![c] = @ + 1] /\ counter[c] < MaxBytes
        /\ UNCHANGED <<clock, boot, samples>>
    BY <1>2 DEF Uc!Traffic
  <2>2. counter' \in [Charted -> 0 .. MaxBytes] /\ \A b \in Charted : counter[b] <= counter'[b]
    BY <1>0, <2>1, ChartFacts
  <2>3. Uc!TypeOK'
    BY <1>0, <2>1, <2>2 DEF Uc!TypeOK
  <2>4. ASSUME NEW b \in Charted PROVE Books(samples[b])' /\ Counted(samples[b], counter[b])'
    <3>1. Counted(samples[b], counter[b]) /\ Books(samples[b])
      BY DEF ChartInv
    <3>2. Books(samples[b])'
      BY <2>1, <3>1 DEF Books
    <3>3. Counted(samples[b], counter'[b])
      <4>1. SUFFICES ASSUME Len(samples[b]) > 0, samples[b][Len(samples[b])].boot = boot
                     PROVE  samples[b][Len(samples[b])].bytes <= counter'[b]
        BY DEF Counted
      <4>2. samples[b][Len(samples[b])].bytes \in Nat
        BY <1>1, <4>1, RowType
      <4>3. samples[b][Len(samples[b])].bytes <= counter[b]
        BY <3>1, <4>1 DEF Counted
      <4>4. counter[b] \in Nat /\ counter'[b] \in Nat /\ counter[b] <= counter'[b]
        BY <1>0, <2>2, ChartFacts
      <4> QED BY <4>2, <4>3, <4>4
    <3> QED BY <2>1, <3>2, <3>3 DEF Counted
  <2> QED BY <2>3, <2>4 DEF ChartInv
<1>3. ASSUME Uc!Restart PROVE ChartInv'
  <2>1. /\ boot = 0 /\ boot' = 1 /\ counter' = [c \in Charted |-> 0]
        /\ UNCHANGED <<clock, samples>>
    BY <1>3 DEF Uc!Restart
  <2>2. Uc!TypeOK'
    BY <1>0, <2>1, ChartFacts DEF Uc!TypeOK
  <2>3. ASSUME NEW b \in Charted PROVE Books(samples[b])' /\ Counted(samples[b], counter[b])'
    <3>1. Books(samples[b])
      BY DEF ChartInv
    <3>2. \A i \in 1 .. Len(samples[b]) : samples[b][i].boot <= 0 /\ samples[b][i].boot \in Nat
      BY <1>1, <2>1, <3>1, RowType DEF Books
    <3>3. Books(samples[b])'
      BY <2>1, <3>1, <3>2 DEF Books
    <3>4. Len(samples[b]) > 0 => samples[b][Len(samples[b])].boot # 1
      BY <1>1, <3>2
    <3> QED BY <2>1, <3>3, <3>4 DEF Counted
  <2> QED BY <2>2, <2>3 DEF ChartInv
<1>4. ASSUME Uc!Time PROVE ChartInv'
  <2>1. clock < MaxTime /\ clock' = clock + 1 /\ UNCHANGED <<counter, boot, samples>>
    BY <1>4 DEF Uc!Time
  <2>2. Uc!TypeOK'
    BY <1>0, <2>1, ChartFacts DEF Uc!TypeOK
  <2>3. ASSUME NEW b \in Charted PROVE Books(samples[b])' /\ Counted(samples[b], counter[b])'
    <3>1. Counted(samples[b], counter[b]) /\ Books(samples[b])
      BY DEF ChartInv
    <3>2. \A i \in 1 .. Len(samples[b]) : samples[b][i].ts \in Nat
      BY <1>1, RowType
    <3>3. Books(samples[b])'
      BY <1>0, <2>1, <3>1, <3>2, ChartFacts DEF Books
    <3> QED BY <2>1, <3>1, <3>3 DEF Counted
  <2> QED BY <2>2, <2>3 DEF ChartInv
<1> QED BY <1>2, <1>3, <1>4, PollKeeps, RollupKeeps DEF Uc!Next

-----------------------------------------------------------------------------
\* What a client's part of a chart is made of, and what it was billed.
Deltas(w)  == [i \in 2 .. Len(w) |-> Uc!Delta(w, i)]
Charges(w) == [i \in 2 .. Len(w) |-> w[i].charged]
OneBoot(w) == \A i, j \in 1 .. Len(w) : w[i].boot = w[j].boot

LEMMA DeltasCharged ==
    ASSUME NEW w \in Seq(Uc!UsageRow), Books(w)
    PROVE  /\ IsFiniteSet(2 .. Len(w))
           /\ Deltas(w) \in [2 .. Len(w) -> Nat] /\ Charges(w) \in [2 .. Len(w) -> Nat]
           /\ Uc!Total(Deltas(w)) \in Nat /\ Uc!Total(Charges(w)) \in Nat
           /\ Uc!Total(Deltas(w)) <= Uc!Total(Charges(w))
           /\ OneBoot(w) => Uc!Total(Deltas(w)) = Uc!Total(Charges(w))
<1>0. Len(w) \in Nat /\ \A i \in 1 .. Len(w) : w[i] \in Uc!UsageRow
  OBVIOUS
<1>1. IsFiniteSet(2 .. Len(w))
  BY <1>0, FS_Interval
<1>2. ASSUME NEW i \in 2 .. Len(w)
      PROVE  /\ Uc!Delta(w, i) \in Nat /\ w[i].charged \in Nat
             /\ Uc!Delta(w, i) <= w[i].charged
             /\ OneBoot(w) => Uc!Delta(w, i) = w[i].charged
  <2>1. i - 1 \in 1 .. Len(w) - 1 /\ i - 1 \in 1 .. Len(w) /\ i \in 1 .. Len(w)
        /\ i # 1 /\ (i - 1) + 1 = i
    BY <1>0
  <2>2. Follows(w[i - 1], w[i])
    BY <2>1 DEF Books
  <2>3. /\ w[i].bytes \in Nat /\ w[i].charged \in Nat /\ w[i].boot \in Nat
        /\ w[i - 1].bytes \in Nat /\ w[i - 1].boot \in Nat
    BY <1>0, <2>1, RowType
  <2>4. Uc!Delta(w, i) = IF w[i].bytes > w[i - 1].bytes THEN w[i].bytes - w[i - 1].bytes ELSE 0
    BY <2>1 DEF Uc!Delta
  <2>5. OneBoot(w) => w[i - 1].boot = w[i].boot
    BY <2>1 DEF OneBoot
  <2> QED BY <2>2, <2>3, <2>4, <2>5 DEF Follows
<1>3. Deltas(w) \in [2 .. Len(w) -> Nat] /\ Charges(w) \in [2 .. Len(w) -> Nat]
  BY <1>2 DEF Deltas, Charges
<1>4. \A i \in 2 .. Len(w) : Deltas(w)[i] <= Charges(w)[i]
  BY <1>2 DEF Deltas, Charges
<1>5. OneBoot(w) => Deltas(w) = Charges(w)
  BY <1>2 DEF Deltas, Charges
<1>6. Uc!Total(Deltas(w)) \in Nat /\ Uc!Total(Charges(w)) \in Nat
  BY <1>1, <1>3, TotalType
<1>7. Uc!Total(Deltas(w)) <= Uc!Total(Charges(w))
  BY <1>1, <1>3, <1>4, TotalGrows
<1> QED BY <1>1, <1>3, <1>5, <1>6, <1>7

\* The ticks of a chart and the bucket each row is in.
Ticks(r) == {Uc!BucketOf(r, ts) : ts \in 0 .. clock}
InBucket(w, r, b) == {i \in Uc!Differences(w) : Uc!BucketOf(r, w[i].ts) = b}

LEMMA BucketsAddUp ==
    ASSUME NEW w \in Seq(Uc!UsageRow), Books(w), clock \in Nat, NEW r
    PROVE  /\ IsFiniteSet(Ticks(r))
           /\ \A b \in Ticks(r) : Uc!Total([i \in InBucket(w, r, b) |-> Uc!Delta(w, i)]) \in Nat
           /\ Uc!Total([b \in Ticks(r) |-> Uc!Total([i \in InBucket(w, r, b) |-> Uc!Delta(w, i)])])
                = Uc!Total(Deltas(w))
<1>1. IsFiniteSet(Ticks(r))
  <2>1. IsFiniteSet(0 .. clock)
    BY FS_Interval
  <2>2. PICK f : f = [ts \in 0 .. clock |-> Uc!BucketOf(r, ts)]
    OBVIOUS
  <2>3. f \in Surjection(0 .. clock, Ticks(r))
    BY <2>2 DEF Surjection, Ticks
  <2> QED BY <2>1, <2>3, FS_Surjection
<1>2. PICK key : key = [i \in 2 .. Len(w) |-> Uc!BucketOf(r, w[i].ts)]
  OBVIOUS
<1>3. key \in [2 .. Len(w) -> Ticks(r)]
  <2>1. ASSUME NEW i \in 2 .. Len(w) PROVE w[i].ts \in 0 .. clock
    <3>1. i \in 1 .. Len(w) /\ w[i] \in Uc!UsageRow
      OBVIOUS
    <3> QED BY <3>1, RowType DEF Books
  <2> QED BY <1>2, <2>1 DEF Ticks
<1>4. /\ IsFiniteSet(2 .. Len(w)) /\ Deltas(w) \in [2 .. Len(w) -> Nat]
  BY DeltasCharged
<1>5. ASSUME NEW b \in Ticks(r)
      PROVE  /\ Part(Deltas(w), Bucket(key, 2 .. Len(w), b)) =
                  Uc!Total([i \in InBucket(w, r, b) |-> Uc!Delta(w, i)])
             /\ Part(Deltas(w), Bucket(key, 2 .. Len(w), b)) \in Nat
  <2>1. Bucket(key, 2 .. Len(w), b) = InBucket(w, r, b) /\ InBucket(w, r, b) \subseteq 2 .. Len(w)
    BY <1>2 DEF Bucket, InBucket, Uc!Differences
  <2>2. [i \in InBucket(w, r, b) |-> Deltas(w)[i]] = [i \in InBucket(w, r, b) |-> Uc!Delta(w, i)]
    BY <2>1 DEF Deltas
  <2>3. Part(Deltas(w), Bucket(key, 2 .. Len(w), b)) \in Nat
    BY <1>4, <2>1, PartSteps
  <2> QED BY <2>1, <2>2, <2>3 DEF Part
<1>6. Uc!Total([b \in Ticks(r) |-> Part(Deltas(w), Bucket(key, 2 .. Len(w), b))])
        = Uc!Total(Deltas(w))
  BY <1>1, <1>3, <1>4, TotalBuckets
<1>7. [b \in Ticks(r) |-> Part(Deltas(w), Bucket(key, 2 .. Len(w), b))]
        = [b \in Ticks(r) |-> Uc!Total([i \in InBucket(w, r, b) |-> Uc!Delta(w, i)])]
  BY <1>5
<1> QED BY <1>1, <1>5, <1>6, <1>7

LEMMA WindowBooks ==
    ASSUME ChartInv, NEW c \in Charted, NEW r \in Lookbacks
    PROVE  Uc!Window(c, r) \in Seq(Uc!UsageRow) /\ Books(Uc!Window(c, r))
<1>1. samples[c] \in Seq(Uc!UsageRow) /\ Books(samples[c]) /\ clock - r \in Int
  BY ChartFacts DEF ChartInv, Uc!TypeOK
<1> QED BY <1>1, SinceBooks DEF Uc!Window

LEMMA ChartAddsUp ==
    ASSUME ChartInv, NEW r \in Lookbacks, NEW allowed \in SUBSET Charted
    PROVE  Uc!AddsUp(Uc!buckets(r, allowed), r, allowed)
<1> DEFINE W(c) == Uc!Window(c, r)
           B == Ticks(r)
           cell(b, c) == Uc!Total([i \in InBucket(W(c), r, b) |-> Uc!Delta(W(c), i)])
           m == [b \in B |-> [c \in allowed |-> cell(b, c)]]
           drawn == [c \in allowed |-> Uc!Total(Deltas(W(c)))]
           billed == [c \in allowed |-> Uc!Total(Charges(W(c)))]
<1>0. IsFiniteSet(allowed) /\ clock \in Nat
  BY ChartFacts, FS_Subset DEF ChartInv, Uc!TypeOK
<1>1. ASSUME NEW c \in allowed PROVE W(c) \in Seq(Uc!UsageRow) /\ Books(W(c))
  BY WindowBooks
<1> HIDE DEF W
<1>2. IsFiniteSet(B)
  <2>1. <<>> \in Seq(Uc!UsageRow) /\ Books(<<>>)
    BY DEF Books
  <2> QED BY <1>0, <2>1, BucketsAddUp
<1>3. ASSUME NEW c \in allowed
      PROVE  /\ \A b \in B : cell(b, c) \in Nat
             /\ Uc!Total([b \in B |-> cell(b, c)]) = Uc!Total(Deltas(W(c)))
  BY <1>0, <1>1, BucketsAddUp
<1> HIDE DEF B, cell
<1>4. m \in [B -> [allowed -> Nat]]
  BY <1>3
<1>5. Uc!Total([b \in B |-> Uc!Total(m[b])]) =
        Uc!Total([c \in allowed |-> Uc!Total([b \in B |-> m[b][c]])])
  <2> HIDE DEF m
  <2> QED BY <1>0, <1>2, <1>4, TotalSwaps
<1>6. ASSUME NEW c \in allowed PROVE Uc!Total([b \in B |-> m[b][c]]) = Uc!Total(Deltas(W(c)))
  <2>1. [b \in B |-> m[b][c]] = [b \in B |-> cell(b, c)]
    OBVIOUS
  <2> HIDE DEF m
  <2> QED BY <1>3, <2>1
<1>7. [c \in allowed |-> Uc!Total([b \in B |-> m[b][c]])] = drawn
  <2> HIDE DEF m
  <2> QED BY <1>6
<1>8. Uc!buckets(r, allowed) = [b \in B |-> Uc!Total(m[b])]
  <2>1. \A b \in B : m[b] = [c \in allowed |-> cell(b, c)]
    OBVIOUS
  <2>2. [b \in B |-> Uc!Total(m[b])] = [b \in B |-> Uc!Total([c \in allowed |-> cell(b, c)])]
    <3> HIDE DEF m
    <3> QED BY <2>1
  <2>3. Uc!buckets(r, allowed) = [b \in B |-> Uc!Total([c \in allowed |-> cell(b, c)])]
    BY DEF Uc!buckets, B, Ticks, cell, W, InBucket
  <2> QED BY <2>2, <2>3
<1>9. Uc!Total(Uc!buckets(r, allowed)) = Uc!Total(drawn)
  <2> HIDE DEF m, drawn
  <2> QED BY <1>5, <1>7, <1>8
<1>10. Uc!Billed(r, allowed) = Uc!Total(billed)
  BY DEF Uc!Billed, W, Charges
<1>11. ASSUME NEW c \in allowed
       PROVE  /\ Uc!Total(Deltas(W(c))) \in Nat /\ Uc!Total(Charges(W(c))) \in Nat
              /\ Uc!Total(Deltas(W(c))) <= Uc!Total(Charges(W(c)))
              /\ OneBoot(W(c)) => Uc!Total(Deltas(W(c))) = Uc!Total(Charges(W(c)))
  BY <1>1, DeltasCharged
<1>12. drawn \in [allowed -> Nat] /\ billed \in [allowed -> Nat]
       /\ \A c \in allowed : drawn[c] <= billed[c]
  BY <1>11
<1>13. Uc!Total(drawn) <= Uc!Total(billed)
  <2> HIDE DEF drawn, billed
  <2> QED BY <1>0, <1>12, TotalGrows
<1>14. ASSUME ~Uc!Restarted(r, allowed) PROVE drawn = billed
  <2>1. \A c \in allowed : OneBoot(W(c))
    BY <1>14 DEF Uc!Restarted, OneBoot, W
  <2> QED BY <1>11, <2>1
<1> HIDE DEF drawn, billed
<1> QED BY <1>9, <1>10, <1>13, <1>14 DEF Uc!AddsUp

LEMMA ChartBills == ChartInv => Uc!ChartIsBill
<1> SUFFICES ASSUME ChartInv, NEW r \in Lookbacks
             PROVE  /\ \A allowed \in SUBSET Charted :
                         Uc!AddsUp(Uc!buckets(r, allowed), r, allowed)
                    /\ \A c \in Charted : Uc!AddsUp(Uc!buckets(r, {c}), r, {c})
  BY DEF Uc!ChartIsBill, Uc!FleetUsage, Uc!ClientUsage, Uc!DashboardUsage
<1>1. \A c \in Charted : {c} \in SUBSET Charted
  OBVIOUS
<1> QED BY <1>1, ChartAddsUp

\* The bars of a chart are what was billed over its range: never more, and no less
\* while the peer's counter did not start again inside it.  The chart reads the
\* counters and takes their differences over (api/admin/usage.get.ts and
\* clientUsage.get.ts); the poller writes down what it charges
\* (usagePoller.ts).  It holds for any clients, ranges and widths of bars, however
\* polls, restarts and the roll-up come, and for any set of clients a reader may see.
THEOREM ChartIsTheBill == AllSpec => [](part = "chart" => Uc!ChartIsBill)
<1> DEFINE Inv == part = "chart" => ChartInv
<1>1. AllInit => Inv
  BY ChartInit DEF AllInit
<1>2. Inv /\ [AllNext]_vars => Inv'
  <2> SUFFICES ASSUME Inv, [AllNext]_vars, part' = "chart" PROVE ChartInv'
    OBVIOUS
  <2>1. CASE part = "chart" /\ Uc!Next
    BY <2>1, ChartNext
  <2>2. CASE UNCHANGED vars
    <3>1. ChartInv /\ UNCHANGED <<clock, counter, boot, samples>>
      BY <2>2 DEF vars, xvars
    <3> QED BY <3>1 DEF ChartInv, Uc!TypeOK, Books, Counted
  <2>3. part = "chart" => Uc!Next \/ UNCHANGED vars
    BY DEF AllNext
  <2>4. part = "chart"
    BY DEF AllNext, Rest, vars
  <2> QED BY <2>1, <2>2, <2>3, <2>4
<1>3. Inv => (part = "chart" => Uc!ChartIsBill)
  BY ChartBills
<1> QED BY <1>1, <1>2, <1>3, PTL DEF AllSpec

\* What a chart shows: the bill, and the range of the button that is lit.
THEOREM ChartsHold == AllSpec => []ChartsTrue
BY ChartIsTheBill, ChartIsOfTheButton, PTL DEF ChartsTrue

-----------------------------------------------------------------------------
(* The types of every machine: what the invariants above say, and the      *)
(* variables they leave out.                                               *)

AmneziaTypes ==
  /\ conf \in Aw!Settings \union {Aw!NoDevice} /\ dev \in Aw!Settings \union {Aw!NoDevice}
  /\ dockerMode \in BOOLEAN /\ tool \in {"host", "container"}
  /\ handed \subseteq Headers \union {0} /\ replaced \subseteq Headers \union {0}
  /\ edited \in [h : Headers \union {0, -1}, port : WgPorts]
  /\ x13 \in Nat /\ x14 \in Nat

LEMMA AmneziaTypeOK == AmneziaInv /\ AmneziaTypes => Aw!TypeOK
BY HeadersAssumption DEF AmneziaInv, AmneziaShape, AmneziaTypes, Aw!TypeOK

\* What a start finds, and what an edit enters.
LEMMA EditedType ==
    ASSUME NEW r \in Aw!Settings
    PROVE  {r, Aw!Expected(r)} \subseteq [h : Headers \union {0, -1}, port : WgPorts]
BY HeadersAssumption DEF Aw!Settings, Aw!Expected

LEMMA AmneziaTypesInit == Aw!Init => AmneziaTypes
<1> SUFFICES ASSUME Aw!Init PROVE AmneziaTypes
  OBVIOUS
<1>1. table \in Aw!Settings /\ edited = Aw!Expected(table)
  BY DEF Aw!Init, Aw!Settings
<1>2. edited \in [h : Headers \union {0, -1}, port : WgPorts]
  BY <1>1, EditedType
<1> QED BY <1>2 DEF Aw!Init, AmneziaTypes

LEMMA AmneziaTypesNext == ASSUME AmneziaInv, AmneziaTypes, Aw!Next PROVE AmneziaTypes'
<1>0. /\ table \in Aw!Settings /\ table.h \in Headers \union {0} /\ table.port \in WgPorts
      /\ \A c \in Actors : chain[c].at # "idle" => chain[c].iface \in Aw!Settings
  BY HeadersAssumption DEF AmneziaInv, AmneziaShape, Roads, Aw!Settings
<1>1. ASSUME NEW c \in Actors, Aw!BringUp(c) PROVE AmneziaTypes'
  <2>1. edited' \in [h : Headers \union {0, -1}, port : WgPorts]
    BY <1>0, <1>1, EditedType DEF Aw!BringUp
  <2> QED BY <1>1, <2>1 DEF Aw!BringUp, Aw!Begin, Aw!tools, AmneziaTypes
<1>5. ASSUME NEW c \in Actors, Aw!SyncInterface(c) PROVE AmneziaTypes'
  BY <1>5 DEF Aw!SyncInterface, Aw!Begin, Aw!tools, AmneziaTypes
<1>2. ASSUME NEW c \in Actors, NEW e \in Aw!Settings, Aw!Edit(c, e) PROVE AmneziaTypes'
  <2>1. edited' \in [h : Headers \union {0, -1}, port : WgPorts]
    BY <1>2, EditedType DEF Aw!Edit
  <2>2. replaced' \subseteq Headers \union {0}
    BY <1>0, <1>2 DEF Aw!Edit, AmneziaTypes
  <2> QED BY <1>2, <2>1, <2>2 DEF Aw!Edit, Aw!Begin, Aw!tools, AmneziaTypes
<1>3. ASSUME NEW c \in Actors, Aw!Step(c) PROVE AmneziaTypes'
  <2>1. CASE Aw!SaveHeaders(c)
    BY <2>1 DEF Aw!SaveHeaders, Aw!tools, Aw!history, AmneziaTypes
  <2>5. CASE Aw!NoTool(c)
    BY <2>5 DEF Aw!NoTool, Aw!tools, Aw!history, AmneziaTypes
  <2>6. CASE Aw!Throws(c)
    BY <2>6 DEF Aw!Throws, Aw!tools, AmneziaTypes
  <2>2. CASE Aw!WriteConfig(c)
    <3>1. conf' \in Aw!Settings
      BY <1>0, <2>2 DEF Aw!WriteConfig
    <3> QED BY <2>2, <3>1 DEF Aw!WriteConfig, Aw!tools, Aw!history, AmneziaTypes
  <2>3. CASE Aw!Down(c) \/ Aw!Load(c) \/ Aw!Up(c)
    BY <2>3 DEF Aw!Down, Aw!Load, Aw!Up, Aw!tools, Aw!history, AmneziaTypes
  <2>7. CASE Aw!Sync(c)
    <3>1. conf \in Aw!Settings /\ dev \in Aw!Settings
      BY <2>7 DEF Aw!Sync, AmneziaInv, Roads, AmneziaTypes
    <3>2. dev' \in Aw!Settings
      BY <2>7, <3>1 DEF Aw!Sync, Aw!Settings
    <3> QED BY <2>7, <3>2 DEF Aw!Sync, Aw!tools, Aw!history, AmneziaTypes
  <2>4. CASE Aw!Which(c)
    <3>1. dockerMode' \in BOOLEAN
      BY <2>4 DEF Aw!Which, Aw!Found
    <3>2. dev' \in Aw!Settings \union {Aw!NoDevice}
      BY <2>4 DEF Aw!Which, AmneziaTypes
    <3> QED BY <2>4, <3>1, <3>2, SMTT(30) DEF Aw!Which, Aw!history, AmneziaTypes
  <2> QED BY <1>3, <2>1, <2>2, <2>3, <2>4, <2>5, <2>6, <2>7 DEF Aw!Step
<1>4. ASSUME Aw!HandOut PROVE AmneziaTypes'
  BY <1>0, <1>4 DEF Aw!HandOut, Aw!tools, AmneziaTypes
<1> QED BY <1>1, <1>2, <1>3, <1>4, <1>5 DEF Aw!Next

GroupsTypes == repeated \subseteq Palette /\ odd \subseteq Actors /\ x11 \in Nat

LEMMA GroupsTypeOK == GroupsInv /\ GroupsTypes => Tg!TypeOK
BY GroupsFacts DEF GroupsInv, GroupsShape, GroupsTypes, Tg!TypeOK

LEMMA GroupsTypesNext == ASSUME GroupsInv, GroupsTypes, Tg!Next PROVE GroupsTypes'
<1>1. ASSUME NEW a \in Actors, Tg!CreateGroup(a) PROVE GroupsTypes'
  <2>1. Tg!getNextColor \in Palette
    <3>1. Palette \in SUBSET Nat /\ Palette \ Tg!Used \in SUBSET Nat /\ Palette # {}
      BY GroupsFacts
    <3> QED BY <3>1, FirstOf DEF Tg!getNextColor
  <2> QED BY <1>1, <2>1 DEF Tg!CreateGroup, Tg!Arrives, GroupsTypes
<1>2. ASSUME NEW a \in Actors, Tg!InsertGroup(a) PROVE GroupsTypes'
  <2>1. ask[a].c \in Palette
    BY <1>2 DEF Tg!InsertGroup, GroupsInv, Coloured
  <2> QED BY <1>2, <2>1 DEF Tg!InsertGroup, GroupsTypes
<1>3. ASSUME NEW a \in Actors, Tg!Remove(a) PROVE GroupsTypes'
  BY <1>3 DEF Tg!Remove, GroupsTypes, GroupsInv, GroupsShape
<1>4. ASSUME NEW a \in Actors,
             Tg!InsertFails(a) \/ Tg!Reassign(a) \/ Tg!SetDefault(a) \/ Tg!Join(a) \/ Tg!Refused(a)
      PROVE  GroupsTypes'
  BY <1>4 DEF Tg!InsertFails, Tg!Reassign, Tg!SetDefault, Tg!Join, Tg!Refused, GroupsTypes
<1>5. ASSUME NEW a \in Actors, NEW g, Tg!BeginDelete(a, g) \/ Tg!ChooseDefault(a, g)
      PROVE  GroupsTypes'
  BY <1>5 DEF Tg!BeginDelete, Tg!ChooseDefault, Tg!Arrives, GroupsTypes
<1>6. ASSUME NEW a \in Actors, NEW m, NEW g, Tg!ChooseGroup(a, m, g) PROVE GroupsTypes'
  BY <1>6 DEF Tg!ChooseGroup, Tg!Arrives, GroupsTypes
<1>7. ASSUME NEW m \in Actors, NEW g, Tg!ChangePlan(m, g) PROVE GroupsTypes'
  BY <1>7 DEF Tg!ChangePlan, GroupsTypes
<1> QED BY <1>1, <1>2, <1>3, <1>4, <1>5, <1>6, <1>7 DEF Tg!Next, Tg!Admin

LEMMA AtMostOne ==
    ASSUME NEW D, NEW S, S = {} \/ \E x \in D : S = {x} PROVE Cardinality(S) <= 1
<1>1. CASE S = {}
  <2>1. Cardinality({}) = 0
    BY FS_EmptySet
  <2> QED BY <1>1, <2>1
<1>2. ASSUME NEW x, S = {x} PROVE Cardinality(S) <= 1
  <2>1. Cardinality({x}) = 1
    BY FS_Singleton
  <2> QED BY <1>2, <2>1
<1> QED BY <1>1, <1>2

ResolverTypes == exited \subseteq Procs /\ x11 \in Nat /\ x12 \in Nat

LEMMA ResolverTypeOK == ResolverInv /\ ResolverTypes => Rs!TypeOK
<1> SUFFICES ASSUME ResolverInv, ResolverTypes PROVE Rs!TypeOK
  OBVIOUS
<1>1. Rs!Cardinality(proc) <= 1
  <2>1. proc = {} \/ \E p \in Procs : proc = {p}
    BY DEF ResolverInv, ResolverShape
  <2>2. Cardinality(proc) <= 1
    BY <2>1, AtMostOne
  <2> QED BY <2>2 DEF Rs!Cardinality, Cardinality
<1> QED BY <1>1 DEF ResolverInv, ResolverShape, ResolverTypes, Rs!TypeOK

LEMMA ResolverTypesNext == ASSUME ResolverTypes, Rs!Next PROVE ResolverTypes'
<1>1. ASSUME NEW c \in Actors, Rs!Go(c) PROVE ResolverTypes'
  BY <1>1 DEF Rs!Go, Rs!BringUp, Rs!WriteConf, Rs!Spawn, Rs!Hup, ResolverTypes
<1>2. ASSUME NEW c \in Actors, NEW cfg, Rs!Restart(c) \/ Rs!SyncInterface(c, cfg)
      PROVE  ResolverTypes'
  BY <1>2 DEF Rs!Restart, Rs!SyncInterface, Rs!Call, ResolverTypes
<1>3. ASSUME NEW p \in Procs, Rs!Ends(p) \/ Rs!Exit(p) PROVE ResolverTypes'
  BY <1>3 DEF Rs!Ends, Rs!Exit, ResolverTypes
<1> QED BY <1>1, <1>2, <1>3 DEF Rs!Next

WizardTypes == page \in 0 .. 3 /\ log \in Seq(Wz!Entry)

LEMMA WizardTypeOK == WizardSound /\ WizardTypes => Wz!TypeOK
<1> SUFFICES ASSUME WizardSound, WizardTypes PROVE Wz!TypeOK
  OBVIOUS
<1>1. Wz!Cardinality(mine) <= 1
  <2>1. mine = {} \/ \E r \in Actors : mine = {r}
    BY DEF WizardSound, WizardShape
  <2>2. Cardinality(mine) <= 1
    BY <2>1, AtMostOne
  <2> QED BY <2>2 DEF Wz!Cardinality, Cardinality
<1>2. mine \subseteq Actors
  BY DEF WizardSound, WizardShape
<1> QED BY <1>1, <1>2 DEF WizardSound, WizardShape, WizardTypes, Wz!TypeOK, Wz!Pages, Wz!Done, Wz!Activate

LEMMA WizardTypesNext == ASSUME WizardSound, WizardTypes, Wz!Next PROVE WizardTypes'
<1>1. ASSUME NEW p, Wz!Turn(p) PROVE WizardTypes'
  BY <1>1 DEF Wz!Turn, Wz!Reaches, Wz!Pages, WizardTypes
<1>2. ASSUME NEW r \in Actors, Wz!Start(r) \/ Wz!Refused(r) \/ Wz!EndOfStream(r)
      PROVE  WizardTypes'
  <2>1. page' = page /\ (log' = log \/ log' = <<>>)
    BY <1>2 DEF Wz!Start, Wz!Refused, Wz!EndOfStream
  <2>2. <<>> \in Seq(Wz!Entry)
    OBVIOUS
  <2> QED BY <2>1, <2>2 DEF WizardTypes
<1>3. ASSUME NEW r \in Actors, Wz!Read(r) PROVE WizardTypes'
  <2>1. wire[r] \in Seq(Wz!Entry) /\ wire[r] # <<>>
    BY <1>3 DEF Wz!Read, WizardSound, WizardShape
  <2>2. Head(wire[r]) \in Wz!Entry
    BY <2>1
  <2> QED BY <1>3, <2>2 DEF Wz!Read, WizardTypes
<1>4. ASSUME NEW r \in Actors, Wz!Break(r) PROVE WizardTypes'
  <2>1. [step |-> 0, status |-> "error"] \in Wz!Entry
    BY DEF Wz!Entry, Wz!Done
  <2> QED BY <1>4, <2>1 DEF Wz!Break, WizardTypes
<1>5. ASSUME NEW r \in Actors, NEW ok, Wz!Step(r, ok) PROVE WizardTypes'
  BY <1>5 DEF Wz!Step, Wz!dialog, WizardTypes
<1> QED BY <1>1, <1>2, <1>3, <1>4, <1>5 DEF Wz!Next

LEMMA DialogTypeOK == DialogInv => Rd!TypeOK
BY DEF DialogInv, DialogShape, Rd!TypeOK

LEMMA RouterPageTypeOK == RouterPageInv => Rp!TypeOK
BY PageFacts DEF RouterPageInv, Rp!TypeOK

ShapingTypes ==
  /\ AddressesInv /\ Sh!TypeOK
  /\ \A q \in Actors : req[q].at # "idle" => req[q].c \in Peers

LEMMA ShapingTypesInit == ASSUME Sh!Init, cidr = FirstCidr PROVE ShapingTypes
<1>1. cidr \in Cidrs /\ peers = {} /\ addr \in [Peers -> Nat]
  BY DEF Sh!Init
<1>2. AddressesInv
  BY <1>1, FS_EmptySet DEF AddressesInv, Sh!OwnAddresses, Sh!Unique
<1>3. Sh!Idle \in Sh!Request /\ Sh!Idle.at = "idle"
  BY IdleRequest
<1>4. req \in [Actors -> Sh!Request] /\ \A q \in Actors : req[q].at = "idle"
  BY <1>3 DEF Sh!Init
<1>5. again \in Sh!Again
  BY ShapingFacts DEF Sh!Init, Sh!Nobody, Sh!Again
<1>6. limit \in [Peers -> [Sh!Dirs -> Nat]] /\ class \in [Sh!Dirs -> [1 .. Slots -> Nat]]
  BY ShapingFacts DEF Sh!Init
<1>7. Sh!TypeOK
  BY <1>1, <1>4, <1>5, <1>6 DEF Sh!Init, Sh!TypeOK
<1> QED BY <1>2, <1>4, <1>7 DEF ShapingTypes

\* What a step does to the requests, the kernel and the loop keeps their types.
Typed ==
  /\ req' \in [Actors -> Sh!Request] /\ again' \in Sh!Again
  /\ \A q \in Actors : req'[q].at # "idle" => req'[q].c \in Peers
KernelTyped ==
  /\ class' \in [Sh!Dirs -> [1 .. Slots -> Nat]] /\ filters' \subseteq Sh!Filter

LEMMA ShapingTypesHold ==
    ASSUME AddressesInv', Typed, KernelTyped, enabled' \subseteq peers',
           limit' \in [Peers -> [Sh!Dirs -> Nat]], missed' \subseteq Peers,
           x11' \in Nat, x12' \in Nat
    PROVE  ShapingTypes'
BY DEF ShapingTypes, AddressesInv, Typed, KernelTyped, Sh!TypeOK

LEMMA OthersTyped ==
    ASSUME ShapingTypes, NEW C, NEW D, D = Sh!Disturbed(C)
    PROVE  /\ D \in [Actors -> Sh!Request]
           /\ \A q \in Actors : D[q].at = req[q].at /\ D[q].c = req[q].c
<1>1. ASSUME NEW q \in Actors
      PROVE  D[q] \in Sh!Request /\ D[q].at = req[q].at /\ D[q].c = req[q].c
  <2>1. PICK r \in Sh!Request : r = req[q]
    BY DEF ShapingTypes, Sh!TypeOK
  <2>2. PICK b \in BOOLEAN : b = (r.clean /\ r.c \notin C)
    OBVIOUS
  <2>3. D[q] = [r EXCEPT !.clean = b]
    BY <2>1, <2>2 DEF Sh!Disturbed
  <2> QED BY <2>1, <2>3 DEF Sh!Request
<1>2. D = [q \in Actors |-> D[q]]
  BY DEF Sh!Disturbed
<1> QED BY <1>1, <1>2

LEMMA ServiceTyped ==
    ASSUME ShapingTypes, NEW q \in Actors, NEW r \in Sh!Request, r.c \in Peers \/ r.at = "idle",
           NEW D, D \in [Actors -> Sh!Request],
           \A p \in Actors : D[p].at = req[p].at /\ D[p].c = req[p].c,
           req' = [D EXCEPT ![q] = r], again' \in Sh!Again
    PROVE  Typed
<1>1. req' \in [Actors -> Sh!Request] /\ req'[q] = r /\ \A p \in Actors \ {q} : req'[p] = D[p]
  OBVIOUS
<1>2. ASSUME NEW p \in Actors, req'[p].at # "idle" PROVE req'[p].c \in Peers
  <2>1. CASE p = q
    BY <1>1, <1>2, <2>1
  <2>2. CASE p # q
    BY <1>1, <1>2, <2>2 DEF ShapingTypes
  <2> QED BY <2>1, <2>2
<1> QED BY <1>1, <1>2 DEF Typed

LEMMA GoTyped ==
    ASSUME ShapingTypes, NEW q \in Actors, NEW r \in Sh!Request, r.c \in Peers \/ r.at = "idle",
           Sh!Go(q, r), again' = again
    PROVE  Typed
<1>1. req \in [Actors -> Sh!Request] /\ again' \in Sh!Again /\ req' = [req EXCEPT ![q] = r]
  BY DEF ShapingTypes, Sh!TypeOK, Sh!Go
<1> QED BY <1>1, ServiceTyped

\* A class that is added, changed or deleted, and filters.
LEMMA ClassTyped ==
    ASSUME ShapingTypes, NEW d \in Sh!Dirs, NEW k \in 1 .. Slots, NEW rate \in Nat
    PROVE  [class EXCEPT ![d][k] = rate] \in [Sh!Dirs -> [1 .. Slots -> Nat]]
BY DEF ShapingTypes, Sh!TypeOK

LEMMA NewFiltersTyped ==
    ASSUME ShapingTypes, NEW d \in Sh!Dirs, NEW k \in 1 .. Slots, NEW rate \in Nat, NEW a \in Nat
    PROVE  Sh!WithFilters(d, a, k, rate) \subseteq Sh!Filter
<1>1. filters \subseteq Sh!Filter /\ Sh!device(d) \in {"wg0", "ifb"}
  BY DEF ShapingTypes, Sh!TypeOK, Sh!device
<1>2. k \in 0 .. Slots /\ 0 \in 0 .. Slots
  BY ShapingFacts
<1>3. ASSUME NEW f \in Sh!WithFilters(d, a, k, rate) PROVE f \in Sh!Filter
  BY <1>1, <1>2 DEF Sh!WithFilters, Sh!Filter
<1> QED BY <1>3

LEMMA ShapeTyped ==
    ASSUME ShapingTypes, NEW d \in Sh!Dirs, NEW c \in Peers, NEW a \in Nat, NEW rate \in Nat,
           Sh!Shape(d, c, a, rate) \/ Sh!Unshape(d, c, a)
    PROVE  KernelTyped
<1>1. Sh!classIdFor(c) \in 1 .. Slots /\ 0 \in Nat
  BY ShapingFacts
<1>2. class \in [Sh!Dirs -> [1 .. Slots -> Nat]]
  BY DEF ShapingTypes, Sh!TypeOK
<1>3. /\ [class EXCEPT ![d][Sh!classIdFor(c)] = rate] \in [Sh!Dirs -> [1 .. Slots -> Nat]]
      /\ [class EXCEPT ![d][Sh!classIdFor(c)] = 0] \in [Sh!Dirs -> [1 .. Slots -> Nat]]
  BY <1>1, ClassTyped
<1>4. class' \in [Sh!Dirs -> [1 .. Slots -> Nat]]
  BY <1>2, <1>3 DEF Sh!Shape, Sh!Unshape, Sh!WithClass
<1>5. filters' = Sh!WithFilters(d, a, Sh!classIdFor(c), rate) \/ filters' = Sh!Kept(d, a)
  BY DEF Sh!Shape, Sh!Unshape
<1>6. filters' \subseteq Sh!Filter
  <2>1. Sh!Kept(d, a) \subseteq Sh!Filter
    BY DEF Sh!Kept, ShapingTypes, Sh!TypeOK
  <2>2. Sh!WithFilters(d, a, Sh!classIdFor(c), rate) \subseteq Sh!Filter
    BY <1>1, NewFiltersTyped
  <2> QED BY <1>5, <2>1, <2>2
<1> QED BY <1>4, <1>6 DEF KernelTyped

LEMMA BeginTyped ==
    ASSUME ShapingTypes, NEW q \in Actors, NEW r \in Sh!Request, r.c \in Peers, NEW lone \in BOOLEAN,
           Sh!Begin(q, r, lone)
    PROVE  Typed /\ x11' \in Nat
<1>1. PICK D : D = Sh!Disturbed({r.c})
  OBVIOUS
<1>2. D \in [Actors -> Sh!Request] /\ \A p \in Actors : D[p].at = req[p].at /\ D[p].c = req[p].c
  BY <1>1, OthersTyped
<1>3. PICK b \in BOOLEAN : b = (lone /\ ~Sh!Busy(r.c))
  OBVIOUS
<1>4. PICK s : s = [r EXCEPT !.clean = b]
  OBVIOUS
<1>5. s \in Sh!Request /\ s.c \in Peers
  BY <1>4 DEF Sh!Request
<1>6. req' = [D EXCEPT ![q] = s] /\ again' = [again EXCEPT !.clean = @ \ {r.c}] /\ x11' = x11 + 1
  BY <1>1, <1>3, <1>4 DEF Sh!Begin, Sh!Starts
<1>7. again' \in Sh!Again
  BY <1>6 DEF ShapingTypes, Sh!TypeOK, Sh!Again
<1>8. x11' \in Nat
  BY <1>6 DEF ShapingTypes, Sh!TypeOK
<1> QED BY <1>2, <1>5, <1>6, <1>7, <1>8, ServiceTyped

\* What a request under way has in its hands.
LEMMA OwnTyped ==
    ASSUME ShapingTypes, NEW q \in Actors, req[q].at # "idle"
    PROVE  /\ req[q] \in Sh!Request /\ req[q].c \in Peers /\ req[q].addr \in Nat
           /\ req[q].lim \in [Sh!Dirs -> Nat] /\ addr[req[q].c] \in Nat
           /\ limit[req[q].c] \in [Sh!Dirs -> Nat]
<1>1. req[q] \in Sh!Request /\ req[q].c \in Peers
  BY DEF ShapingTypes, Sh!TypeOK
<1>2. addr \in [Peers -> Nat] /\ limit \in [Peers -> [Sh!Dirs -> Nat]]
  BY DEF ShapingTypes, Sh!TypeOK
<1> QED BY <1>1, <1>2 DEF Sh!Request

LEMMA RestTyped ==
    ASSUME ShapingTypes, UNCHANGED <<req, again>> PROVE Typed
BY DEF ShapingTypes, Sh!TypeOK, Typed

LEMMA KernelRests ==
    ASSUME ShapingTypes, UNCHANGED <<class, filters>> PROVE KernelTyped
BY DEF ShapingTypes, Sh!TypeOK, KernelTyped

\* A request looks the peer up, or reads the row again.
LEMMA LooksTyped ==
    ASSUME ShapingTypes, AddressesInv', NEW q \in Actors, Sh!Find(q) \/ Sh!Reread(q)
    PROVE  ShapingTypes'
<1> DEFINE r == req[q]
<1>1. r.at # "idle"
  BY DEF Sh!Find, Sh!Reread
<1>2. /\ r \in Sh!Request /\ r.c \in Peers /\ addr[r.c] \in Nat
      /\ limit[r.c] \in [Sh!Dirs -> Nat]
  BY <1>1, OwnTyped
<1> HIDE DEF r
<1>3. PICK new \in Sh!Request : Sh!Go(q, new) /\ (new.c \in Peers \/ new.at = "idle")
  <2>1. CASE Sh!Find(q)
    <3>1. PICK v \in {"applyDown", "clearDown"} :
            Sh!Go(q, IF r.c \in peers THEN [r EXCEPT !.at = v, !.addr = addr[r.c]]
                     ELSE IF r.kind = "put" THEN Sh!Idle ELSE [r EXCEPT !.at = "drop"])
      <4>1. CASE r.kind = "put"
        BY <2>1, <4>1 DEF Sh!Find, r
      <4>2. CASE r.kind # "put"
        BY <2>1, <4>2 DEF Sh!Find, r
      <4> QED BY <4>1, <4>2
    <3>2. /\ [r EXCEPT !.at = v, !.addr = addr[r.c]] \in Sh!Request
          /\ [r EXCEPT !.at = v, !.addr = addr[r.c]].c \in Peers
          /\ [r EXCEPT !.at = "drop"] \in Sh!Request /\ [r EXCEPT !.at = "drop"].c \in Peers
      BY <1>2 DEF Sh!Request, Sh!Ats
    <3> QED BY <3>1, <3>2, IdleRequest
  <2>2. CASE Sh!Reread(q)
    <3>1. Sh!Go(q, IF limit[r.c] = Sh!Unlimited THEN Sh!Idle
                   ELSE [r EXCEPT !.at = "find", !.lim = limit[r.c]])
      BY <2>2 DEF Sh!Reread, Sh!Reapplied, r
    <3>2. /\ [r EXCEPT !.at = "find", !.lim = limit[r.c]] \in Sh!Request
          /\ [r EXCEPT !.at = "find", !.lim = limit[r.c]].c \in Peers
      BY <1>2 DEF Sh!Request, Sh!Ats
    <3> QED BY <3>1, <3>2, IdleRequest
  <2> QED BY <2>1, <2>2
<1>4. /\ UNCHANGED <<peers, enabled, limit, class, filters, again, x11, x12>>
      /\ missed' = missed \/ missed' = missed \union {r.c}
  BY DEF Sh!Find, Sh!Reread, Sh!table, Sh!kernel, r
<1>5. Typed /\ KernelTyped
  BY <1>3, <1>4, GoTyped, KernelRests
<1>6. /\ enabled' \subseteq peers' /\ limit' \in [Peers -> [Sh!Dirs -> Nat]]
      /\ missed' \subseteq Peers /\ x11' \in Nat /\ x12' \in Nat
  BY <1>2, <1>4 DEF ShapingTypes, Sh!TypeOK
<1> QED BY <1>5, <1>6, ShapingTypesHold

\* The commands of tc.
LEMMA AppliesTyped ==
    ASSUME ShapingTypes, AddressesInv', NEW q \in Actors,
           Sh!ApplyDown(q) \/ Sh!ApplyUp(q) \/ Sh!ApplyFails(q)
    PROVE  ShapingTypes'
<1> DEFINE r == req[q]
<1>1. r.at # "idle"
  BY DEF Sh!ApplyDown, Sh!ApplyUp, Sh!ApplyFails
<1>2. /\ r \in Sh!Request /\ r.c \in Peers /\ r.addr \in Nat
      /\ r.lim["down"] \in Nat /\ r.lim["up"] \in Nat
  BY <1>1, OwnTyped DEF Sh!Dirs
<1> HIDE DEF r
<1>3. PICK new \in Sh!Request : Sh!Go(q, new) /\ (new.c \in Peers \/ new.at = "idle")
  <2>1. [r EXCEPT !.at = "applyUp"] \in Sh!Request /\ [r EXCEPT !.at = "applyUp"].c \in Peers
    BY <1>2 DEF Sh!Request, Sh!Ats
  <2>2. Sh!Go(q, [r EXCEPT !.at = "applyUp"]) \/ Sh!Go(q, Sh!Idle)
    BY DEF Sh!ApplyDown, Sh!ApplyUp, Sh!ApplyFails, r
  <2> QED BY <2>1, <2>2, IdleRequest
<1>4. UNCHANGED <<peers, enabled, limit, again, x11>>
  BY DEF Sh!ApplyDown, Sh!ApplyUp, Sh!ApplyFails, Sh!table
<1>5. KernelTyped
  <2>1. CASE Sh!ApplyDown(q)
    <3>1. Sh!Shape("down", r.c, r.addr, r.lim["down"]) /\ "down" \in Sh!Dirs
      BY <2>1 DEF Sh!ApplyDown, Sh!Dirs, r
    <3> QED BY <1>2, <3>1, ShapeTyped
  <2>2. CASE Sh!ApplyUp(q)
    <3>1. Sh!Shape("up", r.c, r.addr, r.lim["up"]) /\ "up" \in Sh!Dirs
      BY <2>2 DEF Sh!ApplyUp, Sh!Dirs, r
    <3> QED BY <1>2, <3>1, ShapeTyped
  <2>3. CASE Sh!ApplyFails(q)
    BY <2>3, KernelRests DEF Sh!ApplyFails, Sh!kernel
  <2> QED BY <2>1, <2>2, <2>3
<1>6. x12' \in Nat
  <2>1. x12' = x12 \/ x12' = x12 + 1
    BY DEF Sh!ApplyDown, Sh!ApplyUp, Sh!ApplyFails, Sh!Happens
  <2> QED BY <2>1 DEF ShapingTypes, Sh!TypeOK
<1>7. missed' \subseteq Peers
  <2>1. missed \subseteq Peers
    BY DEF ShapingTypes, Sh!TypeOK
  <2>2. \/ missed' = missed \/ missed' = missed \union {r.c} \/ missed' = missed \ {r.c}
    BY DEF Sh!ApplyDown, Sh!ApplyUp, Sh!ApplyFails, Sh!Known, r
  <2> QED BY <1>2, <2>1, <2>2
<1>8. Typed
  BY <1>3, <1>4, GoTyped
<1>9. /\ enabled' \subseteq peers' /\ limit' \in [Peers -> [Sh!Dirs -> Nat]] /\ x11' \in Nat
  BY <1>4 DEF ShapingTypes, Sh!TypeOK
<1> QED BY <1>5, <1>6, <1>7, <1>8, <1>9, ShapingTypesHold

LEMMA ClearsTyped ==
    ASSUME ShapingTypes, AddressesInv', NEW q \in Actors, Sh!ClearDown(q) \/ Sh!ClearUp(q)
    PROVE  ShapingTypes'
<1> DEFINE r == req[q]
<1>1. r.at # "idle"
  BY DEF Sh!ClearDown, Sh!ClearUp
<1>2. r \in Sh!Request /\ r.c \in Peers /\ r.addr \in Nat
  BY <1>1, OwnTyped
<1> HIDE DEF r
<1>3. PICK at1 \in {"clearUp", "drop", "upsert"} : Sh!Cleared(q, [r EXCEPT !.at = at1])
  <2>1. CASE Sh!ClearDown(q)
    BY <2>1 DEF Sh!ClearDown, r
  <2>2. CASE Sh!ClearUp(q)
    <3>1. CASE r.kind = "clear"
      BY <2>2, <3>1 DEF Sh!ClearUp, r
    <3>2. CASE r.kind # "clear"
      BY <2>2, <3>2 DEF Sh!ClearUp, r
    <3> QED BY <3>1, <3>2
  <2> QED BY <2>1, <2>2
<1>4. PICK new : new = [r EXCEPT !.at = at1]
  OBVIOUS
<1>5. new \in Sh!Request /\ new.c \in Peers
  BY <1>2, <1>4 DEF Sh!Request, Sh!Ats
<1>6. PICK D : D = Sh!Disturbed(Sh!Robbed(new))
  OBVIOUS
<1>7. /\ req' = [D EXCEPT ![q] = new] /\ missed' = missed \union Sh!Robbed(new)
      /\ UNCHANGED <<peers, enabled, limit, again, x11, x12>>
  BY <1>3, <1>4, <1>6 DEF Sh!Cleared, Sh!ClearDown, Sh!ClearUp, Sh!table
<1>8. D \in [Actors -> Sh!Request] /\ \A p \in Actors : D[p].at = req[p].at /\ D[p].c = req[p].c
  BY <1>6, OthersTyped
<1>9. again' \in Sh!Again
  BY <1>7 DEF ShapingTypes, Sh!TypeOK
<1>10. Typed
  BY <1>5, <1>7, <1>8, <1>9, ServiceTyped
<1>11. KernelTyped
  <2>1. PICK d \in Sh!Dirs : Sh!Unshape(d, r.c, r.addr)
    BY DEF Sh!ClearDown, Sh!ClearUp, Sh!Dirs, r
  <2>2. 0 \in Nat
    OBVIOUS
  <2> QED BY <1>2, <2>1, <2>2, ShapeTyped
<1>12. /\ enabled' \subseteq peers' /\ limit' \in [Peers -> [Sh!Dirs -> Nat]]
       /\ missed' \subseteq Peers /\ x11' \in Nat /\ x12' \in Nat
  BY <1>7 DEF ShapingTypes, Sh!TypeOK, Sh!Robbed, Sh!Limited
<1> QED BY <1>10, <1>11, <1>12, ShapingTypesHold

\* The row of the limit.
LEMMA RowTyped ==
    ASSUME ShapingTypes, AddressesInv', NEW q \in Actors, Sh!Drop(q) \/ Sh!Upsert(q)
    PROVE  ShapingTypes'
<1> DEFINE r == req[q]
<1>1. r.at # "idle"
  BY DEF Sh!Drop, Sh!Upsert
<1>2. r \in Sh!Request /\ r.c \in Peers /\ r.lim \in [Sh!Dirs -> Nat]
  BY <1>1, OwnTyped
<1> HIDE DEF r
<1>3. PICK new \in Sh!Request : Sh!Go(q, new) /\ (new.c \in Peers \/ new.at = "idle")
  <2>1. /\ [r EXCEPT !.at = "find", !.kind = "put"] \in Sh!Request
        /\ [r EXCEPT !.at = "find", !.kind = "put"].c \in Peers
    BY <1>2 DEF Sh!Request, Sh!Ats, Sh!Kinds
  <2>2. Sh!Go(q, [r EXCEPT !.at = "find", !.kind = "put"]) \/ Sh!Go(q, Sh!Idle)
    BY DEF Sh!Drop, Sh!Upsert, r
  <2> QED BY <2>1, <2>2, IdleRequest
<1>4. UNCHANGED <<peers, enabled, class, filters, again, x11, x12>>
  BY DEF Sh!Drop, Sh!Upsert, Sh!table, Sh!kernel
<1>5. limit' \in [Peers -> [Sh!Dirs -> Nat]]
  <2>1. limit \in [Peers -> [Sh!Dirs -> Nat]] /\ Sh!Unlimited \in [Sh!Dirs -> Nat]
    BY ShapingFacts DEF ShapingTypes, Sh!TypeOK
  <2>2. \/ limit' = limit \/ limit' = [limit EXCEPT ![r.c] = Sh!Unlimited]
        \/ limit' = [limit EXCEPT ![r.c] = r.lim]
    BY <2>1 DEF Sh!Drop, Sh!Upsert, r
  <2> QED BY <1>2, <2>1, <2>2
<1>6. missed' \subseteq Peers
  <2>1. missed \subseteq Peers
    BY DEF ShapingTypes, Sh!TypeOK
  <2>2. \/ missed' = missed \/ missed' = missed \union {r.c} \/ missed' = missed \ {r.c}
    BY DEF Sh!Drop, Sh!Upsert, Sh!Known, r
  <2> QED BY <1>2, <2>1, <2>2
<1>7. Typed /\ KernelTyped
  BY <1>3, <1>4, GoTyped, KernelRests
<1>8. enabled' \subseteq peers' /\ x11' \in Nat /\ x12' \in Nat
  BY <1>4 DEF ShapingTypes, Sh!TypeOK
<1> QED BY <1>5, <1>6, <1>7, <1>8, ShapingTypesHold

\* What comes from outside: a request, a client that comes, goes or is switched.
LEMMA ArrivesTyped ==
    ASSUME ShapingTypes, AddressesInv', NEW q \in Actors, NEW c \in Peers, Sh!Arrives(q, c)
    PROVE  ShapingTypes'
<1>1. PICK r \in Sh!Request, b \in BOOLEAN : r.c \in Peers /\ Sh!Begin(q, r, b)
  <2>1. ASSUME NEW l \in Rates, Sh!PutRequest(q, c, l)
        PROVE  \E r \in Sh!Request, b \in BOOLEAN : r.c \in Peers /\ Sh!Begin(q, r, b)
    <3>1. PICK r : r = [Sh!Idle EXCEPT !.at = "find", !.c = c, !.lim = l]
      OBVIOUS
    <3>2. r \in Sh!Request /\ r.c = c
      BY <3>1, ShapingFacts DEF Sh!Idle, Sh!Request, Sh!Ats, Sh!Kinds
    <3>3. PICK b \in BOOLEAN : b = (\A d \in Sh!Dirs : limit[c][d] > 0 => l[d] > 0)
      OBVIOUS
    <3>4. Sh!Begin(q, r, b)
      BY <2>1, <3>1, <3>3 DEF Sh!PutRequest
    <3> QED BY <3>2, <3>4
  <2>2. CASE Sh!ClearRequest(q, c)
    <3>1. PICK r : r = [Sh!Idle EXCEPT !.at = "find", !.kind = "clear", !.c = c]
      OBVIOUS
    <3>2. r \in Sh!Request /\ r.c = c
      BY <3>1, ShapingFacts DEF Sh!Idle, Sh!Request, Sh!Ats, Sh!Kinds
    <3>3. Sh!Begin(q, r, TRUE)
      BY <2>2, <3>1 DEF Sh!ClearRequest
    <3> QED BY <3>2, <3>3
  <2>3. ASSUME NEW a, Sh!UpdateRequest(q, c, a)
        PROVE  \E r \in Sh!Request, b \in BOOLEAN : r.c \in Peers /\ Sh!Begin(q, r, b)
    <3>1. PICK r : r = [Sh!Idle EXCEPT !.at = "read", !.kind = "move", !.c = c]
      OBVIOUS
    <3>2. r \in Sh!Request /\ r.c = c
      BY <3>1, ShapingFacts DEF Sh!Idle, Sh!Request, Sh!Ats, Sh!Kinds
    <3>3. Sh!Begin(q, r, TRUE)
      BY <2>3, <3>1 DEF Sh!UpdateRequest
    <3> QED BY <3>2, <3>3
  <2> QED BY <2>1, <2>2, <2>3 DEF Sh!Arrives
<1>2. Typed /\ x11' \in Nat
  BY <1>1, BeginTyped
<1>3. UNCHANGED <<peers, enabled, class, filters, missed, x12>>
  BY DEF Sh!Arrives, Sh!PutRequest, Sh!ClearRequest, Sh!UpdateRequest, Sh!table, Sh!kernel
<1>4. limit' \in [Peers -> [Sh!Dirs -> Nat]]
  <2>1. limit \in [Peers -> [Sh!Dirs -> Nat]] /\ Rates \subseteq [Sh!Dirs -> Nat]
    BY ShapingFacts DEF ShapingTypes, Sh!TypeOK
  <2>2. limit' = limit \/ \E l \in Rates : limit' = [limit EXCEPT ![c] = l]
    BY DEF Sh!Arrives, Sh!PutRequest, Sh!ClearRequest, Sh!UpdateRequest
  <2> QED BY <2>1, <2>2
<1>5. enabled' \subseteq peers' /\ missed' \subseteq Peers /\ x12' \in Nat
  BY <1>3 DEF ShapingTypes, Sh!TypeOK
<1> QED BY <1>2, <1>3, <1>4, <1>5, KernelRests, ShapingTypesHold

LEMMA TableTyped ==
    ASSUME ShapingTypes, AddressesInv', NEW c \in Peers, Sh!Table(c)
    PROVE  ShapingTypes'
<1>1. UNCHANGED <<class, filters, req, again, missed, x12>> /\ x11' = x11 + 1
  BY DEF Sh!Table, Sh!CreateRequest, Sh!DeleteRequest, Sh!Toggle, Sh!Starts, Sh!kernel
<1>2. enabled \subseteq peers /\ limit \in [Peers -> [Sh!Dirs -> Nat]]
      /\ Sh!Unlimited \in [Sh!Dirs -> Nat]
  BY ShapingFacts DEF ShapingTypes, Sh!TypeOK
<1>3. enabled' \subseteq peers'
  BY <1>2 DEF Sh!Table, Sh!CreateRequest, Sh!DeleteRequest, Sh!Toggle
<1>4. limit' = limit \/ limit' = [limit EXCEPT ![c] = Sh!Unlimited]
  BY DEF Sh!Table, Sh!CreateRequest, Sh!DeleteRequest, Sh!Toggle
<1>5. limit' \in [Peers -> [Sh!Dirs -> Nat]]
  BY <1>2, <1>4
<1>6. missed' \subseteq Peers /\ x11' \in Nat /\ x12' \in Nat
  BY <1>1 DEF ShapingTypes, Sh!TypeOK
<1> QED BY <1>1, <1>3, <1>5, <1>6, RestTyped, KernelRests, ShapingTypesHold

LEMMA RenumberTyped ==
    ASSUME ShapingTypes, AddressesInv', NEW r, NEW new, Sh!Renumber(r, new)
    PROVE  ShapingTypes'
<1>1. /\ req' = Sh!Disturbed(peers) /\ again' = [again EXCEPT !.clean = {}]
      /\ missed' = missed \union Sh!Limited \union {c \in peers : Sh!Leftover(c, new[c])}
      /\ UNCHANGED <<peers, enabled, limit, class, filters, x12>> /\ x11' = x11 + 1
  BY DEF Sh!Renumber, Sh!Starts, Sh!kernel
<1>2. /\ req' \in [Actors -> Sh!Request]
      /\ \A q \in Actors : req'[q].at = req[q].at /\ req'[q].c = req[q].c
  BY <1>1, OthersTyped
<1>3. again' \in Sh!Again
  BY <1>1 DEF ShapingTypes, Sh!TypeOK, Sh!Again
<1>4. Typed
  BY <1>2, <1>3 DEF Typed, ShapingTypes
<1>5. /\ enabled' \subseteq peers' /\ limit' \in [Peers -> [Sh!Dirs -> Nat]]
      /\ missed' \subseteq Peers /\ x11' \in Nat /\ x12' \in Nat
  BY <1>1 DEF ShapingTypes, Sh!TypeOK, Sh!Limited
<1> QED BY <1>1, <1>4, <1>5, KernelRests, ShapingTypesHold

\* The starts of the engine.
LEMMA StartsTyped ==
    ASSUME ShapingTypes, AddressesInv', Sh!Restart \/ Sh!Crash
    PROVE  ShapingTypes'
<1>0. /\ limit \in [Peers -> [Sh!Dirs -> Nat]] /\ addr \in [Peers -> Nat]
      /\ peers \subseteq Peers /\ missed \subseteq Peers /\ x11 \in Nat /\ x12 \in Nat
      /\ enabled \subseteq peers /\ class \in [Sh!Dirs -> [1 .. Slots -> Nat]]
      /\ filters \subseteq Sh!Filter
  BY DEF ShapingTypes, Sh!TypeOK
<1>1. /\ UNCHANGED <<peers, enabled, limit, x11>> /\ x12' = x12 + 1
      /\ missed' \subseteq missed \union Sh!Limited
  BY DEF Sh!Restart, Sh!Crash, Sh!Reload, Sh!Happens, Sh!table
<1>2. PICK C \in SUBSET Peers :
        again' = [todo |-> Sh!ReapplyTo, lim |-> limit, addr |-> addr, clean |-> C]
  <2>1. Sh!ReapplyTo \subseteq Peers
    BY <1>0 DEF Sh!ReapplyTo, Sh!Limited
  <2>2. {c \in Sh!ReapplyTo : ~Sh!Busy(c)} \in SUBSET Peers /\ Sh!ReapplyTo \in SUBSET Peers
    BY <2>1
  <2> QED BY <2>2 DEF Sh!Restart, Sh!Crash, Sh!Reload
<1>3. again' \in Sh!Again
  BY <1>0, <1>2 DEF Sh!Again, Sh!ReapplyTo, Sh!Limited
<1>4. KernelTyped
  <2>1. [k \in 1 .. Slots |-> 0] \in [1 .. Slots -> Nat]
    OBVIOUS
  <2>2. \/ class' = [class EXCEPT !["down"] = [k \in 1 .. Slots |-> 0]]
        \/ class' = [d \in Sh!Dirs |-> [k \in 1 .. Slots |-> 0]]
    BY DEF Sh!Restart, Sh!Crash
  <2>3. class' \in [Sh!Dirs -> [1 .. Slots -> Nat]]
    BY <1>0, <2>1, <2>2
  <2>4. filters' \subseteq Sh!Filter
    BY <1>0 DEF Sh!Restart, Sh!Crash
  <2> QED BY <2>3, <2>4 DEF KernelTyped
<1>5. Typed
  <2>1. CASE Sh!Restart
    <3>1. req' = Sh!Disturbed(Peers)
      BY <2>1 DEF Sh!Restart
    <3>2. /\ req' \in [Actors -> Sh!Request]
          /\ \A q \in Actors : req'[q].at = req[q].at /\ req'[q].c = req[q].c
      BY <3>1, OthersTyped
    <3> QED BY <1>3, <3>2 DEF Typed, ShapingTypes
  <2>2. CASE Sh!Crash
    <3>1. req' = [q \in Actors |-> Sh!Idle]
      BY <2>2 DEF Sh!Crash
    <3> QED BY <1>3, <3>1, IdleRequest DEF Typed
  <2> QED BY <2>1, <2>2
<1>6. /\ enabled' \subseteq peers' /\ limit' \in [Peers -> [Sh!Dirs -> Nat]]
      /\ missed' \subseteq Peers /\ x11' \in Nat /\ x12' \in Nat
  BY <1>0, <1>1 DEF Sh!Limited
<1> QED BY <1>4, <1>5, <1>6, ShapingTypesHold

LEMMA LoopTyped ==
    ASSUME ShapingTypes, AddressesInv', NEW c \in Peers, Sh!ReapplyOne(c) \/ Sh!ReapplyFails(c)
    PROVE  ShapingTypes'
<1>1. /\ again' = [again EXCEPT !.todo = @ \ {c}]
      /\ missed' = missed \/ missed' = missed \union {c}
      /\ UNCHANGED <<peers, enabled, limit, req, x11>> /\ (x12' = x12 \/ x12' = x12 + 1)
  BY DEF Sh!ReapplyOne, Sh!ReapplyFails, Sh!Happens, Sh!table
<1>2. again' \in Sh!Again
  BY <1>1 DEF ShapingTypes, Sh!TypeOK, Sh!Again
<1>3. Typed
  BY <1>1, <1>2 DEF Typed, ShapingTypes, Sh!TypeOK
<1>4. KernelTyped
  <2>1. CASE Sh!ReapplyOne(c)
    <3>1. PICK k \in 1 .. Slots : k = Sh!classIdFor(c)
      BY ShapingFacts
    <3>2. PICK a \in Nat : a = again.addr[c]
      BY DEF ShapingTypes, Sh!TypeOK, Sh!Again
    <3>3. PICK l \in [Sh!Dirs -> Nat] : l = again.lim[c]
      BY DEF ShapingTypes, Sh!TypeOK, Sh!Again
    <3>4. /\ class' = [d \in Sh!Dirs |-> Sh!WithClass(d, k, l[d])[d]]
          /\ filters' = UNION {Sh!WithFilters(d, a, k, l[d]) : d \in Sh!Dirs}
      BY <2>1, <3>1, <3>2, <3>3 DEF Sh!ReapplyOne
    <3>5. ASSUME NEW d \in Sh!Dirs
          PROVE  /\ Sh!WithClass(d, k, l[d])[d] \in [1 .. Slots -> Nat]
                 /\ Sh!WithFilters(d, a, k, l[d]) \subseteq Sh!Filter
      <4>1. l[d] \in Nat /\ class \in [Sh!Dirs -> [1 .. Slots -> Nat]]
        BY DEF ShapingTypes, Sh!TypeOK
      <4>2. [class EXCEPT ![d][k] = l[d]] \in [Sh!Dirs -> [1 .. Slots -> Nat]]
        BY <4>1, ClassTyped
      <4>3. Sh!WithClass(d, k, l[d]) \in [Sh!Dirs -> [1 .. Slots -> Nat]]
        BY <4>1, <4>2 DEF Sh!WithClass
      <4> QED BY <4>1, <4>3, NewFiltersTyped
    <3>6. class' \in [Sh!Dirs -> [1 .. Slots -> Nat]]
      BY <3>4, <3>5
    <3>7. filters' \subseteq Sh!Filter
      BY <3>4, <3>5
    <3> QED BY <3>6, <3>7 DEF KernelTyped
  <2>2. CASE Sh!ReapplyFails(c)
    BY <2>2, KernelRests DEF Sh!ReapplyFails, Sh!kernel
  <2> QED BY <2>1, <2>2
<1>5. /\ enabled' \subseteq peers' /\ limit' \in [Peers -> [Sh!Dirs -> Nat]]
      /\ missed' \subseteq Peers /\ x11' \in Nat /\ x12' \in Nat
  BY <1>1 DEF ShapingTypes, Sh!TypeOK
<1> QED BY <1>3, <1>4, <1>5, ShapingTypesHold

LEMMA ShapingTypesNext == ASSUME ShapingTypes, Sh!Next PROVE ShapingTypes'
<1>0. AddressesInv'
  BY AddressesNext DEF ShapingTypes
<1>1. ASSUME NEW q \in Actors, Sh!Service(q) PROVE ShapingTypes'
  BY <1>0, <1>1, LooksTyped, AppliesTyped, ClearsTyped, RowTyped DEF Sh!Service
<1>2. ASSUME NEW q \in Actors, NEW c \in Peers, Sh!Arrives(q, c) PROVE ShapingTypes'
  BY <1>0, <1>2, ArrivesTyped
<1>3. ASSUME NEW c \in Peers, Sh!Table(c) \/ Sh!ReapplyOne(c) \/ Sh!ReapplyFails(c)
      PROVE  ShapingTypes'
  BY <1>0, <1>3, TableTyped, LoopTyped
<1>4. ASSUME NEW r, NEW new, Sh!Renumber(r, new) PROVE ShapingTypes'
  BY <1>0, <1>4, RenumberTyped
<1>5. ASSUME Sh!Restart \/ Sh!Crash PROVE ShapingTypes'
  BY <1>0, <1>5, StartsTyped
<1> QED BY <1>1, <1>2, <1>3, <1>4, <1>5 DEF Sh!Next

\* A page's requests, and those left behind, are no more than its choices.
UsagePageTypes ==
  /\ dashboard \in BOOLEAN /\ alone \in BOOLEAN
  /\ range \in Choices \union {Gone} /\ buckets \in Choices \union {Gone}
  /\ own \in [Choices -> Nat] /\ old \in [Choices -> Nat]
  /\ usageCache \in (Choices \X Choices) \union {Gone}
  /\ choices \in Nat /\ choices <= MaxChoices
  /\ \A r \in Choices : own[r] + old[r] <= choices

LEMMA UsagePageTypeOK == UsagePageTypes => Up!TypeOK
<1> SUFFICES ASSUME UsagePageTypes PROVE Up!TypeOK
  OBVIOUS
<1>1. MaxChoices \in Nat
  BY MachinesAssumption
<1>2. \A r \in Choices : own[r] \in 0 .. MaxChoices /\ old[r] \in 0 .. MaxChoices
  BY <1>1 DEF UsagePageTypes
<1>3. own \in [Choices -> 0 .. MaxChoices] /\ old \in [Choices -> 0 .. MaxChoices]
  BY <1>2 DEF UsagePageTypes
<1> QED BY <1>1, <1>3 DEF UsagePageTypes, Up!TypeOK, Choices

LEMMA UsagePageTypesInit == Up!Init => UsagePageTypes
BY MachinesAssumption DEF Up!Init, Up!NoRequest, UsagePageTypes, Choices

\* A choice that is served from the cache, or asks for its range.
LEMMA LoadTyped ==
    ASSUME UsagePageTypes, NEW r \in Choices, NEW drawn \in Choices \union {Gone},
           NEW requests \in [Choices -> Nat],
           \A q \in Choices : requests[q] + old[q] <= choices,
           Up!LoadUsage(r, drawn, requests), Up!Choice, range' = r, alone' \in BOOLEAN,
           UNCHANGED <<dashboard, old, usageCache>>
    PROVE  UsagePageTypes'
<1>1. /\ choices \in Nat /\ choices' = choices + 1 /\ choices' <= MaxChoices
  BY MachinesAssumption DEF UsagePageTypes, Up!Choice
<1>2. old \in [Choices -> Nat]
  BY DEF UsagePageTypes
<1>3. CASE Up!Hit(r)
  <2>1. own' = requests /\ buckets' = usageCache[2]
    BY <1>3 DEF Up!LoadUsage
  <2>2. buckets' \in Choices
    BY <1>3, <2>1 DEF Up!Hit, UsagePageTypes
  <2>3. \A q \in Choices : own'[q] + old'[q] <= choices'
    BY <1>1, <1>2, <2>1
  <2> QED BY <1>1, <2>1, <2>2, <2>3 DEF UsagePageTypes
<1>4. CASE ~Up!Hit(r)
  <2>1. own' = [requests EXCEPT ![r] = @ + 1] /\ buckets' = drawn
    BY <1>4 DEF Up!LoadUsage
  <2>2. own' \in [Choices -> Nat]
    BY <2>1
  <2>3. \A q \in Choices : own'[q] + old'[q] <= choices'
    BY <1>1, <1>2, <2>1
  <2> QED BY <1>1, <2>1, <2>2, <2>3 DEF UsagePageTypes
<1> QED BY <1>3, <1>4

LEMMA UsagePageTypesNext == ASSUME UsagePageTypes, Up!Next PROVE UsagePageTypes'
<1>0. /\ own \in [Choices -> Nat] /\ old \in [Choices -> Nat] /\ choices \in Nat
      /\ \A r \in Choices : own[r] + old[r] <= choices
  BY DEF UsagePageTypes
<1>1. ASSUME Up!Open PROVE UsagePageTypes'
  <2>1. /\ Up!LoadUsage("24h", Gone, Up!NoRequest) /\ Up!Choice /\ range' = "24h"
        /\ alone' \in BOOLEAN /\ UNCHANGED <<dashboard, old, usageCache>>
    BY <1>1 DEF Up!Open
  <2>2. Up!NoRequest \in [Choices -> Nat] /\ "24h" \in Choices
    BY DEF Up!NoRequest, Choices
  <2>3. \A q \in Choices : Up!NoRequest[q] + old[q] <= choices
    BY <1>0 DEF Up!NoRequest, Choices
  <2> QED BY <2>1, <2>2, <2>3, LoadTyped
<1>2. ASSUME Up!Leave PROVE UsagePageTypes'
  <2>1. /\ range' = Gone /\ buckets' = Gone
        /\ old' = [r \in Choices |-> old[r] + own[r]] /\ own' = [r \in Choices |-> 0]
        /\ UNCHANGED <<dashboard, usageCache, alone, choices>>
    BY <1>2 DEF Up!Leave, Up!NoRequest, Choices
  <2>2. old' \in [Choices -> Nat] /\ own' \in [Choices -> Nat]
        /\ \A r \in Choices : own'[r] + old'[r] <= choices
    BY <1>0, <2>1
  <2> QED BY <2>1, <2>2 DEF UsagePageTypes
<1>3. ASSUME NEW r \in Choices, Up!Choose(r) PROVE UsagePageTypes'
  <2>1. /\ Up!LoadUsage(r, buckets, own) /\ Up!Choice /\ range' = r
        /\ alone' = ~Up!Loading /\ UNCHANGED <<dashboard, old, usageCache>>
    BY <1>3 DEF Up!Choose
  <2>2. alone' \in BOOLEAN
    BY <2>1 DEF Up!Loading
  <2>3. buckets \in Choices \union {Gone}
    BY DEF UsagePageTypes
  <2> QED BY <1>0, <2>1, <2>2, <2>3, LoadTyped
<1>4. ASSUME NEW r \in Choices, Up!Answer(r) PROVE UsagePageTypes'
  <2>1. /\ own[r] > 0 /\ own' = [own EXCEPT ![r] = @ - 1] /\ buckets' = r
        /\ usageCache' = <<r, r>> \/ usageCache' = usageCache
        /\ UNCHANGED <<dashboard, range, old, alone, choices>>
    BY <1>4 DEF Up!Answer, Up!Remembered
  <2>2. own' \in [Choices -> Nat] /\ \A q \in Choices : own'[q] + old[q] <= choices
    BY <1>0, <2>1
  <2> QED BY <2>1, <2>2 DEF UsagePageTypes
<1>5. ASSUME NEW r \in Choices, Up!Error(r) PROVE UsagePageTypes'
  <2>1. /\ own[r] > 0 /\ own' = [own EXCEPT ![r] = @ - 1] /\ alone' = FALSE
        /\ UNCHANGED <<dashboard, range, buckets, old, usageCache, choices>>
    BY <1>5 DEF Up!Error
  <2>2. own' \in [Choices -> Nat] /\ \A q \in Choices : own'[q] + old[q] <= choices
    BY <1>0, <2>1
  <2> QED BY <2>1, <2>2 DEF UsagePageTypes
<1>6. ASSUME NEW r \in Choices, Up!LateAnswer(r) PROVE UsagePageTypes'
  <2>1. /\ old[r] > 0 /\ old' = [old EXCEPT ![r] = @ - 1]
        /\ usageCache' = <<r, r>> \/ usageCache' = usageCache
        /\ UNCHANGED <<dashboard, range, buckets, own, alone, choices>>
    BY <1>6 DEF Up!LateAnswer, Up!Remembered
  <2>2. old' \in [Choices -> Nat] /\ \A q \in Choices : own[q] + old'[q] <= choices
    BY <1>0, <2>1
  <2> QED BY <2>1, <2>2 DEF UsagePageTypes
<1> QED BY <1>1, <1>2, <1>3, <1>4, <1>5, <1>6 DEF Up!Next, Choices

-----------------------------------------------------------------------------
(* Together: the invariant of the machine that runs, and the page of a      *)
(* client, which is idle beside it.                                         *)

Typing ==
  /\ TypeOK
  /\ part = "shaping" => ShapingTypes
  /\ part = "groups" => GroupsInv /\ GroupsTypes
  /\ part = "amnezia" => AmneziaInv /\ AmneziaTypes
  /\ part = "resolver" => ResolverInv /\ ResolverTypes
  /\ part = "dialog" => DialogInv
  /\ part = "routerPage" => RouterPageInv
  /\ part = "wizard" => WizardSound /\ WizardTypes
  /\ part = "chart" => ChartInv
  /\ part = "usagePage" => UsagePageTypes

LEMMA TypingHolds == Typing => EveryTypeOK
BY GroupsTypeOK, AmneziaTypeOK, ResolverTypeOK, DialogTypeOK, RouterPageTypeOK,
   WizardTypeOK, UsagePageTypeOK
DEF Typing, EveryTypeOK, ShapingTypes, ChartInv

LEMMA TypingInit == AllInit => Typing
<1>1. Tg!Init => GroupsTypes
  BY DEF Tg!Init, GroupsTypes
<1>2. Rs!Init => ResolverTypes
  BY DEF Rs!Init, ResolverTypes
<1>3. Wz!Init => WizardTypes
  BY DEF Wz!Init, WizardTypes
<1>4. AllInit => TypeOK
  BY TypeInit DEF AllInit, Idles
<1> QED BY <1>1, <1>2, <1>3, <1>4, ShapingTypesInit, GroupsInit, AmneziaInit,
           AmneziaTypesInit, ResolverInit, DialogInit, RouterPageInit, WizardInit,
           ChartInit, UsagePageTypesInit
        DEF AllInit, Typing

\* A step of the machine that runs.
LEMMA TypingNext == ASSUME Typing, AllNext PROVE Typing'
<1>1. part' = part
  BY DEF AllNext, Rest
<1>2. TypeOK'
  <2>1. CASE part = "clientPage" /\ Next
    BY <2>1, TypeStep DEF Typing
  <2>2. CASE UNCHANGED cvars
    BY <2>2, TypeStep DEF Typing
  <2> QED BY <2>1, <2>2 DEF AllNext, Rest
<1>3. part = "shaping" => ShapingTypes'
  BY ShapingTypesNext DEF AllNext, Typing
<1>4. part = "groups" => GroupsInv' /\ GroupsTypes'
  BY GroupsNext, GroupsTypesNext DEF AllNext, Typing
<1>5. part = "amnezia" => AmneziaInv' /\ AmneziaTypes'
  BY AmneziaNext, AmneziaTypesNext DEF AllNext, Typing
<1>6. part = "resolver" => ResolverInv' /\ ResolverTypes'
  BY ResolverNext, ResolverTypesNext DEF AllNext, Typing
<1>7. part = "dialog" => DialogInv'
  BY DialogNext DEF AllNext, Typing
<1>8. part = "routerPage" => RouterPageInv'
  BY RouterPageNext DEF AllNext, Typing
<1>9. part = "wizard" => WizardSound' /\ WizardTypes'
  BY WizardNext, WizardTypesNext DEF AllNext, Typing
<1>10. part = "chart" => ChartInv'
  BY ChartNext DEF AllNext, Typing
<1>11. part = "usagePage" => UsagePageTypes'
  BY UsagePageTypesNext DEF AllNext, Typing
<1> QED BY <1>1, <1>2, <1>3, <1>4, <1>5, <1>6, <1>7, <1>8, <1>9, <1>10, <1>11 DEF Typing

LEMMA ChartRests ==
    ASSUME ChartInv, UNCHANGED <<clock, counter, boot, samples>>
    PROVE  ChartInv'
BY DEF ChartInv, Uc!TypeOK, Books, Counted

LEMMA TypingRests == ASSUME Typing, UNCHANGED vars PROVE Typing'
<1>1. /\ UNCHANGED <<part, x1, x2, x3, x4, x5, x6, x7, x8, x9, x10, x11, x12, x13, x14>>
      /\ UNCHANGED cvars
  BY DEF vars, xvars
<1>2. TypeOK'
  BY <1>1, TypeStep DEF Typing
<1>3. part = "shaping" => ShapingTypes'
  BY <1>1 DEF Typing, ShapingTypes, AddressesInv, Sh!TypeOK, Sh!OwnAddresses, Sh!Unique
<1>4. part = "groups" => GroupsInv' /\ GroupsTypes'
  BY <1>1, GroupsRest DEF Typing, GroupsTypes
<1>5. part = "amnezia" => AmneziaInv' /\ AmneziaTypes'
  BY <1>1, AmneziaRests DEF Typing, AmneziaTypes
<1>6. part = "resolver" => ResolverInv' /\ ResolverTypes'
  BY <1>1, ResolverRests DEF Typing, ResolverTypes
<1>7. part = "dialog" => DialogInv'
  BY <1>1, DialogRests DEF Typing
<1>8. part = "routerPage" => RouterPageInv'
  BY <1>1, RouterPageRests DEF Typing
<1>9. part = "wizard" => WizardSound' /\ WizardTypes'
  BY <1>1, WizardTurns DEF Typing, WizardTypes
<1>10. part = "chart" => ChartInv'
  BY <1>1, ChartRests DEF Typing
<1>11. part = "usagePage" => UsagePageTypes'
  BY <1>1 DEF Typing, UsagePageTypes
<1> QED BY <1>1, <1>2, <1>3, <1>4, <1>5, <1>6, <1>7, <1>8, <1>9, <1>10, <1>11 DEF Typing

\* Every variable of every machine keeps its type, for any number of clients,
\* requests, tabs and runs: there is at most one dnsmasq process on the books
\* (resolver.ts), one run in the dialog of the set-up, and no request is of a
\* client, a limit, a mark or a header that is none.
THEOREM TypesHold == AllSpec => []EveryTypeOK
<1>1. Typing /\ [AllNext]_vars => Typing'
  BY TypingNext, TypingRests
<1> QED BY <1>1, TypingInit, TypingHolds, PTL DEF AllSpec
=============================================================================
