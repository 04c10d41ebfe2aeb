----------------------------- MODULE ClientPage -----------------------------
(***************************************************************************)
(* One client as its administrators see and change it: the client's page   *)
(* (app/pages/clients/[id].vue), open in any number of tabs, and its card   *)
(* in the list (app/components/ClientCard/Switch.vue), both of which write  *)
(* through app/composables/useSubmit.ts to the routes of                    *)
(* server/api/client/[clientId], while the quota evaluator and the          *)
(* expiration enforcer switch the same client off.                          *)
(*                                                                         *)
(* The page sends the WHOLE row it holds, whatever was entered.  The card   *)
(* keeps a copy of `enabled` for its thumb that no later list corrects.     *)
(* The form's fields but the switch are one field, "rest".  Hooks to the    *)
(* WireGuard interface are in PeerSync, to the traffic classes in Shaping.  *)
(***************************************************************************)
EXTENDS Naturals

CONSTANTS Tabs,       \* tabs that may show the client's page
          Values,     \* values of the fields other than `enabled`
          Gone,       \* a deleted row; a page without data
          MaxInputs   \* bound: what administrators do, and the enforcers

Fields == {"enabled", "rest"}
Client == [enabled : BOOLEAN, rest : Values]

VARIABLES row,      \* the client's row of the database
          data,     \* per tab: the form, or Gone when no page is shown
          call,     \* per tab: its request, and what was sent or answered
          typed,    \* history: per tab, the fields entered since it loaded
          fresh,    \* history: per tab, nobody else wrote since it loaded
          card,     \* the client's card in the list of another window
          inputs
cvars == <<row, data, call, typed, fresh, card, inputs>>

Quiet == [step |-> "none", body |-> Gone]
\* `shown`: the thumb; `props`: the last list; `calls`: requests under way;
\* `due`: answered ones whose list is still to come; history `sound`: nobody
\* else changed the client since the card appeared, no request failed and no
\* click came before the last one was answered.
Card == [open : BOOLEAN, shown : BOOLEAN, props : BOOLEAN,
         calls : [BOOLEAN -> Nat], due : Nat, sound : BOOLEAN]
NoCard == [open |-> FALSE, shown |-> FALSE, props |-> FALSE,
           calls |-> [v \in BOOLEAN |-> 0], due |-> 0, sound |-> TRUE]
Pending == card.due > 0 \/ \E v \in BOOLEAN : card.calls[v] > 0

Init == /\ row \in [enabled : {TRUE}, rest : Values]
        /\ data = [t \in Tabs |-> Gone]
        /\ call = [t \in Tabs |-> Quiet]
        /\ typed = [t \in Tabs |-> {}]
        /\ fresh = [t \in Tabs |-> TRUE]
        /\ card = NoCard
        /\ inputs = 0

Input == inputs < MaxInputs /\ inputs' = inputs + 1
Idle(t) == call[t].step = "none"
Goes(t, step, body) == call' = [call EXCEPT ![t] = [step |-> step, body |-> body]]

\* Somebody writes the row: the other tabs' copies are old, and so is the card
\* unless `own`.
Write(new, others, own) ==
  /\ row' = new
  /\ fresh' = [u \in Tabs |-> fresh[u] /\ (u \notin others \/ new = row)]
  /\ card' = IF own \/ new = row THEN card ELSE [card EXCEPT !.sound = FALSE]

-----------------------------------------------------------------------------
(* The page. *)

Open(t) == /\ Input /\ Idle(t) /\ data[t] = Gone
           /\ Goes(t, "load", Gone)
           /\ UNCHANGED <<row, data, typed, fresh, card>>

\* Also the button: Revert fetches the row again.
Revert(t) == /\ Input /\ Idle(t) /\ data[t] # Gone
             /\ Goes(t, "load", Gone)
             /\ UNCHANGED <<row, data, typed, fresh, card>>

\* GET answers with the row as it is now, or 404.
Answer(t) == /\ call[t].step = "load"
             /\ Goes(t, "loaded", row)
             /\ fresh' = [fresh EXCEPT ![t] = TRUE]
             /\ UNCHANGED <<row, data, typed, card, inputs>>

AnswerFails(t) == /\ call[t].step = "load"
                  /\ Goes(t, "loaded", Gone)
                  /\ UNCHANGED <<row, data, typed, fresh, card, inputs>>

Forgets(fetched, form) == IF form = Gone THEN fetched ELSE form
Taken(fetched, form) == fetched
Show(t) == /\ call[t].step = "loaded"
           /\ data' = [data EXCEPT ![t] = Taken(call[t].body, @)]
           /\ typed' = [typed EXCEPT ![t] = {}]
           /\ Goes(t, "none", Gone)
           /\ UNCHANGED <<row, fresh, card, inputs>>

\* The fields take input at any time, also while a request is under way.
Type(t, f) ==
  /\ Input /\ data[t] # Gone
  /\ \E v \in IF f = "enabled" THEN BOOLEAN ELSE Values :
        data' = [data EXCEPT ![t][f] = v]
  /\ typed' = [typed EXCEPT ![t] = @ \cup {f}]
  /\ UNCHANGED <<row, call, fresh, card>>

\* submit: the body is the form as it is now.
Submit(t) == /\ Input /\ Idle(t) /\ data[t] # Gone
             /\ Goes(t, "save", data[t])
             /\ UNCHANGED <<row, data, typed, fresh, card>>

\* The handler of POST: every column of the body is set.  The engine is told
\* after that (see PeerSync), and an answer can be lost.
Saves(t) == call[t].step = "save" /\ row # Gone /\ row' = call[t].body
Update(t) ==
  /\ call[t].step = "save" /\ row # Gone
  /\ Write(call[t].body, Tabs \ {t}, FALSE)
  /\ \E answer \in {"done", "failed"} : Goes(t, answer, Gone)
  /\ UNCHANGED <<data, typed, inputs>>

\* An address outside the range or taken, a body that is not valid, no row.
UpdateFails(t) == /\ call[t].step = "save"
                  /\ Goes(t, "failed", Gone)
                  /\ UNCHANGED <<row, data, typed, fresh, card, inputs>>

\* revert(true) leaves for the list; revert(false) fetches the row.
Leave(t) == /\ call[t].step = "done"
            /\ data' = [data EXCEPT ![t] = Gone]
            /\ typed' = [typed EXCEPT ![t] = {}]
            /\ Goes(t, "none", Gone)
            /\ UNCHANGED <<row, fresh, card, inputs>>

Failed(t) == /\ call[t].step = "failed"
             /\ Goes(t, "load", Gone)
             /\ UNCHANGED <<row, data, typed, fresh, card, inputs>>

DeleteClient(t) == /\ Input /\ Idle(t) /\ data[t] # Gone
                   /\ Goes(t, "delete", Gone)
                   /\ UNCHANGED <<row, data, typed, fresh, card>>

\* The page is left whether the row was deleted or not.
Delete(t) == /\ call[t].step = "delete"
             /\ \/ Write(Gone, Tabs \ {t}, FALSE)
                \/ UNCHANGED <<row, fresh, card>>
             /\ Goes(t, "done", Gone)
             /\ UNCHANGED <<data, typed, inputs>>

-----------------------------------------------------------------------------
(* The card, and the enforcers. *)

Mount == /\ Input /\ ~card.open /\ row # Gone
         /\ card' = [NoCard EXCEPT !.open = TRUE,
                       !.shown = row.enabled, !.props = row.enabled]
         /\ UNCHANGED <<row, data, call, typed, fresh>>

\* The list is fetched every second, and after each request of the card.  A
\* newer fetch cancels an older one, so that lists arrive in order.
Listed == IF row = Gone THEN NoCard ELSE [card EXCEPT !.props = row.enabled]
Tick == /\ card.open
        /\ card' = Listed
        /\ UNCHANGED <<row, data, call, typed, fresh, inputs>>

\* The thumb turns by v-model; the request goes by the last list.
ByThumb(c) == c.shown
AsksFor(c) == ~c.props
Click ==
  /\ Input /\ card.open
  /\ card' = [card EXCEPT !.shown = ~@, !.calls[AsksFor(card)] = @ + 1,
                          !.sound = @ /\ ~Pending]
  /\ UNCHANGED <<row, data, call, typed, fresh>>

Answered(v, kept) == [card EXCEPT !.calls[v] = @ - 1, !.due = @ + 1, !.sound = @ /\ kept]
\* enable.post.ts and disable.post.ts.
Toggle(v) ==
  /\ card.calls[v] > 0 /\ row # Gone
  /\ row' = [row EXCEPT !.enabled = v]
  /\ fresh' = [u \in Tabs |-> fresh[u] /\ row.enabled = v]
  /\ card' = Answered(v, TRUE)
  /\ UNCHANGED <<data, call, typed, inputs>>

\* An expired client is not enabled; any request can fail.
ToggleFails(v) == /\ card.calls[v] > 0
                  /\ card' = Answered(v, FALSE)
                  /\ UNCHANGED <<row, data, call, typed, fresh, inputs>>

Refresh == /\ card.due > 0
           /\ card' = IF row = Gone THEN NoCard ELSE [Listed EXCEPT !.due = @ - 1]
           /\ UNCHANGED <<row, data, call, typed, fresh, inputs>>

Unmount == /\ card.open /\ ~Pending
           /\ card' = NoCard
           /\ UNCHANGED <<row, data, call, typed, fresh, inputs>>

\* The quota evaluator and the expiration enforcer.
SwitchOff == /\ Input /\ row # Gone /\ row.enabled
             /\ Write([row EXCEPT !.enabled = FALSE], Tabs, FALSE)
             /\ UNCHANGED <<data, call, typed>>

Next == \/ \E t \in Tabs : \/ Open(t) \/ Revert(t) \/ Answer(t) \/ AnswerFails(t)
                           \/ Show(t) \/ Submit(t) \/ Update(t) \/ UpdateFails(t)
                           \/ Leave(t) \/ Failed(t) \/ DeleteClient(t) \/ Delete(t)
                           \/ \E f \in Fields : Type(t, f)
        \/ \E v \in BOOLEAN : Toggle(v) \/ ToggleFails(v)
        \/ Mount \/ Tick \/ Click \/ Refresh \/ Unmount \/ SwitchOff

Spec == Init /\ [][Next]_cvars

-----------------------------------------------------------------------------
(* Every variable keeps its type. *)
TypeOK ==
  /\ row \in Client \cup {Gone}
  /\ data \in [Tabs -> Client \cup {Gone}]
  /\ call \in [Tabs -> [step : {"none", "load", "loaded", "save", "delete", "done", "failed"},
                        body : Client \cup {Gone}]]
  /\ typed \in [Tabs -> SUBSET Fields]
  /\ fresh \in [Tabs -> BOOLEAN]
  /\ card \in Card
  /\ inputs \in Nat

(* A save of a page whose client nobody else has written since the page was   *)
(* loaded changes only what was entered in that tab since then: what a failed *)
(* save or a revert gave up does not come back with the next save.  (A page   *)
(* loaded before somebody else wrote puts the old row back, also `enabled` of *)
(* a client that was switched off for its quota.)                             *)
SaveIsTyped ==
  \A t \in Tabs : (Saves(t) /\ fresh[t]) =>
    \A f \in Fields : call[t].body[f] # row[f] => f \in typed[t]
Deliberate == [][SaveIsTyped]_cvars

(* The switch of a card shows the client's state when its last request has    *)
(* been answered and the list fetched, as long as nobody else changes the     *)
(* client, no request fails and clicks wait for each other, none of which     *)
(* the card notices.                                                          *)
ThumbIsTrue == (card.open /\ card.sound /\ ~Pending) => card.shown = row.enabled
=============================================================================
