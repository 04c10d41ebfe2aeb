----------------------------- MODULE RouterPage -----------------------------
(* The page of a router, open in several tabs.  Each has the row as it loaded *)
(* it and a form filled from that; it sends what differs between the two, and *)
(* fills the form again from every answer.  The wizard and the page write the *)
(* same row.  creds stands for the account, which is never shown: an empty    *)
(* field of the form; name for the fields that are edited alone.              *)
EXTENDS Integers

CONSTANTS
  Tabs,      \* tabs of the browsers of administrators
  Values,    \* values of a field; the fingerprint of a host is its value
  MaxTyped   \* bound on what is entered

None   == 0
Fields == {"name", "host", "pin", "creds"}

\* Assumed of the constants by the module that instantiates this one.
PageAssumption == None \notin Values /\ Values # {} /\ MaxTyped \in Nat

VARIABLES
  row,    \* the row of the router: a set with one, or none once it is deleted
  list,   \* routerData of each tab: a set with one, or none
  form,   \* the form of each tab
  asked,  \* the host a tab has asked the fingerprint of
  call,   \* the request a tab waits for
  typed,  \* history: the fields entered since the form was filled
  inputs

pvars == <<row, list, form, asked, call, typed, inputs>>

Row    == [Fields -> Values \union {None}]
\* The fields a PATCH has, and what was entered of them.
Call   == [at : {"idle", "patch", "refresh"}, body : SUBSET Fields, vals : Row,
           entered : SUBSET Fields]
Empty  == [f \in Fields |-> None]
NoCall == [at |-> "idle", body |-> {}, vals |-> Empty, entered |-> {}]

\* What the server shows of a row.
shown(r) == [r EXCEPT !["creds"] = None]

Init ==
  /\ row \in {{[f \in Fields |-> v]} : v \in {CHOOSE v \in Values : TRUE}}
  /\ list = [t \in Tabs |-> {}] /\ form = [t \in Tabs |-> Empty]
  /\ asked = [t \in Tabs |-> None] /\ call = [t \in Tabs |-> NoCall]
  /\ typed = [t \in Tabs |-> {}] /\ inputs = 0

Idle(t) == call[t].at = "idle"
Open(t) == list[t] # {}

\* The watcher of routerData fills the form, whatever was entered in it.
Filled(t) ==
  /\ list' = [list EXCEPT ![t] = {shown(r) : r \in row}]
  /\ form' = IF row = {} THEN form
             ELSE [form EXCEPT ![t] = CHOOSE r \in {shown(x) : x \in row} : TRUE]
  /\ typed' = [typed EXCEPT ![t] = IF row = {} THEN @ ELSE {}]

Load(t) ==
  /\ Idle(t) /\ ~Open(t) /\ row # {}
  /\ Filled(t)
  /\ UNCHANGED <<row, asked, call, inputs>>

Type(t, f, v) ==
  /\ Open(t) /\ inputs < MaxTyped /\ inputs' = inputs + 1
  /\ form' = [form EXCEPT ![t][f] = v] /\ typed' = [typed EXCEPT ![t] = @ \union {f}]
  /\ UNCHANGED <<row, list, asked, call>>

\* The answer goes into the form as it is by then.
FetchFingerprint(t) ==
  /\ Open(t) /\ asked[t] = None /\ form[t]["host"] # None
  /\ asked' = [asked EXCEPT ![t] = form[t]["host"]]
  /\ UNCHANGED <<row, list, form, call, typed, inputs>>

FingerprintArrives(t) ==
  /\ asked[t] # None /\ asked' = [asked EXCEPT ![t] = None]
  /\ form' = [form EXCEPT ![t]["pin"] = asked[t]]
  /\ typed' = [typed EXCEPT ![t] = @ \union {"pin"}]
  /\ UNCHANGED <<row, list, call, inputs>>

FetchFails(t) ==
  /\ asked[t] # None /\ asked' = [asked EXCEPT ![t] = None]
  /\ UNCHANGED <<row, list, form, call, typed, inputs>>

\* What differs from the row as it was loaded.  Mutant: the whole form.
Whole(t) == Fields \ {"creds"}
Diff(t)  == {f \in Fields : \A r \in list[t] : form[t][f] # r[f]}

Submit(t) ==
  /\ Open(t) /\ Idle(t)
  /\ call' = [call EXCEPT ![t] =
       [at |-> IF Diff(t) = {} THEN "refresh" ELSE "patch", body |-> Diff(t),
        vals |-> [f \in Fields |-> IF f \in Diff(t) THEN form[t][f] ELSE None],
        entered |-> typed[t] \intersect Diff(t)]]
  /\ UNCHANGED <<row, list, form, asked, typed, inputs>>

\* The columns that were sent, and no other.
Patch(t) ==
  /\ call[t].at = "patch" /\ row # {}
  /\ row' = {[f \in Fields |-> IF f \in call[t].body THEN call[t].vals[f] ELSE r[f]] : r \in row}
  /\ call' = [call EXCEPT ![t] = [NoCall EXCEPT !.at = "refresh"]]
  /\ UNCHANGED <<list, form, asked, typed, inputs>>

\* The router is gone, half an account was sent, or the request fails: submit
\* throws and everything stays as it is.
PatchFails(t) ==
  /\ call[t].at = "patch"
  /\ call' = [call EXCEPT ![t] = NoCall]
  /\ UNCHANGED <<row, list, form, asked, typed, inputs>>

\* Reverting is a refresh.
Revert(t) ==
  /\ Open(t) /\ Idle(t)
  /\ call' = [call EXCEPT ![t].at = "refresh"]
  /\ UNCHANGED <<row, list, form, asked, typed, inputs>>

Refreshed(t) ==
  /\ call[t].at = "refresh"
  /\ Filled(t)
  /\ call' = [call EXCEPT ![t] = NoCall]
  /\ UNCHANGED <<row, asked, inputs>>

\* The list is null, and the page shows nothing until it is loaded again.
RefreshFails(t) ==
  /\ call[t].at = "refresh"
  /\ list' = [list EXCEPT ![t] = {}] /\ call' = [call EXCEPT ![t] = NoCall]
  /\ UNCHANGED <<row, form, asked, typed, inputs>>

DeleteRouter(t) ==
  /\ Open(t) /\ Idle(t) /\ row # {}
  /\ row' = {} /\ list' = [list EXCEPT ![t] = {}]
  /\ UNCHANGED <<form, asked, call, typed, inputs>>

\* The wizard stores an account of its own.
Persist(v) ==
  /\ row # {} /\ row' = {[r EXCEPT !["creds"] = v] : r \in row}
  /\ UNCHANGED <<list, form, asked, call, typed, inputs>>

-----------------------------------------------------------------------------
Tab(t) ==
  \/ Load(t) \/ FetchFingerprint(t) \/ FingerprintArrives(t) \/ FetchFails(t)
  \/ Submit(t) \/ Patch(t) \/ PatchFails(t) \/ Revert(t) \/ Refreshed(t)
  \/ RefreshFails(t) \/ DeleteRouter(t)
  \/ \E f \in Fields, v \in Values : Type(t, f, v)

Next == (\E t \in Tabs : Tab(t)) \/ \E v \in Values : Persist(v)

Spec == Init /\ [][Next]_pvars

-----------------------------------------------------------------------------
(* Properties.                                                             *)

TypeOK ==
  /\ row \subseteq Row /\ list \in [Tabs -> SUBSET Row] /\ form \in [Tabs -> Row]
  /\ asked \in [Tabs -> Values \union {None}] /\ call \in [Tabs -> Call]
  /\ typed \in [Tabs -> SUBSET Fields]

\* An administrator who saves a form changes what was entered in it and nothing
\* else: what another tab or the wizard wrote since the page was loaded stays
\* (submit, the watcher of routerData, the handler of PATCH).
Changes(f) == \E r \in row, s \in row' : r[f] # s[f]
SaveIsDiff ==
  \A f \in Fields : Changes(f) =>
    \/ \E t \in Tabs : call[t].at = "patch" /\ call'[t].at = "refresh"
                      /\ f \in call[t].entered
    \/ f = "creds" /\ \E v \in Values : Persist(v)
NoClobber == [][SaveIsDiff]_pvars
=============================================================================
