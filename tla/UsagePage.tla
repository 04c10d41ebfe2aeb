------------------------------ MODULE UsagePage ------------------------------
(***************************************************************************)
(* The usage chart of a page and its buttons for the range: the list of     *)
(* clients and a client's page (app/pages/index.vue, clients/[id].vue),     *)
(* which fetch at every choice, and a client's page of the dashboard        *)
(* (app/pages/dashboard/clients/[id].vue), which asks the store's cache     *)
(* first (app/stores/dashboard.ts).  What the answers say is in UsageChart; *)
(* here they are known by the range they were asked for.                    *)
(***************************************************************************)
EXTENDS Naturals

CONSTANTS Ranges, First,   \* the choices, and the one a page opens with
          None,
          MaxChoices       \* bound: choices, and openings of the page

VARIABLES dashboard,  \* is it the dashboard's page?
          range,      \* the button that is lit; None when no page is open
          buckets,    \* the range of the answer that is drawn; None: nothing
          own,        \* per range, the page's requests under way
          old,        \* per range, requests a page left behind
          usageCache, \* the store's entry of this client: one range, its answer
          alone,      \* history: chosen alone, and the answer was not an error
          choices
lvars == <<dashboard, range, buckets, own, old, usageCache, alone, choices>>

NoRequest == [r \in Ranges |-> 0]
Loading == \E r \in Ranges : own[r] > 0

Init == /\ dashboard \in BOOLEAN
        /\ range = None /\ buckets = None
        /\ own = NoRequest /\ old = NoRequest
        /\ usageCache = None
        /\ alone = TRUE
        /\ choices = 0

AnyRange(r) == dashboard /\ usageCache # None
Hit(r) == dashboard /\ usageCache # None /\ usageCache[1] = r

\* watch(range, loadUsage): from the cache at once, or by a request.
LoadUsage(r, drawn, requests) ==
  IF Hit(r) THEN /\ buckets' = usageCache[2]
                 /\ own' = requests
            ELSE /\ buckets' = drawn
                 /\ own' = [requests EXCEPT ![r] = @ + 1]

Choice == choices < MaxChoices /\ choices' = choices + 1

Open == /\ Choice /\ range = None
        /\ range' = First
        /\ LoadUsage(First, None, NoRequest)
        /\ alone' = TRUE
        /\ UNCHANGED <<dashboard, old, usageCache>>

Choose(r) == /\ Choice /\ range # None /\ r # range
             /\ range' = r
             /\ LoadUsage(r, buckets, own)
             /\ alone' = ~Loading
             /\ UNCHANGED <<dashboard, old, usageCache>>

\* getUsage stores the answer under the range it was called with.
Remembered(r) == IF dashboard THEN <<r, r>> ELSE usageCache

Answer(r) == /\ own[r] > 0
             /\ own' = [own EXCEPT ![r] = @ - 1]
             /\ buckets' = r
             /\ usageCache' = Remembered(r)
             /\ UNCHANGED <<dashboard, range, old, alone, choices>>

\* Nobody handles the error: the chart of the range before stays.
Error(r) == /\ own[r] > 0
            /\ own' = [own EXCEPT ![r] = @ - 1]
            /\ alone' = FALSE
            /\ UNCHANGED <<dashboard, range, buckets, old, usageCache, choices>>

Leave == /\ range # None
         /\ range' = None /\ buckets' = None
         /\ old' = [r \in Ranges |-> old[r] + own[r]]
         /\ own' = NoRequest
         /\ UNCHANGED <<dashboard, usageCache, alone, choices>>

\* The page is gone, the store is not.
LateAnswer(r) == /\ old[r] > 0
                 /\ old' = [old EXCEPT ![r] = @ - 1]
                 /\ usageCache' \in {Remembered(r), usageCache}
                 /\ UNCHANGED <<dashboard, range, buckets, own, alone, choices>>

Next == Open \/ Leave \/ \E r \in Ranges : Choose(r) \/ Answer(r) \/ Error(r) \/ LateAnswer(r)
Spec == Init /\ [][Next]_lvars

-----------------------------------------------------------------------------
(* Every variable keeps its type. *)
TypeOK == /\ dashboard \in BOOLEAN /\ alone \in BOOLEAN
          /\ range \in Ranges \cup {None} /\ buckets \in Ranges \cup {None}
          /\ own \in [Ranges -> 0..MaxChoices] /\ old \in [Ranges -> 0..MaxChoices]
          /\ usageCache \in (Ranges \X Ranges) \cup {None}
          /\ choices \in 0..MaxChoices

(* When the page waits for nothing, the chart is that of the lit button, if   *)
(* the button was pressed while nothing was under way and its answer came,    *)
(* whatever pages left before have put into the cache meanwhile.  (Two        *)
(* choices in a row leave the chart of the answer that came last.)            *)
Labelled == (range # None /\ alone /\ ~Loading) => buckets = range
=============================================================================
