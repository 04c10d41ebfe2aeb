-------------------------- MODULE QuotaPoolProofs ---------------------------
(***************************************************************************)
(* For any set of clients, limits, ticks and bounds: QuotaPool is well     *)
(* typed, no family is charged for more than it carried, unless two polls  *)
(* counted at once or the baseline of a silent peer was deleted, and a     *)
(* marked family is off, unless its allowance or its period changed.       *)
(***************************************************************************)
EXTENDS MCQuotaPool, TLAPS

\* Facts about the subtraction with reset detection, bytes being naturals.
LEMMA DeltaFacts ==
    ASSUME NEW a \in Nat, NEW b \in Nat
    PROVE  /\ Delta(a, b) \in Nat
           /\ Delta(a + 1, b) <= Delta(a, b) + 1
           /\ Delta(0, b) = 0
           /\ Delta(a, a) = 0
BY DEF Delta

-----------------------------------------------------------------------------
(* Types.                                                                  *)

LEMMA IdlePoll == Idle \in Poll /\ Idle.at = "idle"
BY DEF Idle, Poll, Ats

LEMMA InitTyped == Init => TypeOK
<1> SUFFICES ASSUME Init PROVE TypeOK
  OBVIOUS
<1>1. /\ rows \subseteq Clients /\ enabled \subseteq rows /\ live \subseteq rows
      /\ quota \in Quota
  BY DEF Init, Quota
<1>2. poll \in [Polls -> Poll]
  BY IdlePoll DEF Init
<1>3. resetting \in BOOLEAN
  BY DEF Init
<1> QED BY <1>1, <1>2, <1>3 DEF Init, TypeOK

LEMMA StepTyped ==
    ASSUME TypeOK, NEW p \in Polls, NEW from, NEW r \in Poll, Step(p, from, r)
    PROVE  poll' \in [Polls -> Poll]
BY DEF Step, TypeOK

LEMMA SyncTyped ==
    ASSUME TypeOK, Synced PROVE live' \subseteq rows /\ counter' \in [Clients -> Nat]
BY DEF Synced, TypeOK

LEMMA TickTyped ==
    ASSUME TypeOK, NEW p \in Polls, Tick(p) PROVE TypeOK'
<1> USE DEF TypeOK
<1>r. poll[p] \in Poll
  OBVIOUS
<1>1. CASE Sample(p)
  <2>1. [Idle EXCEPT !.at = "read", !.snap = counter, !.todo = live \cap rows] \in Poll
    BY DEF Idle, Poll, Ats
  <2> QED BY <1>1, <2>1, StepTyped DEF Sample, family, bill
<1>2. ASSUME NEW c \in Clients, ReadLast(p, c) PROVE TypeOK'
  <2> DEFINE d == Delta(poll[p].snap[c], last[c])
  <2>1. d \in Nat
    BY <1>r, DeltaFacts DEF Poll
  <2>2. [poll[p] EXCEPT !.todo = @ \ {c}, !.cur = {c}, !.delta = d,
                        !.at = IF d > 0 THEN "insert" ELSE "read"] \in Poll
    BY <1>r, <2>1 DEF Poll, Ats
  <2> QED BY <1>2, <2>2, StepTyped DEF ReadLast, family, bill
<1>3. CASE InsertSample(p)
  <2>1. [poll[p] EXCEPT !.at = "credit"] \in Poll
    BY <1>r DEF Poll, Ats
  <2>2. last' \in [Clients -> Nat]
    BY <1>3, <1>r DEF InsertSample, Stored, Poll
  <2> QED BY <1>3, <2>1, <2>2, StepTyped DEF InsertSample, family
<1>4. CASE AddBytes(p)
  <2>1. [poll[p] EXCEPT !.at = "read"] \in Poll
    BY <1>r DEF Poll, Ats
  <2>2. quota' \in Quota /\ billed' \in [Clients -> Nat]
    BY <1>4, <1>r DEF AddBytes, Poll, Quota
  <2> QED BY <1>4, <2>1, <2>2, StepTyped DEF AddBytes, family
<1>5. CASE Polled(p) \/ Evaluate(p)
  <2>1. [Idle EXCEPT !.at = "evaluate"] \in Poll /\ [Idle EXCEPT !.at = "family"] \in Poll
    BY DEF Idle, Poll, Ats
  <2>2. poll' \in [Polls -> Poll]
    BY <1>5, <2>1, IdlePoll, StepTyped DEF Polled, Evaluate
  <2> QED BY <1>5, <2>2 DEF Polled, Evaluate, family, bill
<1>6. CASE ReadFamily(p) \/ FamilyDone(p)
  <2>1. /\ [poll[p] EXCEPT !.at = "toggle", !.todo = enabled] \in Poll
        /\ [poll[p] EXCEPT !.at = "mark"] \in Poll
    BY <1>r DEF Poll, Ats
  <2>2. poll' \in [Polls -> Poll]
    BY <1>6, <2>1, IdlePoll, StepTyped DEF ReadFamily, FamilyDone
  <2> QED BY <1>6, <2>2 DEF ReadFamily, FamilyDone, family, bill
<1>7. ASSUME NEW c \in Clients, ToggleOff(p, c) PROVE TypeOK'
  <2>1. [poll[p] EXCEPT !.at = "engine", !.todo = @ \ {c}, !.cur = {c}] \in Poll
    BY <1>r DEF Poll, Ats
  <2> QED BY <1>7, <2>1, StepTyped DEF ToggleOff, bill
<1>8. CASE DisablePeer(p)
  <2>1. [poll[p] EXCEPT !.at = "toggle", !.any = TRUE] \in Poll
    BY <1>r DEF Poll, Ats
  <2> QED BY <1>8, <2>1, StepTyped, SyncTyped DEF DisablePeer, family, bill
<1>9. CASE DisableFails(p)
  <2>1. [poll[p] EXCEPT !.at = "toggle"] \in Poll
    BY <1>r DEF Poll, Ats
  <2> QED BY <1>9, <2>1, StepTyped DEF DisableFails, Happens, family, bill
<1>10. CASE MarkDisabledByQuota(p)
  <2>1. quota' \in Quota
    BY <1>10 DEF MarkDisabledByQuota, Quota
  <2> QED BY <1>10, <2>1, IdlePoll, StepTyped DEF MarkDisabledByQuota, family, bill
<1> QED BY <1>1, <1>2, <1>3, <1>4, <1>5, <1>6, <1>7, <1>8, <1>9, <1>10 DEF Tick

LEMMA NextTyped == ASSUME TypeOK, [Next]_vars PROVE TypeOK'
<1> USE DEF TypeOK, BoundsAssumption
<1>1. CASE UNCHANGED vars
  BY <1>1 DEF vars, family, bill
<1>2. ASSUME NEW p \in Polls, Tick(p) PROVE TypeOK'
  BY <1>2, TickTyped
<1>3. ASSUME NEW c \in Clients, Traffic(c) \/ Rollup(c) PROVE TypeOK'
  <2>1. sound' \in BOOLEAN
    BY <1>3, Zenon DEF Traffic, Rollup, bill
  <2> QED BY <1>3, <2>1 DEF Traffic, Rollup, Happens, family, bill
<1>4. ASSUME NEW c \in Clients, Request(c) PROVE TypeOK'
  BY <1>4 DEF Request, Create, CheckQuota, Enable, Admitted, Happens, bill
<1>5. ASSUME NEW l \in Limits, NEW a \in BOOLEAN, SetQuota(l, a) PROVE TypeOK'
  <2>1. quota' \in Quota
    BY <1>5 DEF SetQuota, Quota
  <2> QED BY <1>5, <2>1 DEF SetQuota, Happens, family, bill
<1>6. CASE Reconcile
  BY <1>6, SyncTyped DEF Reconcile, family, bill
<1>7. CASE NextPeriod \/ FindExpired
  <2>1. resetting' \in BOOLEAN
    BY <1>7, Zenon DEF NextPeriod, FindExpired
  <2> QED BY <1>7, <2>1 DEF NextPeriod, FindExpired, family, bill
<1>8. CASE ResetPeriod \/ DeleteQuota
  <2>a. FreshPeriod \in Quota /\ [quota EXCEPT !.exists = FALSE] \in Quota
    BY DEF FreshPeriod, Quota
  <2>1. quota' \in Quota
    BY <1>8, <2>a DEF ResetPeriod, DeleteQuota
  <2>2. resetting' \in BOOLEAN
    BY <1>8, Zenon DEF ResetPeriod, DeleteQuota
  <2> QED BY <1>8, <2>1, <2>2 DEF ResetPeriod, DeleteQuota, Happens, family, bill
<1>9. CASE Crash
  <2>1. poll' \in [Polls -> Poll] /\ counter' \in [Clients -> Nat]
    BY <1>9, IdlePoll DEF Crash
  <2>2. resetting' \in BOOLEAN
    BY <1>9, Zenon DEF Crash
  <2> QED BY <1>9, <2>1, <2>2 DEF Crash, Happens, family, bill
<1> QED BY <1>1, <1>2, <1>3, <1>4, <1>5, <1>6, <1>7, <1>8, <1>9 DEF Next

\* Every state is well typed: no count is ever negative, and the peers of the
\* interface and the enabled clients are rows of clients_table.
THEOREM TypeCorrect == Spec => []TypeOK
<1>1. Init => TypeOK
  BY InitTyped
<1>2. TypeOK /\ [Next]_vars => TypeOK'
  BY NextTyped
<1> QED BY <1>1, <1>2, PTL DEF Spec

-----------------------------------------------------------------------------
(* The bill.                                                               *)

\* What client c was charged, and will be if the next poll comes now.
Charged(c) == billed[c] + Delta(counter[c], last[c]) <= carried[c]

\* The same when tick p still has c's sample to store.
Pending(p, c) ==
    billed[c] + Delta(poll[p].snap[c], last[c]) + Delta(counter[c], poll[p].snap[c])
        <= carried[c]

\* The same when tick p has stored it and not counted it yet.
Stale(p, c) ==
    /\ last[c] = poll[p].snap[c]
    /\ billed[c] + poll[p].delta + Delta(counter[c], last[c]) <= carried[c]

Polling(p) ==
    /\ Counting(p) => \A c \in poll[p].todo : Pending(p, c)
    /\ poll[p].at \in {"insert", "credit"} => poll[p].cur \cap poll[p].todo = {}
    /\ poll[p].at = "insert" =>
         \A c \in poll[p].cur :
            Pending(p, c) /\ poll[p].delta = Delta(poll[p].snap[c], last[c])
    /\ poll[p].at = "credit" => \A c \in poll[p].cur : Stale(p, c)

\* At most one poll counts.
OneCounts == \A p, q \in Polls : Counting(p) /\ Counting(q) => p = q

BillSound ==
    sound => (\A c \in Clients : Charged(c)) /\ (\A p \in Polls : Polling(p)) /\ OneCounts

\* Charges are naturals, so the bound that counts the next poll too implies the
\* bound on what was billed.
LEMMA ChargedEnough == TypeOK /\ BillSound => NeverOverbilled
<1> SUFFICES ASSUME TypeOK, BillSound, sound, NEW c \in Clients
             PROVE  billed[c] <= carried[c]
  BY DEF NeverOverbilled
<1>1. Delta(counter[c], last[c]) \in Nat
  BY DeltaFacts DEF TypeOK
<1> QED BY <1>1 DEF TypeOK, BillSound, Charged

\* A tick that is not counting keeps its part of the invariant, whatever happens.
LEMMA NotCounting == ASSUME NEW p \in Polls, ~Counting(p) PROVE Polling(p)
BY DEF Polling, Counting

\* Ticks that go on as they are or do not count, counters that are kept or reset
\* to zero, and nothing else.
LEMMA ResetKeeps ==
    ASSUME TypeOK, BillSound, UNCHANGED <<bill, carried>>,
           counter' \in [Clients -> Nat],
           \A c \in Clients : counter'[c] = counter[c] \/ counter'[c] = 0,
           \A p \in Polls : poll'[p] = poll[p] \/ ~Counting(p)'
    PROVE  BillSound'
<1> USE DEF TypeOK
<1> SUFFICES ASSUME sound PROVE BillSound'
  BY DEF BillSound, bill
<1>a. UNCHANGED <<last, billed, carried>>
  BY DEF bill
<1>1. ASSUME NEW c \in Clients, NEW n \in Nat
      PROVE  /\ Delta(counter[c], n) \in Nat
             /\ Delta(counter'[c], n) \in Nat
             /\ Delta(counter'[c], n) <= Delta(counter[c], n)
  <2>1. counter[c] \in Nat /\ (counter'[c] = counter[c] \/ counter'[c] = 0)
    BY <1>1
  <2> QED BY <1>1, <2>1 DEF Delta
<1>2. ASSUME NEW c \in Clients PROVE Charged(c)'
  BY <1>1, <1>2, <1>a DEF BillSound, Charged
<1>3. ASSUME NEW p \in Polls, poll'[p] = poll[p], NEW c \in Clients, Pending(p, c)
      PROVE  Pending(p, c)'
  <2>1. poll[p].snap[c] \in Nat
    BY DEF Poll
  <2>2. Delta(poll[p].snap[c], last[c]) \in Nat
    BY <2>1, DeltaFacts
  <2> QED BY <1>1, <1>3, <1>a, <2>1, <2>2 DEF Pending
<1>4. ASSUME NEW p \in Polls, poll'[p] = poll[p], NEW c \in Clients, Stale(p, c)
      PROVE  Stale(p, c)'
  <2>1. poll[p].delta \in Nat
    BY DEF Poll
  <2> QED BY <1>1, <1>4, <1>a, <2>1 DEF Stale
<1>5. ASSUME NEW p \in Polls PROVE Polling(p)'
  <2>1. CASE poll'[p] = poll[p]
    <3>1. poll[p] \in Poll /\ Polling(p)
      BY DEF BillSound
    <3> QED BY <1>3, <1>4, <1>a, <2>1, <3>1 DEF Polling, Poll, Counting
  <2>2. CASE ~Counting(p)'
    BY <2>2 DEF Polling, Counting
  <2> QED BY <2>1, <2>2
<1>6. OneCounts'
  <2>1. \A p \in Polls : Counting(p)' => Counting(p)
    BY DEF Counting
  <2> QED BY <2>1 DEF BillSound, OneCounts
<1> QED BY <1>2, <1>5, <1>6 DEF BillSound

\* Traffic raises a counter and what was carried by the same amount.
LEMMA TrafficKeeps ==
    ASSUME TypeOK, BillSound, NEW k \in Clients, Traffic(k) PROVE BillSound'
<1> USE DEF TypeOK
<1>a. UNCHANGED <<last, billed, sound, poll>>
  BY DEF Traffic, bill
<1> SUFFICES ASSUME sound PROVE BillSound'
  BY <1>a DEF BillSound
<1>1. ASSUME NEW c \in Clients, NEW n \in Nat
      PROVE  /\ Delta(counter[c], n) \in Nat /\ Delta(counter'[c], n) \in Nat
             /\ Delta(counter'[c], n) - Delta(counter[c], n) <= carried'[c] - carried[c]
  <2>1. /\ counter[c] \in Nat /\ carried[c] \in Nat
        /\ \/ counter'[c] = counter[c] /\ carried'[c] = carried[c]
           \/ counter'[c] = counter[c] + 1 /\ carried'[c] = carried[c] + 1
    BY <1>1 DEF Traffic
  <2> QED BY <1>1, <2>1 DEF Delta
<1>b. carried' \in [Clients -> Nat]
  BY DEF Traffic
<1>2. ASSUME NEW c \in Clients PROVE Charged(c)'
  BY <1>1, <1>2, <1>a, <1>b DEF BillSound, Charged
<1>3. ASSUME NEW p \in Polls, NEW c \in Clients, Pending(p, c) PROVE Pending(p, c)'
  <2>1. poll[p].snap[c] \in Nat
    BY DEF Poll
  <2>2. Delta(poll[p].snap[c], last[c]) \in Nat
    BY <2>1, DeltaFacts
  <2> QED BY <1>1, <1>3, <1>a, <1>b, <2>1, <2>2 DEF Pending
<1>4. ASSUME NEW p \in Polls, NEW c \in Clients, Stale(p, c) PROVE Stale(p, c)'
  <2>1. poll[p].delta \in Nat
    BY DEF Poll
  <2> QED BY <1>1, <1>4, <1>a, <1>b, <2>1 DEF Stale
<1>5. ASSUME NEW p \in Polls PROVE Polling(p)'
  <2>1. poll[p] \in Poll /\ Polling(p)
    BY DEF BillSound
  <2> QED BY <1>3, <1>4, <1>a, <2>1 DEF Polling, Poll, Counting
<1>6. OneCounts'
  BY <1>a DEF BillSound, OneCounts, Counting
<1> QED BY <1>2, <1>5, <1>6 DEF BillSound

\* A deleted sample of a peer whose counter is at zero is not missed.
LEMMA RollupKeeps ==
    ASSUME TypeOK, BillSound, NEW k \in Clients, Rollup(k) PROVE BillSound'
<1> USE DEF TypeOK
<1>a. /\ UNCHANGED <<counter, billed, carried, poll>>
      /\ \A c \in Clients : last'[c] = IF c = k THEN 0 ELSE last[c]
      /\ sound' => sound /\ counter[k] = 0 /\ \A p \in Polls : ~Counting(p)
  BY DEF Rollup
<1> SUFFICES ASSUME sound' PROVE BillSound'
  BY DEF BillSound
<1>1. ASSUME NEW c \in Clients PROVE Charged(c)'
  <2>1. Delta(counter[c], last[c]) \in Nat /\ (c = k => Delta(counter'[c], last'[c]) = 0)
    BY <1>a, DeltaFacts
  <2> QED BY <1>a, <2>1 DEF BillSound, Charged
<1>2. ASSUME NEW p \in Polls PROVE ~Counting(p)'
  BY <1>a DEF Counting
<1>3. ASSUME NEW p \in Polls PROVE Polling(p)'
  BY <1>2 DEF Polling, Counting
<1> QED BY <1>1, <1>2, <1>3 DEF BillSound, OneCounts

LEMMA SyncResets ==
    ASSUME TypeOK, Synced
    PROVE  \A c \in Clients : counter'[c] = counter[c] \/ counter'[c] = 0
BY DEF Synced, TypeOK

\* A tick moves its own state only.
LEMMA OwnStep ==
    ASSUME TypeOK, NEW p \in Polls, NEW from, NEW r, Step(p, from, r)
    PROVE  /\ poll[p].at = from /\ poll'[p] = r
           /\ \A q \in Polls \ {p} : poll'[q] = poll[q]
BY DEF Step, TypeOK

\* The steps of a tick that counts, when no other does.
LEMMA CountKeeps ==
    ASSUME TypeOK, BillSound, NEW p \in Polls,
           \/ Sample(p) \/ InsertSample(p) \/ AddBytes(p)
           \/ \E c \in Clients : ReadLast(p, c)
    PROVE  BillSound'
<1> USE DEF TypeOK
<1>s. \A q \in Polls \ {p} : poll'[q] = poll[q]
  BY DEF Sample, InsertSample, AddBytes, ReadLast, Step
<1>c. sound' => sound /\ \A q \in Polls \ {p} : ~Counting(q)
  <2>1. CASE Sample(p)
    BY <2>1 DEF Sample
  <2>2. CASE ~Sample(p)
    <3>1. Counting(p) /\ sound' = sound
      BY <2>2 DEF InsertSample, AddBytes, ReadLast, Step, Counting, bill
    <3> QED BY <3>1 DEF BillSound, OneCounts
  <2> QED BY <2>1, <2>2
<1> SUFFICES ASSUME sound' PROVE BillSound'
  BY DEF BillSound
<1>0. poll[p] \in Poll /\ Polling(p) /\ \A c \in Clients : Charged(c)
  BY <1>c DEF BillSound
<1>o. ASSUME NEW q \in Polls, q # p PROVE ~Counting(q)' /\ Polling(q)'
  <2>1. ~Counting(q)'
    BY <1>o, <1>c, <1>s DEF Counting
  <2> QED BY <2>1 DEF Polling, Counting
<1>q. ASSUME Polling(p)', \A c \in Clients : Charged(c)' PROVE BillSound'
  BY <1>q, <1>o DEF BillSound, OneCounts
<1>r. ASSUME NEW c \in Clients
      PROVE  /\ counter[c] \in Nat /\ last[c] \in Nat /\ billed[c] \in Nat
             /\ carried[c] \in Nat /\ poll[p].snap[c] \in Nat /\ poll[p].delta \in Nat
             /\ Delta(counter[c], last[c]) \in Nat
             /\ Delta(poll[p].snap[c], last[c]) \in Nat
             /\ Delta(counter[c], poll[p].snap[c]) \in Nat
  BY <1>0, DeltaFacts DEF Poll
<1>1. CASE Sample(p)
  <2>1. /\ UNCHANGED <<counter, last, billed, carried>>
        /\ poll'[p].at = "read" /\ poll'[p].snap = counter
        /\ poll'[p].todo \subseteq Clients
    BY <1>1 DEF Sample, Step, Idle
  <2>2. ASSUME NEW c \in Clients PROVE Charged(c)' /\ Pending(p, c)'
    BY <1>0, <1>r, <2>1, DeltaFacts DEF Charged, Pending
  <2>3. Polling(p)'
    BY <2>1, <2>2 DEF Polling
  <2> QED BY <2>2, <2>3, <1>q
<1>2. ASSUME NEW k \in Clients, ReadLast(p, k) PROVE BillSound'
  <2>1. /\ UNCHANGED <<counter, last, billed, carried>>
        /\ poll'[p].at \in {"read", "insert"} /\ poll'[p].snap = poll[p].snap
        /\ poll'[p].todo = poll[p].todo \ {k} /\ poll'[p].cur = {k}
        /\ poll'[p].delta = Delta(poll[p].snap[k], last[k])
        /\ poll[p].at = "read" /\ k \in poll[p].todo
    BY <1>2, <1>0 DEF ReadLast, Step, Poll, bill
  <2>2. ASSUME NEW c \in Clients PROVE Charged(c)'
    BY <1>0, <2>1 DEF Charged
  <2>3. ASSUME NEW c \in poll[p].todo PROVE Pending(p, c)'
    BY <1>0, <2>1 DEF Pending, Polling, Counting
  <2>4. Polling(p)'
    BY <2>1, <2>3 DEF Polling
  <2> QED BY <2>2, <2>4, <1>q
<1>3. CASE InsertSample(p)
  <2>1. /\ UNCHANGED <<counter, billed, carried>>
        /\ poll[p].at = "insert" /\ poll'[p].at = "credit"
        /\ poll'[p].snap = poll[p].snap /\ poll'[p].todo = poll[p].todo
        /\ poll'[p].cur = poll[p].cur /\ poll'[p].delta = poll[p].delta
        /\ \A c \in Clients : last'[c] = IF c \in poll[p].cur THEN poll[p].snap[c]
                                         ELSE last[c]
    BY <1>3, <1>0 DEF InsertSample, Stored, Step, Poll
  <2>2. ASSUME NEW c \in Clients, c \notin poll[p].cur
        PROVE  Charged(c)' /\ (Pending(p, c) => Pending(p, c)')
    BY <1>0, <2>1, <2>2 DEF Charged, Pending
  <2>3. ASSUME NEW c \in Clients, c \in poll[p].cur PROVE Charged(c)' /\ Stale(p, c)'
    BY <1>0, <1>r, <2>1, <2>3 DEF Charged, Stale, Pending, Polling
  <2>4. Polling(p)'
    BY <1>0, <2>1, <2>2, <2>3 DEF Polling, Poll, Counting
  <2> QED BY <2>2, <2>3, <2>4, <1>q
<1>4. CASE AddBytes(p)
  <2>1. /\ UNCHANGED <<counter, last, carried>>
        /\ poll[p].at = "credit" /\ poll'[p].at = "read"
        /\ poll'[p].snap = poll[p].snap /\ poll'[p].todo = poll[p].todo
        /\ \A c \in Clients : billed'[c] = IF c \in poll[p].cur
                                           THEN billed[c] + poll[p].delta ELSE billed[c]
    BY <1>4, <1>0 DEF AddBytes, Step, Poll
  <2>2. ASSUME NEW c \in Clients, c \notin poll[p].cur
        PROVE  Charged(c)' /\ (Pending(p, c) => Pending(p, c)')
    BY <1>0, <2>1, <2>2 DEF Charged, Pending
  <2>3. ASSUME NEW c \in Clients, c \in poll[p].cur PROVE Charged(c)'
    BY <1>0, <1>r, <2>1, <2>3 DEF Charged, Stale, Polling
  <2>4. Polling(p)'
    BY <1>0, <2>1, <2>2 DEF Polling, Poll, Counting
  <2> QED BY <2>2, <2>3, <2>4, <1>q
<1> QED BY <1>1, <1>2, <1>3, <1>4

\* Its other steps leave the counting to the others.
LEMMA TickKeeps ==
    ASSUME TypeOK, BillSound, NEW p \in Polls, Tick(p) PROVE BillSound'
<1> USE DEF TypeOK
<1>0. poll[p] \in Poll /\ counter \in [Clients -> Nat]
  OBVIOUS
<1>1. CASE \/ Sample(p) \/ InsertSample(p) \/ AddBytes(p)
           \/ \E c \in Clients : ReadLast(p, c)
  BY <1>1, CountKeeps
<1>5. CASE Polled(p) \/ Evaluate(p) \/ ReadFamily(p) \/ DisableFails(p) \/ FamilyDone(p)
           \/ MarkDisabledByQuota(p) \/ \E c \in Clients : ToggleOff(p, c)
  <2>1. UNCHANGED <<bill, carried, counter>>
    BY <1>5 DEF Polled, Evaluate, ReadFamily, DisableFails, FamilyDone,
                MarkDisabledByQuota, ToggleOff
  <2>2. ~Counting(p)'
    <3>i. /\ Idle.at = "idle" /\ [Idle EXCEPT !.at = "evaluate"].at = "evaluate"
          /\ [Idle EXCEPT !.at = "family"].at = "family"
      BY DEF Idle
    <3>p. [poll[p] EXCEPT !.at = "mark"].at = "mark"
          /\ [poll[p] EXCEPT !.at = "toggle", !.todo = enabled].at = "toggle"
      BY <1>0 DEF Poll
    <3>1. CASE Polled(p) \/ Evaluate(p) \/ ReadFamily(p)
      BY <3>1, <3>i, <3>p DEF Polled, Evaluate, ReadFamily, Step, Counting
    <3>2. CASE FamilyDone(p) \/ MarkDisabledByQuota(p)
      BY <3>2, <3>i, <3>p DEF FamilyDone, MarkDisabledByQuota, Step, Counting
    <3>4. CASE DisableFails(p)
      BY <3>4, <1>0 DEF DisableFails, Step, Poll, Counting
    <3>3. CASE \E c \in Clients : ToggleOff(p, c)
      BY <3>3, <1>0 DEF ToggleOff, Step, Poll, Counting
    <3> QED BY <1>5, <3>1, <3>2, <3>3, <3>4
  <2>3. \A q \in Polls : poll'[q] = poll[q] \/ ~Counting(q)'
    BY <1>5, <2>2 DEF Polled, Evaluate, ReadFamily, DisableFails, FamilyDone,
                      MarkDisabledByQuota, ToggleOff, Step
  <2> QED BY <2>1, <2>3, <1>0, ResetKeeps
<1>6. CASE DisablePeer(p)
  <2>1. UNCHANGED <<bill, carried>> /\ Synced
    BY <1>6 DEF DisablePeer
  <2>2. \A q \in Polls : poll'[q] = poll[q] \/ ~Counting(q)'
    BY <1>6, <1>0 DEF DisablePeer, Step, Poll, Counting
  <2> QED BY <2>1, <2>2, SyncResets, SyncTyped, ResetKeeps
<1> QED BY <1>1, <1>5, <1>6 DEF Tick

LEMMA NextBill == ASSUME TypeOK, BillSound, [Next]_vars PROVE BillSound'
<1>1. CASE UNCHANGED vars
  <2>1. UNCHANGED <<bill, carried, counter, poll>>
    BY <1>1 DEF vars
  <2> QED BY <2>1, ResetKeeps DEF TypeOK
<1>2. ASSUME NEW p \in Polls, Tick(p) PROVE BillSound'
  BY <1>2, TickKeeps
<1>3. ASSUME NEW c \in Clients, Traffic(c) PROVE BillSound'
  BY <1>3, TrafficKeeps
<1>4. ASSUME NEW c \in Clients, Rollup(c) PROVE BillSound'
  BY <1>4, RollupKeeps
<1>5. CASE Reconcile
  <2>1. UNCHANGED <<bill, carried, poll>> /\ Synced
    BY <1>5 DEF Reconcile
  <2> QED BY <2>1, SyncResets, SyncTyped, ResetKeeps
<1>6. CASE Crash
  <2>1. /\ UNCHANGED <<bill, carried>> /\ counter' = [c \in Clients |-> 0]
        /\ \A p \in Polls : ~Counting(p)'
    BY <1>6, IdlePoll DEF Crash, Counting
  <2> QED BY <2>1, ResetKeeps
<1>7. CASE NextPeriod \/ FindExpired \/ ResetPeriod \/ DeleteQuota
           \/ (\E l \in Limits, a \in BOOLEAN : SetQuota(l, a))
           \/ (\E c \in Clients : Request(c))
  <2>1. UNCHANGED <<bill, carried, counter, poll>>
    BY <1>7 DEF NextPeriod, FindExpired, ResetPeriod, DeleteQuota, SetQuota, Request,
                Create, CheckQuota, Enable
  <2> QED BY <2>1, ResetKeeps DEF TypeOK
<1> QED BY <1>1, <1>2, <1>3, <1>4, <1>5, <1>6, <1>7 DEF Next

LEMMA InitBill == Init => BillSound
<1> SUFFICES ASSUME Init PROVE BillSound
  OBVIOUS
<1>1. ASSUME NEW c \in Clients PROVE Charged(c)
  <2>1. counter[c] = 0 /\ last[c] = 0 /\ billed[c] = 0 /\ carried[c] = 0
    BY DEF Init
  <2>2. Delta(0, 0) = 0
    BY DEF Delta
  <2> QED BY <2>1, <2>2 DEF Charged
<1>2. ASSUME NEW p \in Polls PROVE ~Counting(p)
  BY IdlePoll DEF Init, Counting
<1>3. \A p \in Polls : Polling(p)
  BY <1>2, NotCounting
<1> QED BY <1>1, <1>2, <1>3 DEF BillSound, OneCounts

\* No family is charged for more than its clients carried, however polls, resets
\* of the counters, restarts, periods, rollups and requests interleave, as long
\* as the two known causes of a double count did not occur.
THEOREM BillCorrect == Spec => []NeverOverbilled
<1>1. Init => TypeOK /\ BillSound
  BY InitTyped, InitBill
<1>2. TypeOK /\ BillSound /\ [Next]_vars => TypeOK' /\ BillSound'
  BY NextTyped, NextBill
<1>3. TypeOK /\ BillSound => NeverOverbilled
  BY ChargedEnough
<1> QED BY <1>1, <1>2, <1>3, PTL DEF Spec

-----------------------------------------------------------------------------
(* The mark, while no period ends and nobody changes the allowance: what the *)
(* evaluator has still to switch off is on its list, and a client that came  *)
(* after the list was read meets the check of its own request.               *)

Undisturbed == Events \cap {"set", "delete", "period"} = {}

Switching(p) == poll[p].at \in {"toggle", "engine", "mark"}
Caught(todo) == enabled \subseteq todo \cup creating \cup strays

Evaluating(p) ==
  /\ poll[p].at = "family" => Exhausted
  /\ Switching(p) => Exhausted /\ Caught(poll[p].todo)
  /\ poll[p].at = "mark" => poll[p].todo = {}

MarkSound ==
  /\ quota.period = clock /\ ~resetting
  /\ quota.marked => Exhausted /\ Caught({})
  /\ \A p \in Polls : Evaluating(p)

\* Used bytes only grow within a period.
LEMMA StaysExhausted ==
    ASSUME TypeOK, Exhausted, quota'.used \in Nat, quota.used <= quota'.used,
           quota'.exists = quota.exists, quota'.auto = quota.auto, quota'.limit = quota.limit
    PROVE  Exhausted'
<1>1. quota.used \in Nat /\ quota.limit \in Nat
  BY BoundsAssumption DEF TypeOK, Quota
<1> QED BY <1>1 DEF Exhausted

\* Steps after which the list of no tick has grown shorter and no client is
\* enabled that is neither on its way to the check nor known to be missed.
LEMMA MarkKeeps ==
    ASSUME TypeOK, TypeOK', MarkSound, UNCHANGED <<clock, resetting>>,
           quota.used <= quota'.used,
           quota' = [quota EXCEPT !.used = quota'.used],
           enabled' \subseteq enabled \cup creating' \cup strays',
           strays \subseteq strays',
           \A c \in creating \ creating' : c \in enabled' => ~Exhausted,
           \A p \in Polls : poll'[p] = poll[p] \/ Evaluating(p)'
    PROVE  MarkSound'
<1>q. quota \in Quota /\ quota' \in Quota
  BY DEF TypeOK
<1>1. /\ quota'.exists = quota.exists /\ quota'.auto = quota.auto /\ quota'.limit = quota.limit
      /\ quota'.marked = quota.marked /\ quota'.period = quota.period /\ quota'.used \in Nat
  BY <1>q DEF Quota
<1>2. Exhausted => Exhausted'
  BY <1>1, StaysExhausted
<1>3. ASSUME NEW todo, Exhausted, Caught(todo) PROVE Caught(todo)'
  BY <1>3 DEF Caught
<1>4. ASSUME NEW p \in Polls PROVE Evaluating(p)'
  <2>1. CASE poll'[p] = poll[p]
    <3>1. Evaluating(p)
      BY DEF MarkSound
    <3>2. PICK t : t = poll[p]
      OBVIOUS
    <3> QED BY <1>2, <1>3, <2>1, <3>1, <3>2 DEF Evaluating, Switching, Caught
  <2> QED BY <1>4, <2>1
<1>5. Caught({}) /\ Exhausted => Caught({})'
  BY <1>3 DEF Caught
<1> QED BY <1>1, <1>2, <1>4, <1>5 DEF MarkSound

LEMMA TickMarks ==
    ASSUME TypeOK, TypeOK', MarkSound, NEW p \in Polls, Tick(p)
    PROVE  MarkSound'
<1>0. poll[p] \in Poll /\ quota \in Quota /\ quota' \in Quota /\ Evaluating(p)
  BY DEF TypeOK, MarkSound
<1>o. \A q \in Polls \ {p} : poll'[q] = poll[q]
  <2>1. CASE Sample(p) \/ InsertSample(p) \/ AddBytes(p) \/ Polled(p) \/ Evaluate(p)
    BY <2>1, OwnStep DEF Sample, InsertSample, AddBytes, Polled, Evaluate
  <2>2. CASE ReadFamily(p) \/ DisablePeer(p) \/ DisableFails(p) \/ FamilyDone(p)
             \/ MarkDisabledByQuota(p)
    BY <2>2, OwnStep DEF ReadFamily, DisablePeer, DisableFails, FamilyDone, MarkDisabledByQuota
  <2>3. CASE \E c \in Clients : ReadLast(p, c) \/ ToggleOff(p, c)
    BY <2>3, OwnStep DEF ReadLast, ToggleOff
  <2> QED BY <2>1, <2>2, <2>3 DEF Tick
<1>k. ASSUME UNCHANGED <<clock, resetting, strays, creating>>,
             quota' = quota, enabled' \subseteq enabled, Evaluating(p)'
      PROVE  MarkSound'
  <2>1. quota' = [quota EXCEPT !.used = quota'.used] /\ quota.used <= quota'.used
    BY <1>k, <1>0 DEF Quota
  <2> QED BY <1>k, <1>o, <2>1, MarkKeeps
<1>1. CASE Sample(p) \/ InsertSample(p) \/ Polled(p) \/ \E c \in Clients : ReadLast(p, c)
  <2>1. UNCHANGED <<clock, resetting, family, creating, quota>>
    BY <1>1 DEF Sample, InsertSample, Polled, ReadLast
  <2>2. poll'[p].at \in {"read", "insert", "credit", "evaluate"}
    <3>1. CASE Sample(p)
      BY <3>1 DEF Sample, Step, Idle, TypeOK
    <3>2. CASE InsertSample(p)
      BY <3>2, <1>0 DEF InsertSample, Step, Poll, TypeOK
    <3>3. CASE Polled(p)
      BY <3>3, OwnStep DEF Polled, Idle
    <3>4. ASSUME NEW c \in Clients, ReadLast(p, c)
          PROVE  poll'[p].at \in {"read", "insert"}
      BY <3>4, <1>0 DEF ReadLast, Step, Poll, TypeOK
    <3> QED BY <1>1, <3>1, <3>2, <3>3, <3>4
  <2>3. Evaluating(p)'
    BY <2>2 DEF Evaluating, Switching
  <2> QED BY <1>k, <2>1, <2>3 DEF family
<1>2. CASE AddBytes(p)
  <2>1. UNCHANGED <<clock, resetting, family, creating>>
    BY <1>2 DEF AddBytes
  <2>2. poll'[p].at = "read"
    BY <1>2, <1>0 DEF AddBytes, Step, Poll, TypeOK
  <2>3. Evaluating(p)'
    BY <2>2 DEF Evaluating, Switching
  <2>4. quota' = [quota EXCEPT !.used = quota'.used] /\ quota.used <= quota'.used
    <3>1. poll[p].delta \in Nat /\ quota.used \in Nat
      BY <1>0 DEF Poll, Quota
    <3> QED BY <1>2, <1>0, <3>1 DEF AddBytes, Quota
  <2> QED BY <1>o, <2>1, <2>3, <2>4, MarkKeeps DEF family
<1>3. CASE Evaluate(p)
  <2>1. UNCHANGED <<clock, resetting, family, creating, quota>>
    BY <1>3 DEF Evaluate
  <2>2. \/ OverLimit /\ poll'[p].at = "family"
        \/ poll'[p].at = "idle"
    BY <1>3, IdlePoll DEF Evaluate, Step, Poll, TypeOK
  <2>3. Evaluating(p)'
    BY <2>1, <2>2 DEF Evaluating, Switching, OverLimit, Exhausted
  <2> QED BY <1>k, <2>1, <2>3 DEF family
<1>4. CASE ReadFamily(p)
  <2>1. UNCHANGED <<clock, resetting, family, creating, quota>> /\ poll[p].at = "family"
    BY <1>4 DEF ReadFamily, Step
  <2>2. \/ poll'[p].at = "idle"
        \/ poll'[p].at = "toggle" /\ poll'[p].todo = enabled
    BY <1>4, <1>0, IdlePoll DEF ReadFamily, Step, Poll, TypeOK
  <2>3. Evaluating(p)'
    BY <1>0, <2>1, <2>2 DEF Evaluating, Switching, Exhausted, Caught, family
  <2> QED BY <1>k, <2>1, <2>3 DEF family
<1>5. ASSUME NEW c \in Clients, ToggleOff(p, c) PROVE MarkSound'
  <2>1. /\ UNCHANGED <<clock, resetting, strays, creating, quota>>
        /\ enabled' = enabled \ {c} /\ poll[p].at = "toggle"
    BY <1>5 DEF ToggleOff, Step
  <2>2. poll'[p].at = "engine" /\ poll'[p].todo = poll[p].todo \ {c}
    BY <1>5, <1>0 DEF ToggleOff, Step, Poll, TypeOK
  <2>3. Evaluating(p)'
    BY <1>0, <2>1, <2>2 DEF Evaluating, Switching, Exhausted, Caught
  <2> QED BY <1>k, <2>1, <2>3
<1>6. CASE DisablePeer(p) \/ DisableFails(p)
  <2>1. UNCHANGED <<clock, resetting, family, creating, quota>> /\ poll[p].at = "engine"
    BY <1>6 DEF DisablePeer, DisableFails, Step
  <2>2. poll'[p].at = "toggle" /\ poll'[p].todo = poll[p].todo
    <3>1. CASE DisablePeer(p)
      BY <3>1, <1>0 DEF DisablePeer, Step, Poll, TypeOK
    <3>2. CASE DisableFails(p)
      BY <3>2, <1>0 DEF DisableFails, Step, Poll, TypeOK
    <3> QED BY <1>6, <3>1, <3>2
  <2>3. Evaluating(p)'
    BY <1>0, <2>1, <2>2 DEF Evaluating, Switching, Exhausted, Caught, family
  <2> QED BY <1>k, <2>1, <2>3 DEF family
<1>7. CASE FamilyDone(p)
  <2>1. /\ UNCHANGED <<clock, resetting, family, creating, quota>>
        /\ poll[p].at = "toggle" /\ poll[p].todo = {}
    BY <1>7 DEF FamilyDone, Step
  <2>2. \/ poll'[p].at = "idle"
        \/ poll'[p].at = "mark" /\ poll'[p].todo = poll[p].todo
    BY <1>7, <1>0, IdlePoll DEF FamilyDone, Step, Poll, TypeOK
  <2>3. Evaluating(p)'
    BY <1>0, <2>1, <2>2 DEF Evaluating, Switching, Exhausted, Caught, family
  <2> QED BY <1>k, <2>1, <2>3 DEF family
<1>8. CASE MarkDisabledByQuota(p)
  <2>1. UNCHANGED <<clock, resetting, family, creating>> /\ poll[p].at = "mark"
    BY <1>8 DEF MarkDisabledByQuota, Step
  <2>2. Exhausted /\ Caught({})
    BY <1>0, <2>1 DEF Evaluating, Switching
  <2>3. quota'.period = quota.period /\ Exhausted'
    BY <1>8, <1>0, <2>2 DEF MarkDisabledByQuota, Quota, Exhausted
  <2>4. poll'[p].at = "idle"
    BY <1>8, IdlePoll DEF MarkDisabledByQuota, Step, TypeOK
  <2>5. ASSUME NEW q \in Polls PROVE Evaluating(q)'
    <3>1. CASE q = p
      BY <2>4, <3>1 DEF Evaluating, Switching
    <3>2. CASE q # p
      <4>1. poll'[q] = poll[q] /\ Evaluating(q)
        BY <1>o, <3>2 DEF MarkSound
      <4> QED BY <2>1, <2>3, <4>1 DEF Evaluating, Switching, Caught, family
    <3> QED BY <3>1, <3>2
  <2> QED BY <2>1, <2>2, <2>3, <2>5 DEF MarkSound, Caught, family
<1> QED BY <1>1, <1>2, <1>3, <1>4, <1>5, <1>6, <1>7, <1>8 DEF Tick

LEMMA NextMarks ==
    ASSUME Undisturbed, TypeOK, TypeOK', MarkSound, [Next]_vars
    PROVE  MarkSound'
<1>0. quota \in Quota /\ quota' \in Quota
  BY DEF TypeOK
<1>k. ASSUME UNCHANGED <<clock, resetting, quota, poll>>, strays \subseteq strays',
             enabled' \subseteq enabled \cup creating' \cup strays',
             \A c \in creating \ creating' : c \in enabled' => ~Exhausted
      PROVE  MarkSound'
  <2>1. quota' = [quota EXCEPT !.used = quota'.used] /\ quota.used <= quota'.used
    BY <1>k, <1>0 DEF Quota
  <2> QED BY <1>k, <2>1, MarkKeeps
<1>1. CASE \/ UNCHANGED vars \/ Reconcile
           \/ \E c \in Clients : Traffic(c) \/ Rollup(c)
  <2>1. UNCHANGED <<clock, resetting, quota, poll, family, creating>>
    BY <1>1 DEF vars, Reconcile, Traffic, Rollup
  <2> QED BY <1>k, <2>1 DEF family
<1>2. ASSUME NEW p \in Polls, Tick(p) PROVE MarkSound'
  BY <1>2, TickMarks
<1>3. ASSUME NEW c \in Clients, Create(c) PROVE MarkSound'
  BY <1>3, <1>k DEF Create
<1>4. ASSUME NEW c \in Clients, CheckQuota(c) PROVE MarkSound'
  BY <1>4, <1>k DEF CheckQuota, Admitted
<1>5. ASSUME NEW c \in Clients, Enable(c) PROVE MarkSound'
  <2>1. /\ UNCHANGED <<clock, resetting, quota, poll, creating>>
        /\ enabled' = enabled \cup {c} /\ strays \subseteq strays'
        /\ Blind => c \in strays'
    BY <1>5 DEF Enable
  <2>2. CASE Blind
    BY <1>k, <2>1, <2>2
  <2>3. CASE ~Blind
    <3>1. ~quota.marked /\ \A p \in Polls : ~Switching(p)
      BY <2>3 DEF Blind, Switching
    <3> QED BY <2>1, <3>1 DEF MarkSound, Evaluating, Switching, Exhausted
  <2> QED BY <2>2, <2>3
<1>6. CASE \/ NextPeriod \/ DeleteQuota \/ FindExpired \/ ResetPeriod
           \/ \E l \in Limits, a \in BOOLEAN : SetQuota(l, a)
  <2>1. ~NextPeriod /\ ~DeleteQuota /\ \A l \in Limits, a \in BOOLEAN : ~SetQuota(l, a)
    BY DEF Undisturbed, NextPeriod, DeleteQuota, SetQuota, Happens
  <2>2. ~ResetPeriod
    BY DEF MarkSound, ResetPeriod
  <2>3. ~FindExpired
    <3>1. clock \in Nat /\ quota.period = clock
      BY DEF MarkSound, TypeOK
    <3> QED BY <3>1 DEF FindExpired
  <2> QED BY <1>6, <2>1, <2>2, <2>3
<1>7. CASE Crash
  <2>1. /\ UNCHANGED <<clock, quota, enabled>> /\ resetting' = FALSE
        /\ quota.marked => strays' = strays \cup creating
        /\ \A p \in Polls : poll'[p].at = "idle"
    BY <1>7, IdlePoll DEF Crash
  <2>2. \A p \in Polls : Evaluating(p)'
    BY <2>1 DEF Evaluating, Switching
  <2>3. quota'.marked => Exhausted' /\ Caught({})'
    BY <2>1 DEF MarkSound, Exhausted, Caught
  <2> QED BY <2>1, <2>2, <2>3 DEF MarkSound
<1> QED BY <1>1, <1>2, <1>3, <1>4, <1>5, <1>6, <1>7 DEF Next, Request

LEMMA InitMarks == Init => MarkSound
<1> SUFFICES ASSUME Init PROVE MarkSound
  OBVIOUS
<1>1. \A p \in Polls : Evaluating(p)
  BY IdlePoll DEF Init, Evaluating, Switching
<1> QED BY <1>1 DEF Init, MarkSound

LEMMA MarkEnough == MarkSound => MarkedIsOff
BY DEF MarkSound, Caught, MarkedIsOff

\* A family that is marked as disabled has no enabled client but those the code
\* cannot have caught: one that an administrator enabled after the family was
\* read, or one whose request a crash cut off before its check; whatever ticks,
\* creations, failing engine calls and crashes come between, while no period
\* ends and nobody changes the allowance.
THEOREM MarkCorrect == ASSUME Undisturbed PROVE AllSpec => []MarkedFamilyOff
<1> DEFINE Inv == part = "enforce" => TypeOK /\ MarkSound
<1>1. AllInit => Inv
  BY InitTyped, InitMarks DEF AllInit
<1>2. Inv /\ [AllNext]_<<vars, part>> => Inv'
  <2> SUFFICES ASSUME Inv, [AllNext]_<<vars, part>>, part' = "enforce" PROVE Inv'
    OBVIOUS
  <2>1. part = "enforce" /\ [Next]_vars
    BY DEF AllNext, Enforcing
  <2>2. TypeOK'
    BY <2>1, NextTyped
  <2> QED BY <2>1, <2>2, NextMarks
<1>3. Inv => MarkedFamilyOff
  BY MarkEnough DEF MarkedFamilyOff
<1> QED BY <1>1, <1>2, <1>3, PTL DEF AllSpec
=============================================================================
