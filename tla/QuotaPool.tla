------------------------------ MODULE QuotaPool ------------------------------
(* The data allowance of one family: a root user, its sub-accounts and all   *)
(* the clients they own share one user_quota row.  Every minute a tick polls *)
(* the interface's transfer counters, turns them into deltas against the     *)
(* last stored sample, adds them to the row, and then switches off the       *)
(* clients of a family that is over its limit.  A second timer opens a new   *)
(* period.  Each action is the code between two awaits.                      *)
(*                                                                           *)
(* Polls are the ticks that may be under way at once: setInterval starts one *)
(* every minute, whether or not the one before has ended.  A counter stands  *)
(* for either direction (rx, tx), which the code treats alike.  Syncs of the *)
(* interface are atomic here (PeerSync has their interleavings).             *)
EXTENDS Integers

CONSTANTS
  Clients,      \* the clients the family may have
  Polls,        \* poll ticks that may overlap
  Limits,       \* the limits an administrator may set
  Events,       \* the optional events a run exercises
  MaxEvents,    \* bound on these events
  MaxTraffic,   \* bound on the units of traffic of a client
  MaxPeriods    \* bound on the periods

ASSUME BoundsAssumption ==
  /\ Limits \subseteq Nat
  /\ MaxEvents \in Nat /\ MaxTraffic \in Nat /\ MaxPeriods \in Nat

VARIABLES
  counter,      \* kernel: bytes of each peer since it joined the interface
  live,         \* kernel: the peers of the interface
  rows,         \* clients_table: the clients that exist
  enabled,      \* clients_table: those with enabled = true
  strays,       \* history: clients that came on when the evaluator could not see it
  last,         \* usage_sample: the newest sample of each client, 0 if none
  quota,        \* user_quota: the row of the root user
  clock,        \* the current period
  poll,         \* the state of each poll tick
  resetting,    \* the resetter has read an expired row
  creating,     \* requests between the insert of a client and the quota check
  carried,      \* history: bytes each peer ever carried
  billed,       \* history: bytes ever counted for each client
  sound,        \* history: no two polls counted at once, no baseline was deleted
  spent         \* events so far

family == <<rows, enabled, strays>>
bill   == <<last, billed, sound>>
vars   == <<counter, live, family, bill, quota, clock, poll, resetting,
            creating, carried, spent>>

Quota == [exists : BOOLEAN, limit : Limits, auto : BOOLEAN, used : Nat,
          marked : BOOLEAN, period : Nat]

Ats  == {"idle", "read", "insert", "credit", "evaluate", "family", "toggle",
         "engine", "mark"}
Poll == [at : Ats, snap : [Clients -> Nat], todo : SUBSET Clients,
         cur : SUBSET Clients, delta : Nat, any : BOOLEAN]

Idle == [at |-> "idle", snap |-> [c \in Clients |-> 0], todo |-> {}, cur |-> {},
         delta |-> 0, any |-> FALSE]

Init ==
  /\ \E S \in SUBSET Clients, l \in Limits :
       /\ rows = S /\ enabled = S /\ live = S /\ strays = {}
       /\ quota = [exists |-> TRUE, limit |-> l, auto |-> TRUE, used |-> 0,
                   marked |-> FALSE, period |-> 0]
  /\ counter = [c \in Clients |-> 0] /\ last = [c \in Clients |-> 0]
  /\ carried = [c \in Clients |-> 0] /\ billed = [c \in Clients |-> 0]
  /\ poll = [p \in Polls |-> Idle]
  /\ resetting = FALSE /\ creating = {} /\ clock = 0 /\ spent = 0 /\ sound = TRUE

\* An optional event of the run.
Happens(e) == e \in Events /\ spent < MaxEvents /\ spent' = spent + 1

Step(p, from, r) == poll[p].at = from /\ poll' = [poll EXCEPT ![p] = r]

(***************************************************************************)
(* The interface.                                                          *)
(***************************************************************************)

Traffic(c) ==
  /\ c \in live /\ carried[c] < MaxTraffic
  /\ counter' = [counter EXCEPT ![c] = @ + 1]
  /\ carried' = [carried EXCEPT ![c] = @ + 1]
  /\ UNCHANGED <<live, family, bill, quota, clock, poll, resetting, creating, spent>>

\* A full sync: the enabled clients become the peers.  A peer that leaves
\* loses its counter; one that stays keeps it.
Synced ==
  /\ live' = enabled
  /\ counter' = [c \in Clients |-> IF c \in live \cap enabled THEN counter[c] ELSE 0]

\* A sync by the reconciler, the cron job or the handler that made a change.
Reconcile ==
  /\ Synced
  /\ UNCHANGED <<family, bill, quota, clock, poll, resetting, creating, carried, spent>>

(***************************************************************************)
(* The poll.                                                               *)
(***************************************************************************)

Counting(p) == poll[p].at \in {"read", "insert", "credit"}

\* engine.sampleUsage and the list of clients.
Sample(p) ==
  /\ Step(p, "idle", [Idle EXCEPT !.at = "read", !.snap = counter,
                                  !.todo = live \cap rows])
  /\ sound' = (sound /\ \A q \in Polls \ {p} : ~Counting(q))
  /\ UNCHANGED <<counter, live, family, last, billed, quota, clock, resetting, creating,
                 carried, spent>>

\* What a peer carried since its last sample; a smaller counter was reset.
Delta(new, old) == IF new < old THEN new ELSE new - old

\* The last sample of the next client: nothing is stored when nothing moved.
ReadLast(p, c) ==
  LET d == Delta(poll[p].snap[c], last[c]) IN
  /\ c \in poll[p].todo
  /\ Step(p, "read", [poll[p] EXCEPT !.todo = @ \ {c}, !.cur = {c}, !.delta = d,
                                     !.at = IF d > 0 THEN "insert" ELSE "read"])
  /\ UNCHANGED <<counter, live, family, bill, quota, clock, resetting, creating,
                 carried, spent>>

\* The newest sample of each client; mutant: it is not stored.
NotStored(p) == last
Stored(p)    == [c \in Clients |->
                   IF c \in poll[p].cur THEN poll[p].snap[c] ELSE last[c]]

InsertSample(p) ==
  /\ Step(p, "insert", [poll[p] EXCEPT !.at = "credit"])
  /\ last' = Stored(p)
  /\ UNCHANGED <<counter, live, family, quota, clock, resetting, creating, billed,
                 sound, carried, spent>>

\* addBytes: an atomic increment of the root user's row, if there is one.
AddBytes(p) ==
  /\ Step(p, "credit", [poll[p] EXCEPT !.at = "read"])
  /\ quota' = IF quota.exists THEN [quota EXCEPT !.used = @ + poll[p].delta] ELSE quota
  /\ billed' = [c \in Clients |->
                  IF c \in poll[p].cur THEN billed[c] + poll[p].delta ELSE billed[c]]
  /\ UNCHANGED <<counter, live, family, last, sound, clock, resetting, creating,
                 carried, spent>>

Polled(p) ==
  /\ poll[p].todo = {}
  /\ Step(p, "read", [Idle EXCEPT !.at = "evaluate"])
  /\ UNCHANGED <<counter, live, family, bill, quota, clock, resetting, creating,
                 carried, spent>>

(***************************************************************************)
(* The evaluator, in the same tick.                                        *)
(***************************************************************************)

Exhausted == quota.exists /\ quota.auto /\ quota.used >= quota.limit

\* findOverLimit: not marked yet, and the row's period is the current one.
\* Mutant: one byte more than the limit.
OverByOne == Exhausted /\ quota.used > quota.limit /\ ~quota.marked /\ quota.period = clock
OverLimit == Exhausted /\ ~quota.marked /\ quota.period = clock

Evaluate(p) ==
  /\ Step(p, "evaluate", IF OverLimit THEN [Idle EXCEPT !.at = "family"] ELSE Idle)
  /\ UNCHANGED <<counter, live, family, bill, quota, clock, resetting, creating,
                 carried, spent>>

\* The enabled clients of every member of the family.
ReadFamily(p) ==
  /\ Step(p, "family", IF enabled = {} THEN Idle
                       ELSE [poll[p] EXCEPT !.at = "toggle", !.todo = enabled])
  /\ UNCHANGED <<counter, live, family, bill, quota, clock, resetting, creating,
                 carried, spent>>

ToggleOff(p, c) ==
  /\ c \in poll[p].todo
  /\ Step(p, "toggle", [poll[p] EXCEPT !.at = "engine", !.todo = @ \ {c},
                                       !.cur = {c}])
  /\ enabled' = enabled \ {c}
  /\ UNCHANGED <<counter, live, rows, strays, bill, quota, clock, resetting, creating,
                 carried, spent>>

DisablePeer(p) ==
  /\ Step(p, "engine", [poll[p] EXCEPT !.at = "toggle", !.any = TRUE])
  /\ Synced
  /\ UNCHANGED <<family, bill, quota, clock, resetting, creating, carried, spent>>

\* The engine throws; the loop logs the client and goes on.
DisableFails(p) ==
  /\ Happens("fail")
  /\ Step(p, "engine", [poll[p] EXCEPT !.at = "toggle"])
  /\ UNCHANGED <<counter, live, family, bill, quota, clock, resetting, creating,
                 carried>>

FamilyDone(p) ==
  /\ poll[p].todo = {}
  /\ Step(p, "toggle", IF poll[p].any THEN [poll[p] EXCEPT !.at = "mark"] ELSE Idle)
  /\ UNCHANGED <<counter, live, family, bill, quota, clock, resetting, creating,
                 carried, spent>>

MarkDisabledByQuota(p) ==
  /\ Step(p, "mark", Idle)
  /\ quota' = IF quota.exists THEN [quota EXCEPT !.marked = TRUE] ELSE quota
  /\ UNCHANGED <<counter, live, family, bill, clock, resetting, creating, carried,
                 spent>>

Tick(p) ==
  \/ Sample(p) \/ (\E c \in Clients : ReadLast(p, c)) \/ InsertSample(p)
  \/ AddBytes(p) \/ Polled(p) \/ Evaluate(p) \/ ReadFamily(p)
  \/ (\E c \in Clients : ToggleOff(p, c)) \/ DisablePeer(p) \/ DisableFails(p)
  \/ FamilyDone(p) \/ MarkDisabledByQuota(p)

(***************************************************************************)
(* The periods.                                                            *)
(***************************************************************************)

NextPeriod ==
  /\ "period" \in Events /\ clock < MaxPeriods /\ clock' = clock + 1
  /\ UNCHANGED <<counter, live, family, bill, quota, poll, resetting, creating,
                 carried, spent>>

\* findExpiredPeriods and the second read in resetPeriodIfNeeded.
FindExpired ==
  /\ ~resetting /\ quota.exists /\ quota.period < clock
  /\ resetting' = TRUE
  /\ UNCHANGED <<counter, live, family, bill, quota, clock, poll, creating, carried,
                 spent>>

FreshPeriod == [quota EXCEPT !.used = 0, !.marked = FALSE, !.period = clock]

ResetPeriod ==
  /\ resetting /\ resetting' = FALSE
  /\ quota' = IF quota.exists THEN FreshPeriod ELSE quota
  /\ UNCHANGED <<counter, live, family, bill, clock, poll, creating, carried, spent>>

(***************************************************************************)
(* Requests.                                                               *)
(***************************************************************************)

\* A client of the family is created, enabled by default ...
Create(c) ==
  /\ Happens("create") /\ c \notin rows
  /\ rows' = rows \union {c} /\ enabled' = enabled \union {c}
  /\ creating' = creating \union {c}
  /\ UNCHANGED <<counter, live, strays, bill, quota, clock, poll, resetting, carried>>

\* ... and switched off before its sync when the family is over its limit.
\* Mutant: without the check.
AdmitAll(c) == enabled
Admitted(c) == IF Exhausted THEN enabled \ {c} ELSE enabled

CheckQuota(c) ==
  /\ c \in creating /\ creating' = creating \ {c}
  /\ enabled' = Admitted(c)
  /\ UNCHANGED <<counter, live, rows, strays, bill, quota, clock, poll, resetting,
                 carried, spent>>

\* The family is marked, or its list has been read.
Blind == quota.marked \/ \E p \in Polls : poll[p].at \in {"toggle", "engine", "mark"}

\* An administrator enables a client; the sync behind it is Reconcile.
Enable(c) ==
  /\ Happens("enable") /\ c \in rows \ enabled
  /\ enabled' = enabled \union {c}
  /\ strays' = IF Blind THEN strays \union {c} ELSE strays
  /\ UNCHANGED <<counter, live, rows, bill, quota, clock, poll, resetting, creating,
                 carried>>

\* setForUser: an existing row keeps its usage and its mark.
SetQuota(l, a) ==
  /\ Happens("set")
  /\ quota' = IF quota.exists
              THEN [quota EXCEPT !.limit = l, !.auto = a, !.period = clock]
              ELSE [exists |-> TRUE, limit |-> l, auto |-> a, used |-> 0,
                    marked |-> FALSE, period |-> clock]
  /\ UNCHANGED <<counter, live, family, bill, clock, poll, resetting, creating,
                 carried>>

DeleteQuota ==
  /\ Happens("delete") /\ quota.exists
  /\ quota' = [quota EXCEPT !.exists = FALSE]
  /\ UNCHANGED <<counter, live, family, bill, clock, poll, resetting, creating,
                 carried>>

(***************************************************************************)
(* The rollup and the process.                                             *)
(***************************************************************************)

\* Samples older than seven days are deleted.  The newest one is that old when
\* the peer is off the interface or was silent since; in the second case it is
\* the baseline of the next difference.
Rollup(c) ==
  /\ Happens("rollup") /\ last[c] > 0
  /\ c \in live => counter[c] = last[c]
  /\ last' = [last EXCEPT ![c] = 0]
  /\ sound' = (sound /\ counter[c] = 0 /\ \A p \in Polls : ~Counting(p))
  /\ UNCHANGED <<counter, live, family, quota, clock, poll, resetting, creating,
                 billed, carried>>

\* The process ends and comes back: wg-quick starts the interface afresh.  A
\* request under way does not come to its check of the quota.
Crash ==
  /\ Happens("crash")
  /\ poll' = [p \in Polls |-> Idle] /\ resetting' = FALSE /\ creating' = {}
  /\ live' = enabled /\ counter' = [c \in Clients |-> 0]
  /\ strays' = IF quota.marked THEN strays \union creating ELSE strays
  /\ UNCHANGED <<rows, enabled, bill, quota, clock, carried>>

Request(c) == Create(c) \/ CheckQuota(c) \/ Enable(c)

Next ==
  \/ \E p \in Polls : Tick(p)
  \/ \E c \in Clients : Traffic(c) \/ Request(c) \/ Rollup(c)
  \/ \E l \in Limits, a \in BOOLEAN : SetQuota(l, a)
  \/ Reconcile \/ NextPeriod \/ FindExpired \/ ResetPeriod \/ DeleteQuota \/ Crash

Spec == Init /\ [][Next]_vars

\* Timers keep firing and awaits return; nothing makes an engine call fail.
Fairness ==
  /\ \A p \in Polls : WF_vars(Tick(p))
  /\ WF_vars(Reconcile) /\ WF_vars(FindExpired) /\ WF_vars(ResetPeriod)
  /\ \A c \in Clients : WF_vars(CheckQuota(c))

FairSpec == Spec /\ Fairness

-----------------------------------------------------------------------------
(* Properties.                                                             *)

\* Shapes; a tick works on at most one client, a delta is only carried between
\* reading the last sample and counting it, and only rows are peers.
TypeOK ==
  /\ counter \in [Clients -> Nat] /\ last \in [Clients -> Nat]
  /\ carried \in [Clients -> Nat] /\ billed \in [Clients -> Nat]
  /\ rows \subseteq Clients /\ enabled \subseteq rows /\ live \subseteq rows
  /\ quota \in Quota /\ clock \in Nat
  /\ poll \in [Polls -> Poll]
  /\ resetting \in BOOLEAN /\ creating \subseteq rows /\ spent \in Nat
  /\ sound \in BOOLEAN /\ strays \subseteq Clients

\* A family is never charged for bytes its clients did not carry, across resets
\* of the counters, crashes and clients that come and go, unless two polls
\* counted at once or the last sample of a silent peer was deleted
\* (usagePoller.ts, usageRollup.ts).
NeverOverbilled == sound => \A c \in Clients : billed[c] <= carried[c]

\* Once the evaluator has marked a family, none of its clients is enabled: one
\* created meanwhile, before or after the evaluator read the family, is caught
\* by one of the two checks.  What is left are clients an administrator enabled
\* then, and one whose creation a crash cut off before its check
\* (quotaEvaluator.ts, api/client/index.post.ts).
MarkedIsOff == quota.exists /\ quota.marked => enabled \subseteq creating \union strays

\* A family that stays over its limit is taken off the interface for good, but
\* for those clients.
Overrun  == quota.exists /\ quota.auto /\ quota.used >= quota.limit
Enforced == <>[]Overrun => <>[](live \subseteq strays)

=============================================================================
