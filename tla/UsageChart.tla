----------------------------- MODULE UsageChart -----------------------------
(***************************************************************************)
(* What the usage charts show of the counters the poller stored: the three  *)
(* routes that answer a range with buckets (server/api/admin/usage.get.ts,  *)
(* api/admin/clients/[id]/usage.get.ts, api/dashboard/clients/[clientId]/   *)
(* usage.get.ts), beside what the poller charged for the same samples       *)
(* (server/scheduler/usagePoller.ts).                                       *)
(*                                                                         *)
(* One poll at a time (overlapping polls are in QuotaPool), one direction   *)
(* of traffic, and a range is named by its length in ticks of the clock.    *)
(***************************************************************************)
EXTENDS Integers, Sequences, FiniteSets, Functions

CONSTANTS Clients,
          Ranges,      \* the lookbacks that can be asked for
          Width,       \* per range, the length of a bucket
          Keep,        \* age at which samples are deleted
          MaxTime,     \* bound: ticks of the clock
          MaxBytes     \* bound: a counter's value

ChartAssumption ==
  /\ IsFiniteSet(Clients)
  /\ Ranges \subseteq Nat /\ Width \in [Ranges -> Nat \ {0}]
  /\ {Keep, MaxTime, MaxBytes} \subseteq Nat

VARIABLES clock,
          counter,     \* per client, the counter of its peer
          boot,        \* history: how often the counters started again
          samples      \* per client, its rows of usage_sample, oldest first
uvars == <<clock, counter, boot, samples>>

\* The rows a query WHERE ts >= t finds.
Since(rows, t) ==
  LET found[i \in 0..Len(rows)] ==
        IF i = 0 THEN <<>>
        ELSE IF rows[i].ts >= t THEN Append(found[i - 1], rows[i])
        ELSE found[i - 1]
  IN found[Len(rows)]

Total(f) == FoldFunction(+, 0, f)

\* History of a sample: what was added to the quota for it, and since which
\* start of the counters it counts.
UsageRow == [ts : 0..MaxTime, bytes : 1..MaxBytes, charged : 1..MaxBytes, boot : 0..1]

Init == /\ clock = 0
        /\ counter = [c \in Clients |-> 0]
        /\ boot = 0
        /\ samples = [c \in Clients |-> <<>>]

Traffic(c) == /\ counter[c] < MaxBytes
              /\ counter' = [counter EXCEPT ![c] = @ + 1]
              /\ UNCHANGED <<clock, boot, samples>>

\* The interface, or the host, starts again.
Restart == /\ boot = 0
           /\ boot' = 1
           /\ counter' = [c \in Clients |-> 0]
           /\ UNCHANGED <<clock, samples>>

Time == /\ clock < MaxTime
        /\ clock' = clock + 1
        /\ UNCHANGED <<counter, boot, samples>>

\* The body of the poller's loop for one client.
Charge(c) == LET last == samples[c][Len(samples[c])].bytes
             IN IF samples[c] = <<>> \/ counter[c] < last THEN counter[c]
                                                         ELSE counter[c] - last
PollOne(c) ==
  /\ Charge(c) > 0
  /\ samples' = [samples EXCEPT ![c] = Append(@,
       [ts |-> clock, bytes |-> counter[c], charged |-> Charge(c), boot |-> boot])]
  /\ UNCHANGED <<clock, counter, boot>>

Rollup == /\ samples' = [c \in Clients |-> Since(samples[c], clock - Keep)]
          /\ samples' # samples
          /\ UNCHANGED <<clock, counter, boot>>

Next == (\E c \in Clients : Traffic(c) \/ PollOne(c)) \/ Restart \/ Time \/ Rollup
Spec == Init /\ [][Next]_uvars

-----------------------------------------------------------------------------
(* The answer to a range, for the clients the asker may see. *)

Window(c, r) == Since(samples[c], clock - r)

\* The counters are differences from the second sample of the window on.
FromTheFirst(w) == 1..Len(w)
Differences(w) == 2..Len(w)
Delta(w, i) == IF i = 1 THEN w[1].bytes
               ELSE IF w[i].bytes > w[i - 1].bytes THEN w[i].bytes - w[i - 1].bytes ELSE 0

BucketOf(r, ts) == (ts \div Width[r]) * Width[r]
buckets(r, allowed) ==
  [b \in {BucketOf(r, ts) : ts \in 0..clock} |->
     Total([c \in allowed |->
       LET w == Window(c, r)
       IN Total([i \in {i \in Differences(w) : BucketOf(r, w[i].ts) = b} |-> Delta(w, i)])])]

\* The three routes.  Who may see a client is decided before.
FleetUsage(r, allowed) == buckets(r, allowed)
ClientUsage(r, c) == buckets(r, {c})
DashboardUsage(r, c) == buckets(r, {c})

-----------------------------------------------------------------------------
(* Every variable keeps its type. *)
TypeOK == /\ clock \in 0..MaxTime
          /\ counter \in [Clients -> 0..MaxBytes]
          /\ boot \in 0..1
          /\ samples \in [Clients -> Seq(UsageRow)]

\* What the quota was charged for the differences in a window.
Billed(r, allowed) ==
  Total([c \in allowed |-> Total([i \in 2..Len(Window(c, r)) |-> Window(c, r)[i].charged])])
Restarted(r, allowed) ==
  \E c \in allowed : \E i, j \in 1..Len(Window(c, r)) :
     Window(c, r)[i].boot # Window(c, r)[j].boot

AddsUp(chart, r, allowed) ==
  /\ Total(chart) <= Billed(r, allowed)
  /\ ~Restarted(r, allowed) => Total(chart) = Billed(r, allowed)

(* The chart of a range, of one client or of all an administrator may see,   *)
(* adds up to what the family's quota was charged for the same samples, and   *)
(* to no more when the counters started again in the range (the quota then    *)
(* counts the new counter, the chart nothing).                                *)
ChartIsBill ==
  \A r \in Ranges :
    /\ \A allowed \in SUBSET Clients : AddsUp(FleetUsage(r, allowed), r, allowed)
    /\ \A c \in Clients : /\ AddsUp(ClientUsage(r, c), r, {c})
                          /\ AddsUp(DashboardUsage(r, c), r, {c})
=============================================================================
