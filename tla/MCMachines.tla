----------------------------- MODULE MCMachines -----------------------------
(* The machines that are checked for safety alone, each an instance of its      *)
(* module with bounds of its own.  They share no state: `part' says which one   *)
(* an execution is of.  They are written over the same variables, for TLC       *)
(* carries every variable through every state; the WITH clauses name them.      *)
(* ClientPage keeps its own variables, for its theorems are about them.         *)
EXTENDS ClientPage, Integers, TLC

CONSTANTS
  Actors,                              \* whoever may be under way at once
  Peers, Cidrs, FirstCidr, Rates, Slots, MaxEvents, MaxFails, \* Shaping
  Groups, Palette, MaxRequests,        \* TrafficGroups
  Headers, WgPorts, MaxChains, MaxErrors,              \* AmneziaWg
  Procs, MaxCalls, MaxExits,           \* Resolver
  Users, Passwords, OtherPorts, MaxEdits, MaxImports,  \* RouterDialog
  MaxTyped,                            \* RouterPage
  Charted, Lookbacks, Widths, Retention, MaxTime, MaxBytes, \* UsageChart
  MaxChoices                           \* UsagePage

VARIABLES part, x1, x2, x3, x4, x5, x6, x7, x8, x9, x10, x11, x12, x13, x14
xvars == <<x1, x2, x3, x4, x5, x6, x7, x8, x9, x10, x11, x12, x13, x14>>
vars == <<part, xvars, cvars>>

Sh == INSTANCE Shaping WITH
  Clients <- Peers, Requests <- Actors, Ranges <- Cidrs, Limits <- Rates,
  range <- x1, rows <- x2, addr <- x3, enabled <- x4, limit <- x5,
  class <- x6, filters <- x7, req <- x8, again <- x9, missed <- x10,
  spent <- x11, fails <- x12
Tg == INSTANCE TrafficGroups WITH
  Members <- Actors, Admins <- Actors,
  groups <- x1, default <- x2, colour <- x3, given <- x4, plan <- x5,
  members <- x6, ask <- x7, crossed <- x8, repeated <- x9, odd <- x10,
  requests <- x11
Aw == INSTANCE AmneziaWg WITH
  Chains <- Actors, Ports <- WgPorts,
  row <- x1, conf <- x2, dev <- x3, chain <- x4, checked <- x5,
  dockerMode <- x6, tool <- x7, handed <- x8, calm <- x9, replaced <- x10,
  raced <- x11, edited <- x12, began <- x13, errors <- x14
Rs == INSTANCE Resolver WITH
  Callers <- Actors, Upstreams <- Actors,
  wanted <- x1, proc <- x2, alive <- x3, ending <- x4, exited <- x5,
  file <- x6, loaded <- x7, user <- x8, lost <- x9, crowded <- x10,
  called <- x11, exits <- x12
Rd == INSTANCE RouterDialog WITH
  Hosts <- Actors,
  form <- x1, fetching <- x2, posting <- x3, rows <- x4, script <- x5,
  device <- x6, last <- x7, moved <- x8, drifted <- x9, edits <- x10,
  imports <- x11
Rp == INSTANCE RouterPage WITH
  Tabs <- Actors,
  row <- x1, list <- x2, form <- x3, asked <- x4, call <- x5, typed <- x6,
  inputs <- x7
Wz == INSTANCE Wizard WITH
  Runs <- Actors,
  page <- x1, running <- x2, isDone <- x3, isFailed <- x4, log <- x5,
  mine <- x6, at <- x7, doing <- x8, wire <- x9, cut <- x10, did <- x11
Uc == INSTANCE UsageChart WITH
  Clients <- Charted, Ranges <- Lookbacks, Width <- Widths, Keep <- Retention,
  clock <- x1, counter <- x2, boot <- x3, samples <- x4
Up == INSTANCE UsagePage WITH
  Ranges <- {"24h", "7d", "30d"}, First <- "24h", None <- Gone,
  dashboard <- x1, range <- x2, buckets <- x3, own <- x4, old <- x5,
  usageCache <- x6, alone <- x7, choices <- x8

\* The ranges, limits and buckets of the configuration.
SmallRange == [start |-> 3, end |-> 6]
TwoRanges  == {[start |-> 1, end |-> 5], SmallRange}
TwoWidths  == 2 :> 1 @@ 3 :> 2
TwoLimits  == {[down |-> 1, up |-> 1], [down |-> 2, up |-> 0]}

ASSUME MachinesAssumption ==
  /\ FirstCidr \in Cidrs
  /\ Sh!ShapingAssumption /\ Tg!GroupsAssumption /\ Aw!AmneziaAssumption
  /\ Rs!ResolverAssumption /\ Rd!DialogAssumption /\ Rp!PageAssumption
  /\ Uc!ChartAssumption /\ MaxChoices \in Nat

\* The variables a machine has no use for.
Off14 == x14 = 0
Off13 == x13 = 0 /\ Off14
Off12 == x12 = 0 /\ Off13
Off11 == x11 = 0 /\ Off12
Off10 == x10 = 0 /\ Off11
Off9 == x9 = 0 /\ Off10
Off8 == x8 = 0 /\ Off9
Off7 == x7 = 0 /\ Off8
Off6 == x6 = 0 /\ Off7
Off5 == x5 = 0 /\ Off6
Unused == x1 = 0 /\ x2 = 0 /\ x3 = 0 /\ x4 = 0 /\ Off5

\* A machine runs on its variables beside an idle page, or the page runs alone.
\* The interface has the range the set-up gave it until an administrator changes it.
Idles == Init /\ row.rest = CHOOSE v \in Values : TRUE

AllInit ==
  \/ part = "shaping" /\ Sh!Init /\ x1 = FirstCidr /\ Off13 /\ Idles
  \/ part = "groups" /\ Tg!Init /\ Off12 /\ Idles
  \/ part = "amnezia" /\ Aw!Init /\ Idles
  \/ part = "resolver" /\ Rs!Init /\ Off13 /\ Idles
  \/ part = "dialog" /\ Rd!Init /\ Off12 /\ Idles
  \/ part = "routerPage" /\ Rp!Init /\ Off8 /\ Idles
  \/ part = "wizard" /\ Wz!Init /\ Off12 /\ Idles
  \/ part = "clientPage" /\ Unused /\ Init
  \/ part = "chart" /\ Uc!Init /\ Off5 /\ Idles
  \/ part = "usagePage" /\ Up!Init /\ Off9 /\ Idles

Rest == UNCHANGED <<part, cvars>>

AllNext ==
  \/ part = "shaping" /\ Sh!Next /\ UNCHANGED <<x13, x14>> /\ Rest
  \/ part = "groups" /\ Tg!Next /\ UNCHANGED <<x12, x13, x14>> /\ Rest
  \/ part = "amnezia" /\ Aw!Next /\ Rest
  \/ part = "resolver" /\ Rs!Next /\ UNCHANGED <<x13, x14>> /\ Rest
  \/ part = "dialog" /\ Rd!Next /\ UNCHANGED <<x12, x13, x14>> /\ Rest
  \/ part = "routerPage" /\ Rp!Next
     /\ UNCHANGED <<x8, x9, x10, x11, x12, x13, x14>> /\ Rest
  \/ part = "wizard" /\ Wz!Next /\ UNCHANGED <<x12, x13, x14>> /\ Rest
  \/ part = "clientPage" /\ Next /\ UNCHANGED <<part, xvars>>
  \/ part = "chart" /\ Uc!Next
     /\ UNCHANGED <<x5, x6, x7, x8, x9, x10, x11, x12, x13, x14>> /\ Rest
  \/ part = "usagePage" /\ Up!Next
     /\ UNCHANGED <<x9, x10, x11, x12, x13, x14>> /\ Rest

AllSpec == AllInit /\ [][AllNext]_vars

\* Actors are interchangeable; no property of the run is a liveness property.
Symmetry == Permutations(Actors \cup Tabs)

-----------------------------------------------------------------------------
(* Properties: those of the modules, each asked of the machine that runs.      *)
(* Deliberate and ThumbIsTrue are ClientPage's own.                            *)

\* The type invariants of the modules.
EveryTypeOK ==
  /\ part = "shaping" => Sh!TypeOK
  /\ part = "groups" => Tg!TypeOK
  /\ part = "amnezia" => Aw!TypeOK
  /\ part = "resolver" => Rs!TypeOK
  /\ part = "dialog" => Rd!TypeOK
  /\ part = "routerPage" => Rp!TypeOK
  /\ part = "wizard" => Wz!TypeOK
  /\ TypeOK
  /\ part = "chart" => Uc!TypeOK
  /\ part = "usagePage" => Up!TypeOK

\* Shaping: the kernel shapes a client as its row says.
Shaped == part = "shaping" => Sh!Shaped

\* Addresses: clients have addresses of their own in the range, and a range that
\* has room is never refused.
Addressed == part = "shaping" => Sh!OwnAddresses /\ Sh!RangeFits

\* TrafficGroups: one default group, every client on a plan that is not known to
\* be without, colours of their own.
GroupsSound == part = "groups" => Tg!OneDefault /\ Tg!OnPlan /\ Tg!OwnColours

\* AmneziaWg: the device runs what the table says, with the headers that clients
\* were given until an edit replaces them.
HeadersSound == part = "amnezia" => Aw!Agrees /\ Aw!HeadersStay

\* Resolver: no forgotten dnsmasq, and the one that is on was started or signalled
\* with its settings.
ResolverSound == part = "resolver" => Rs!NoOrphan /\ Rs!Serves

\* RouterDialog: a router set up by the script can be reached as its row says,
\* and a row pins the fingerprint of its own host.
DialogSound == part = "dialog" => Rd!Reachable /\ Rd!PinOfHost

\* RouterPage: a save changes what was entered and nothing else.
NoClobber == [][part = "routerPage" => Rp!SaveIsDiff]_vars

\* Wizard: the verdict of the dialog is that of the run.
Truthful == part = "wizard" => Wz!Truthful

\* UsageChart, UsagePage: a chart adds up to the bill, and is the one of its button.
ChartsTrue == (part = "chart" => Uc!ChartIsBill) /\ (part = "usagePage" => Up!Labelled)
=============================================================================
