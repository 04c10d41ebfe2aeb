# wg-easy in TLA+

TLA+ modules, TLC configurations and TLAPS proofs for the server of this
repository (`src/src/server`), a WireGuard / MikroTik peer manager written in
TypeScript on Nitro with one SQLite database, an engine that carries the peers
of that database to a network interface, and a scheduler of periodic jobs; and
for the pages of its Vue front end (`src/src/app`) that keep state of their own.

Everything runs in one Node.js process. There are no threads, but every `await`
is a point where another request, timer tick or socket event may run. Nothing
in the server serialises two handlers or two ticks (the firewall module is the
one exception), so the modules give every asynchronous call chain its own
program counter and local variables, and let the chains interleave at awaits.
The pages are the other side of the same handlers: what a tab holds is a copy
that is as old as its last answer, and requests of several tabs interleave.

## Inventory

| Component | State it keeps | Operations | Interacts with | Hard behaviours | What makes it correct |
|---|---|---|---|---|---|
| Client sync (API handlers, `syncOrEnqueue`, WireGuard engine) | `clients_table`, `wg0.conf`, the interface | create, enable, disable, delete, update, `syncInterface`, `bringUp` | queue, reconciler, enforcer, firewall | overlapping syncs, stale snapshots, torn file, restart | the interface converges to the table; no difference is forgotten |
| Mutation queue | `pending_mutation` | enqueue, getDue, markSuccess, markFailure, give up | engine | backoff, overlapping drains, deleted clients | bounded retries, no stale row |
| Reconciler | none of its own | full sync every 5 minutes | engine, router health | runs next to everything else | repairs whatever was missed |
| Expiration enforcer, engine cron job | none | disable expired clients | clients, engine | list read before the loop | expired clients are cut off |
| Firewall | iptables chains; `rebuildInProgress`, `rebuildQueued` | initChain, rebuildRules, removeFiltering | engine | lock, queued rerun, removal outside the lock | the chain ends up as the last rebuild asked |
| Quota (poller, evaluator, resetter, rollup, service) | `user_quotas`, `usage_samples` | sample, add bytes, disable, re-enable, reset | engine, clients, admin API | overlapping ticks, counter resets, crash between two writes | no byte counts twice; who is over the limit is off |
| Quota periods | pure function | `getPeriodDates` | quota | calendar edges | `now` lies in the period |
| Router health | health columns of `routers` | `recordHealth` | reconciler, audit log, notifier | read-then-write by overlapping ticks | one announcement per outage |
| MikroTik engine | the router's peers | bringUp, sync (diff), disable, sample | RouterOS transports | partial failure, no transaction, lost answers | idempotent convergence without cutting anyone off |
| RouterOS API transport | socket, pending replies, pool | connect, send, close | MikroTik engine | lost socket, replies in any order | a reply goes to its own command |
| Router bootstrap and administration | `routers`, `interfaces_table` | wizard, activate, create, update, delete, restart | MikroTik engine, obfuscation | a dozen remote commands with no transaction; deletion meanwhile | repeatable; what is bound exists and is provisioned |
| Traffic obfuscation | `obfuscation_mode`, the obfuscator on the router or next to the server | deploy, switch, remove | router administration | swallowed errors, host against router | an obfuscator that runs is on record |
| Users, roles and families | `users_table`, foreign keys of quotas, clients and log | create, sub-account, role, enable, delete | clients, quota, log | overlapping requests, cascades, chains of parents | references hold; both walks over a family agree |
| Setup wizard | `setupStep` | steps 2 and 4, migrate, unattended setup | users | repeated and overlapping requests, restart in between | an administrator exists when it ends; the server starts again |
| Dashboard login, sessions, tokens, one-time links | challenges and attempts in memory, `one_time_links_table`, `api_token`, `password`, `totpKey`, cookies | resolve a principal, login, logout, challenge, verify, enrol, generate, serve, erase | users, clients, cron job | several reads before a handler runs, expiry, a limit, read-then-erase | a handler's credential was good; an answer counts once; a link dies |
| Traffic groups | `traffic_groups`, `clients_table.traffic_group_id` | create with a colour, delete, set default, choose a plan | clients | deletion in several statements, overlapping requests | one default; every client on a plan |
| Addresses | addresses of `clients_table`, the range of the interface | `nextIP`, `updateCidr`, edit | clients, speed limits | exhaustion, renumbering one by one | distinct addresses in the range |
| Speed limits | `speed_limits`; tc classes and filters | set, clear, reapply after a start | engines, clients | the engine fails after the row; addresses that move; filters nobody removes | the kernel shapes a client as its row says |
| boringtun engine | the child process, its daemon, device and socket | start, wait, respawn, stop, bringUp, sync | clients, speed limits | starts that overlap their own respawns | what a start returns works; starts end |
| AmneziaWG engine | file, device, headers in the row, the place of the tool | bringUp, sync, edit | interfaces | whole rows written back, a flag that is set before its answer | the device has the headers clients were given |
| dnsmasq | child process, its file | start, reload, stop, exit | engines | a late exit event | no forgotten process; the settings that were asked for |
| Router pages, bootstrap wizard | form, list, script, banners | type, fetch fingerprint, create, save, import, run | router administration | late answers, several tabs, a stream that breaks | what is saved was entered; what is shown happened |
| Client page and card | form, thumb of the switch | open, type, save, revert, delete, click, poll | client API, enforcers | stale copies, answers out of order | what is saved was entered; the thumb is true |
| Usage charts | buckets, the dashboard's cache | choose a range, leave, answer | poller, rollup | late answers, counter restarts, deleted samples | a chart adds up to the bill, and belongs to its button |

Left aside: the other pages of the front end (forms that post what was
entered), translations, `cli`, vendored documentation and examples, generated
migrations, pure formatting (`configgen.ts`, QR codes), hooks, metrics.

## Modules and the code

Each component has one module. A call chain of the code (a request, a tick of a
timer) is a *job* with a program counter and the local variables it carries
across an `await`; an action is the code between two awaits that matter, with
all it calls. Rows are records or elements of a set, names and addresses are
left out, an error of an external command is a choice the action offers.

| Module | State | Code |
|---|---|---|
| `PeerSync` | `clients`, `expired`, `queue`, `conf`, `up`, `peers`, jobs | `api/client/*`, `utils/syncOrEnqueue.ts`, `scheduler/{mutationQueue,reconciler,expirationEnforcer}.ts`, `engines/wireguard/index.ts`, `utils/Database.ts` |
| `Mirror` | one table, one copy | what the chains of `PeerSync` promise together |
| `Firewall` | chain, flag, queued rebuild, jobs | `utils/firewall.ts` |
| `QuotaPool` | counters of the peers, samples, quota row, family, jobs | `scheduler/{usagePoller,quotaEvaluator,periodResetter,usageRollup}.ts`, `services/quotaService.ts`, quota repository |
| `MikrotikSync` | peers of the router with ids and comments, rows, health, jobs | `engines/mikrotik/{index,configgen}.ts`, `scheduler/reconciler.ts`, router repository |
| `RouterOsApi` | transports, sockets, tags, pending replies, callers | `transports/routeros-api{,-protocol}.ts`, the pool of `engines/mikrotik/index.ts` |
| `RouterSetup` | objects on each router, rows, the interface's binding, obfuscators, jobs | `engines/mikrotik/bootstrap.ts`, `api/admin/router/*`, `api/admin/interface/*`, `engines/mikrotik/obfuscator.ts`, `services/hostObfuscator.ts` |
| `Login` | one account's password, TOTP key, tokens and link, cookies, challenges, attempts, jobs | `utils/{principal,session,wgKeyAuth}.ts`, `api/session.*`, `api/dashboard/login/*`, `api/me/*`, `api/api-tokens/*`, one-time link service and route |
| `Accounts` | accounts with parents and roles, what refers to them, `setupStep`, jobs | `api/admin/users/*`, `api/setup/*`, user repository, `database/sqlite.ts` |
| `Addresses` | none: operators | `utils/ip.ts`, `updateCidr` of the interface repository |
| `Shaping` (extends `Addresses`) | rows, addresses, range, tc classes and filters, jobs | `services/speedLimitService.ts`, `engines/wireguard/speedlimit.ts`, `#reapplySpeedLimits` of three engines, `api/admin/clients/[id]/speed-limit.*`, `cidr.post.ts` |
| `TrafficGroups` | groups, default, colours, plans, jobs | `api/admin/traffic-groups/*`, its repository, `utils/colorGenerator.ts`, client create and update |
| `AmneziaWg` | row, file, device, chains, place of the tool | `engines/amneziawg/index.ts`, `api/admin/interface/index.post.ts` |
| `Resolver` | wanted settings, process, file, exit events, callers | `engines/wireguard/dnsmasq.ts`, `api/admin/userconfig.post.ts` |
| `Boringtun` | calls of `start` with their children, daemon, device, socket | `engines/boringtun/{index,process}.ts` |
| `RouterDialog` | form, script, rows, the router's accounts, services and rules | `pages/admin/routers/index.vue`, `fingerprint.post.ts` |
| `RouterPage` | row, and per tab its list, form and request | `pages/admin/routers/[id]/index.vue`, `router/[id]/index.patch.ts` |
| `Wizard` | dialog, log, banners, runs on the server, streams | `components/Routers/BootstrapWizard.vue`, `bootstrap.post.ts`, `engines/mikrotik/bootstrap.ts` |
| `ClientPage` | row, and per tab its form and request; the card | `pages/clients/[id].vue`, `components/ClientCard/Switch.vue`, `composables/useSubmit.ts`, `api/client/[clientId]/*` |
| `UsageChart` | clock, counters, samples | `scheduler/usagePoller.ts`, `api/**/usage.get.ts` |
| `UsagePage` | lit button, chart, requests, the store's cache | `pages/index.vue`, `pages/clients/[id].vue`, `pages/dashboard/clients/[id].vue`, `stores/dashboard.ts` |

How the modules stand to one another: `PeerSync` is the WireGuard side of the
sync and `MikrotikSync` the router's side of the same `syncInterface`;
`Firewall` is the tail of `PeerSync`'s sync; `RouterOsApi` is the transport
under `MikrotikSync`, whose "a command is executed or lost, its answer arrives
or not" is what `RouterOsApi` checks of a connection; `RouterSetup` decides to
which router `MikrotikSync`'s engine is bound; `QuotaPool` disables clients
through the same `toggle` as `PeerSync`, and takes the family that `Accounts`
shows to be well defined; `Login` decides for whom a handler of `Accounts` runs. `Shaping` is what the engines of
`PeerSync`, `Boringtun` and `AmneziaWg` do to tc after each start; `Wizard` is the
browser's view of one run of `RouterSetup`; `RouterPage` and `RouterDialog` write
the rows `RouterSetup` reads; `ClientPage` sends the requests of `PeerSync` and
meets the enforcers of `QuotaPool`; `UsageChart` draws from the samples
`QuotaPool` charges. They are checked apart: composed, two awaiting chains
would already exceed what TLC can enumerate.

`Mirror` is the abstract specification: a table that changes, a copy of it that
is installed whole. `PeerSync` implements it (`MirrorSpec`, with the peers of
the interface as the copy) as long as one chain runs at a time; with two, a
sync may install a snapshot that was overtaken, and only the liveness property
`Converges` remains.

## What the runs check

| Run | Bounds | Properties |
|---|---|---|
| `sync_serial` | 2 clients, 1 job, 2 requests, 3 failures, 1 restart | `RepairOwed`: a difference between table and interface is owed a repair by a queue row, a running chain, or the reconciler. `MirrorSpec`: each sync is an atomic copy of the whole table. |
| `sync_live` | 1 client, 2 jobs, 1 request, 2 attempts, 2 failures, 1 restart | `QueueSound`: ids unique, no row outlives its client or reaches the maximum of attempts. `Converges`, `ExpiredCutOff`: the interface finally equals the table, and an expired client is finally off it, through overlapping chains. |
| `sync_outage` | 1 client, 1 job, 1 failure, 1 restart | violated: `OutageHeals` |
| `firewall_sync` | 2 clients, 3 jobs, 1 edit, 1 failure | `DropLast` (the final DROP stays last and no client is in twice), `Converges` |
| `quota` | two questions of one family. Counting: 1 client, 2 bytes, 1 new period, 1 event out of enable, period, crash, set, delete, rollup. Enforcing: 2 clients, 2 polls, 2 events out of engine failure, create, crash | `NeverOverbilled`: a client is never charged for more than it carried. `MarkedFamilyOff`: a family marked as disabled has no enabled client. `OverrunEnds`: a family that stays over its limit is taken off the interface. |
| `mikrotik_sync` | 2 clients, 2 names, 1 job, 3 edits, 3 failures | `NeverDropped` (a client that stays on is never disconnected by a sync), `Converges` |
| `transports` | `RouterOsApi`: 2 callers, 2 transports, 3 tags, 2 failures. `Boringtun`: 2 calls, 2 respawns, 3 starts, 1 death | `OwnAnswer`: a caller gets the whole answer to its own command. `Answered`: it gets one while its connection lives. `Usable`: an undisturbed start leaves a device with keys, peers and addresses. `Settles`: starts and respawns end. |
| `router_setup` | 2 routers, 2 jobs, 4 requests, 2 failures, 1 restart | `NoDuplicates`, `BoundIsProvisioned`, `BoundExists`, `Accounted` |
| `router_key` | 1 router, 1 job, 3 requests | violated: `KeyHeld` |
| `accounts` | 4 accounts, depth 4, 2 jobs, 3 requests, 1 restart | `FamiliesAgree`, `FlatFamilies`, `StartsAgain` |
| `login` | 2 jobs, 3 requests, 2 passwords, 2 TOTP keys, 1 token, 1 challenge, 1 attempt a minute, 1 restart | `TotpProven`: a login asks only for the code of a key its owner has shown one of. `Admitted`: what a handler's credential needs was true after the request had arrived. `AnswersBounded`: a challenge is compared once, and of the answers of any minute no process looks at more than the limit; a restart begins the count again. `LinksDie`: a link is refused in the end. |
| `machines` | ten machines, see below | see below |

`transports`, `quota` and `machines` hold machines that share no state: the
variable `part` says which one an execution is of, and each property is asked of
its own. In `machines`:

| Machine | Bounds | Property |
|---|---|---|
| `Shaping` | 2 clients, 2 requests, 2 overlapping ranges (the smaller at the start), 2 limits (one of them in one direction only), 5 events, of which at most 2 failures or restarts | `Shaped`: a client nothing is under way for is shaped as its row says, unless one of the named holes is open for it. `Addressed`: addresses are distinct and in the range, and a range with room is not refused. |
| `TrafficGroups` | 2 clients, 2 requests, 3 groups, 2 colours, 5 requests in all | `GroupsSound`: one default group, every client on a plan but those that began without, colours of their own |
| `AmneziaWg` | 2 chains, 2 header sets, 2 values of a setting, 3 chains in all, 1 error | `HeadersSound`: the device runs the row, the row has what was found, drawn or entered, and clients keep their headers until an edit replaces them |
| `Resolver` | 2 callers, 3 processes, 2 upstreams, 4 calls, 1 exit | `ResolverSound`: no forgotten process; the one that runs was started or signalled with what was asked for |
| `RouterDialog` | 2 hosts, 2 users, 2 passwords, 2 edits, 2 imports | `DialogSound`: a router the script set up can be reached as its row says; the pinned fingerprint is the host's |
| `RouterPage` | 2 tabs, 2 values, 2 edits | `NoClobber`: a save changes what was entered and nothing else |
| `Wizard` | 2 runs of 12 steps | `Truthful`: the banners say what the request did |
| `ClientPage` | 2 tabs, 2 values, 5 inputs | `Deliberate`: a save of a page nobody else wrote under changes what was entered; `ThumbIsTrue`: the switch shows the client's state |
| `UsageChart` | 2 clients, ranges of 2 and 3 ticks, 3 ticks, 2 bytes, samples kept 2 ticks, one restart of the counters | `ChartsTrue`: a chart adds up to the bill of its samples |
| `UsagePage` | 3 ranges, 5 choices | `ChartsTrue`: the chart is that of the lit button |

`EveryTypeOK` is the type invariant of all machines of a run, of these ten and of
the two in `transports`. It is proved of both, as that of the other modules is
(below), of `Firewall` as a part of `Inv`. The sets and bounds of the machines are
constants of `MCMachines`, with the values of `Machines.cfg` in the run and with
any values in the theorems; only the three buttons of the chart are written in
the module, as they are in the code.

Why the bounds are enough. The hazards are races of *two* chains over one row
(two jobs; three for the firewall, where a holder of the flag, a waiter and a
remover meet), and a failure or a restart between two of their steps (one or
two, since each is followed by the same repair). Two clients are needed where one
must survive the treatment of another (the firewall's rules, the router's
peers, a family under one quota); a client's own races need one. `MaxAttempts`
is 2, so that a queue row is retried before it is given up, and a drain can
write the attempts of a row that another has moved on or deleted. Two tabs or two requests are what one
overtaking another needs, two values what a stale one needs to be told from a
new one; five inputs of `ClientPage` are open, enter, save in one tab with a
write of the other between them. Two routers are what a binding that moves needs, four accounts what
a chain root - child - grandchild next to an administrator needs. Every action and every
disjunct of every next-state relation fires in a passing run. What the bounds
cap, the proofs below cover for all values.

`Converges` and `Enforced` need the system to come to rest: they are stated as
"eventually always" behind bounded requests, failures and restarts, which is
why those are counted rather than free. After the last of them the timers go on
for ever.

In `login` a minute is one tick and the limit one attempt, so that the limit, a
second answer to a challenge that is still fresh, and its expiry all happen
within three requests.

Deadlock is checked except in `router_setup`, `router_key` and `accounts`,
which have no timers, in `login`, where a handler whose bound is used up
waits, and in `transports` and `machines`, whose machines stop when their
bounded requests are done.

## Fairness

| Module | Assumed | Because |
|---|---|---|
| `PeerSync` | weak, on the continuation of each job and on the boot; strong, on the start of reconciler, drain and enforcer | a promise that can settle does; `setInterval` goes on firing (a job slot may be taken at one tick and free at the next: hence strong); the container is restarted |
| `Firewall` | weak on each job, strong on the timers' tick | the same |
| `QuotaPool` | weak on each poll, reconcile, reset, and quota check | the timers never stop |
| `MikrotikSync` | weak on the reconciler's start and on the continuation | the same; failures are bounded, so the router is reachable in the end |
| `RouterOsApi` | weak on each caller and on the network of each transport | the promise settles; TCP delivers or the socket closes. A router that accepts a command and never answers is the action `Hang`, on which nothing is assumed. |
| `Boringtun` | weak on each call of `start` and on each child process | the promise settles after its sleeps; boringtun-cli exits or forks |
| `Login` | weak on each job, on the two halves of the cron job, and on a link's expiry | the promise settles, `setInterval` goes on firing, time passes |

Nothing is assumed of requests, edits, traffic, failures or crashes. `RouterSetup`, `Accounts`
and the machines of `machines` check safety only.

## What is proved

There is one `*Proofs` module per module with theorems, but for two:
`EnginesProofs` has those of `Firewall`, `Boringtun` and `RouterOsApi`, and
`MachinesProofs` those of the machines that `MCMachines` composes. Each theorem
holds for every number of clients, jobs, routers or accounts and every bound.

| Theorem | States | Rests on |
|---|---|---|
| `PeerSyncProofs!TypeCorrect`, `QueueCorrect` | `TypeOK`, `QueueSound` | `Inv`: the type invariant and what each job may carry at each stage. A drain acknowledges by row id, so `QueueSound` needs that ids are never given twice, and that the row a nack updates may be gone. |
| `PeerSyncProofs!RepairIsOwed` | with one job, `RepairOwed` | `DebtKnown`: only a chain that edited the table and has not yet heard of its sync may leave a difference nobody is owed; the reconciler, a drain and the enforcer between two clients leave none, an acknowledged sync has closed it, and the rows a drain works on are still in the queue. |
| `PeerSyncProofs!SerialMirror` | with one job, `Spec => MirrorSpec` | `SerialSound`: the list a sync carries is what the table holds, which is true only while nobody else runs; each step of a sync maps to one `Mirror` step or a stutter. |
| `EnginesProofs!LockCorrect` | `MutexHeld` | `Inv` with `Partial`: the holder of the flag is the one job between `Enter` and `Finally`. |
| `EnginesProofs!RulesCorrect` | `DropLast` | the same; `Partial` also says how much of the chain that job has built. `MutexHeld` alone does not carry it: a removal runs outside the lock. |
| `EnginesProofs!UndisturbedUp` | `Usable` of `Boringtun` | `OnItsOwn`: while nothing disturbs the one start, its stage says which of child, daemon, device, socket and settings are there. |
| `EnginesProofs!OwnAnswers`, `TransportsTyped` | `OwnAnswer` of `RouterOsApi`; `EveryTypeOK` of both | `Answers` = `ApiShapes`, `Placed` (a caller waits in one transport), `Tags` (no tag is used twice on a connection), `Wired` (what is under way on the socket belongs to a tag in use) and `Matched` (the sentences collected and those still to come make up one whole reply). |
| `QuotaPoolProofs!TypeCorrect` | `TypeOK` | no count is negative: `Delta` after a counter reset. |
| `QuotaPoolProofs!MarkCorrect` | `MarkedFamilyOff`, if no period ends and the quota is neither set nor deleted (`Undisturbed`) | `MarkSound`: a mark means that the pool is used up, and stays so; the clients an evaluation has still to switch off are those of its list, any other enabled one was enabled after the list was read, or its request is about to check. |
| `QuotaPoolProofs!BillCorrect` | `NeverOverbilled` | `BillSound`: what was charged plus what the running poll is about to charge is at most what the last sample stands for. It is split by the poll's stage (before the sample, between the sample and the charge) and by whether the counter was reset since. |
| `MikrotikSyncProofs!TypeCorrect`, `ForeignCorrect` | `TypeOK`, `ForeignUntouched`, for any overlap | `Inv`: every id a job is about to change belongs to a peer with a comment, or to none. Ids are never reused, so a stale print cannot hit a foreign peer. |
| `MikrotikSyncProofs!ServedCorrect` | `NeverDropped`, for one job | `Plan`: for a client that stays on, the commands still to be sent never remove its last peer before another is there. |
| `MikrotikSyncProofs!DebouncedCorrect` | `Debounced`, for one job | `Fresh` (the counter read is the counter written) and `Announced`. |
| `RouterSetupProofs!TypeCorrect`, `NeverDangles` | `TypeOK`, `BoundExists` | the foreign key's restriction, and the order of `DeleteRow` against `Bind`. |
| `RouterSetupProofs!Idempotent` | `NoDuplicates`, if requests that change routers do not overlap (`Alone`) | `Shape` (what follows a check in a job's list of commands) and `Single` (a pending "add" names an object that is absent). |
| `RouterSetupProofs!NeverHalfProvisioned` | `BoundIsProvisioned` | `Conform` (a job's commands are a tail of its plan), `Along` (what precedes that tail is on the router, or was found there) and `Provisioned`. |
| `RouterSetupProofs!AlwaysAccounted` | `Accounted` (under its own `Alone`) | `Conform`, `Looking` (what a job saw when it chose its plan), `Single` and `Books`: at each place in the plan of a deployment, a switch or a removal, which of obfuscator and row is ahead. |
| `AccountsProofs!TypeCorrect` | `TypeOK` | |
| `AccountsProofs!ReferencesHold`, `FamiliesAreFlat` | `NothingDangles`, `FlatFamilies` | `Tree`: references, parents older than children, and what a sub-account request that still runs has seen. A request checks its parent, creates a row, and attaches it, with deletions in between. |
| `AccountsProofs!FamiliesHold`, `SmallServerFamilies` | `FamiliesAgree`: if at most `MaxDepth - 2` sub-accounts are `hasty` (one of their own was asked for while they were still being attached), or if the server makes at most `MaxDepth` accounts | `Tree`. Both walks end, because parents are older (`WalkEnds`); a chain longer than two consists of hasty accounts, so the walk up stops at the root before its bound; then what the walk up maps to a root is what the walk down collects from it, by induction over the ids (`WalksAgree`). |
| `AccountsProofs!SetupMakesAdministrator` | `AdministratorMade` | `Bare`: as long as no administrator was made, only the second step of the wizard can run. |
| `AccountsProofs!StartsAgainHolds` | `StartsAgain` | `Orderly`: what the unattended setup has done at each of its stages. |
| `LoginProofs!TypeCorrect` | `TypeOK`, with the bound on the list of attempts | `Attempts`: the list of attempts is finite. |
| `LoginProofs!AnswersAreBounded` | `AnswersBounded` | `OneAnswer`: ids are unique, and a challenge that was compared is used or gone. `Counted`: the answers this process has looked at within the minute are in its list of attempts, which the limit bounds, and no process before it has looked at more than the limit. |
| `LoginProofs!TotpIsProven` | `TotpProven` | inductive as it stands |
| `LoginProofs!AdmittedHolds` | `Admitted` | `Admission`: while a request is on its way, whatever is true now of its credential is among its facts. A token that is read as valid was valid at the arrival, because none becomes valid again. |
| `MachinesProofs!TypeCorrect` | `TypeOK` | |
| `MachinesProofs!ThumbCorrect` | `ThumbIsTrue` of `ClientPage` | `Ahead`: an undisturbed card has at most one request under way or answered; before it thumb, list and row agree, then the thumb is ahead of both, then of the list only. |
| `MachinesProofs!SaveCorrect` | `Deliberate` of `ClientPage` | `OwnCopies`: form and body of a save differ from the row only in entered fields while nobody else writes; an answer under way is the row. What is entered while a save is under way differs from its body, hence the third conjunct. |
| `MachinesProofs!HeadersAgree` | `HeadersSound` of `AmneziaWg` | `Roads` and `Looked` (which steps a start and a sync take, and where #exec looks); `OneDraws` (unless it is `raced`, one start at most holds a row without headers, and what clients were given is the row's or was replaced); `OneByOne`: where the one chain is, and how far row, file and device have got. |
| `MachinesProofs!SavesAreDiffs` | `NoClobber` of `RouterPage` | `RouterPageInv`: what a form shows of a field nobody entered is what its list says, and a body has only fields that were entered. |
| `MachinesProofs!RouterIsReached` | `DialogSound` of `RouterDialog` | `Pinned`, and `SetUp`: what the last script set up is there, *and the group wg-easy*, at which a script for another user stops before it takes an account away. |
| `MachinesProofs!PlansHold` | `GroupsSound` of `TrafficGroups` | `OneWay` (a deletion that has begun is not of the default group and moves its clients to it), `Planned` (it knows who joined since) and `Coloured` (a colour about to be used twice is among `repeated`). |
| `MachinesProofs!ResolverCorrect` | `ResolverSound` of `Resolver` | `InTurn`: the one call under way and its stage say whether a process runs and which file it has. |
| `MachinesProofs!VerdictsAreTrue` | `Truthful` of `Wizard` | `Progress` (the steps done are those before the current one) and `Heard`: what was shown and what is still in the stream together tell the end of the run. |
| `MachinesProofs!AddressesHold` | `Addressed` of `Shaping` and `Addresses` | `AddressesInv`: finitely many rows, addresses of their own in the range. The renumbering is shown to be possible by giving it: in the order of the ids each client gets the next address (`Renumbers`, from `TurnIsNext` and the places of the ids in a finite set). |
| `MachinesProofs!LimitsHold` | `Shaped` of `Shaping`, if no two clients share a class id (`OwnClasses`) | `Settles` (rows and kernel agree for a client nothing is under way for), `Waits` (a client in the loop of a start has no filter in an unlimited direction, and its limit and address are those the loop holds), `Runs` (how far the kernel is when a request that runs alone reaches each of its steps) and `Unborn` (no filter leads to the class of a client that was never created). A step on one client leaves the others what they have, or strikes them off (`Bystander`). |
| `MachinesProofs!ChartsHold` | `ChartsTrue` of `UsageChart` and `UsagePage` | `Books` (the samples of a client are in the order of time and of restarts, and each was charged what it added to the one before), `Counted` (the last sample is not ahead of the counter), and that a query finds a tail of them (`SinceBooks`). Then a bucket's difference is the charge of its sample unless the counters started again, and sums over clients, buckets and samples can be taken in any order. `UsagePageInv`: the one request of a button pressed alone is for the range that is lit. |
| `MachinesProofs!TypesHold` | `EveryTypeOK` of the ten machines | `Typing`: the invariants above for the machine that runs, and what they leave out: `ShapingTypes` needs that addresses stay numbers of the range through a renumbering, `UsagePageTypes` that requests under way and left behind are together no more than the choices made. |

`MutexHeld`, `Debounced`, `ForeignUntouched`, `NothingDangles` and
`AdministratorMade` are proved and no longer among the runs; each can be added to
the `INVARIANT`s or `PROPERTY`s of its component's run.

Assumptions: the named `ASSUME`s of the modules (finite sets, bounds that are
natural numbers, values that are not members of a set; for the machines
`MachinesAssumption`, which collects theirs), and those the theorems
state themselves: one job for `SerialMirror`, `RepairIsOwed`, `ServedCorrect`
and `DebouncedCorrect`, `Undisturbed` for `MarkCorrect`, and `OwnClasses` for
`LimitsHold`. Without them these six are false, see below; `OwnClasses` holds
until more ids were given away than there are classes (65534), and in the run.
`FamiliesHold` and `SmallServerFamilies` have the condition named in the table,
which holds in the run: `getRootUserId` gives up after ten accounts
(`user/service.ts:358`), and a longer chain takes nine such sub-accounts, each
asked for before the one above it was there. `NeverOverbilled`, `NoDuplicates`, `Accounted` and
the properties of the machines have the conditions under which they hold in the
property itself, as history variables that name the hole. Of the order of steps
a hole stands for they say nothing: `disturbed` (a respawn beside a start),
`hasty`, `cut`, `lost` and `crowded` (a late exit event), `drifted`, `sound` and
`fresh`, and the wait on a connection that closed, are what the code leaves open,
and the list below tells what then happens.

An induction over the numbers is possible where it is needed, as the least
counterexample of a set of numbers (`MachinesProofs!Least`, `Induct`). Recursive
functions, and the folds the charts add up with, are a CHOOSE to the prover: it is
first shown that a function as the definition describes exists (of every set of a
finite domain, by induction over its size), then what every such function
gives. This is why `Since` is a function over the rows and `Total` has a name.

## What is only model-checked

- Liveness (`Converges`, `ExpiredCutOff`, `OverrunEnds`, `Answered`, `Settles`,
  `LinksDie`): fairness and `ENABLED` are out of TLAPS's reach.
- `FamiliesAgree` beyond the condition of `FamiliesHold`: there it can be false, as
  the walk up throws on a chain that is too long.

Every other invariant and action property of a passing run is the subject of a
theorem.

## Where the code differs from its documents, or is weaker than it looks

The two violated runs:

- `OutageHeals`. A `bringUp` that fails at boot is logged (`utils/Database.ts:36`)
  and never tried again; `syncInterface` needs an interface that is up. The
  documents promise eventual consistency for any transient outage
  (`docs/obsidian/prds/60-bugfixes/06-engine-reconcile-loop.md:48`).
- `KeyHeld`. The wizard does not push the interface's private key
  (`engines/mikrotik/bootstrap.ts:131`), so clients are configured for a key the
  router does not have until the interface is restarted.

Found while modelling, and the reason why a property is stated as it is:

- A transport whose connection was closed by the router stays in the pool and
  believes itself connected: every later call fails until the process restarts,
  and `scheduleReconnect` and `waitForConnect` have no caller
  (`transports/routeros-api-protocol.ts:58`, against
  `prds/10-mikrotik/01-mikrotik-driver.md:118`). `Answered` is therefore about
  a connection that lives.
- A handler runs after its checks: an account may be disabled between the
  two, so `Admitted` speaks of moments after the arrival, and of each fact at
  its own moment (a token is read before its account). A cookie has no
  date on the server; logging out makes the browser forget it.
- A one-time link is served however old it is as long as it is in the table,
  and each serving gives it ten more seconds, so a link that is fetched often
  enough lives on; generating again keeps the link and moves its date
  (`oneTimeLink/service.ts:19,62`). The cron job deletes from a list it read
  before, and may delete a link that was just renewed. It runs only in the
  WireGuard engine and only after a `bringUp` that succeeded: with
  another engine no link dies, and `LinksDie` does not apply.
- The attempts of the login by key are in memory (`utils/wgKeyAuth.ts:99`): a
  restart forgets them, and as many answers again are looked at within the same
  minute. `AnswersBounded` therefore counts each process for itself.
- `user-session.post.ts:45` sets a cookie without `dashboardUserId`, which
  `resolvePrincipal` does not accept: it opens nothing.
- Overlapping polls charge the same bytes twice; the nightly rollup removes
  the last sample (`scheduler/usageRollup.ts:7`, against PRD 20-03:61,64), so the
  next poll charges the whole counter again. `NeverOverbilled` is therefore about
  one poll and no rollup.
- The evaluator marks a family whose period was reset under it; a manual
  enable and `setForUser` keep the mark; an engine that fails leaves the row
  disabled (PRD 60-13:90); `findOverLimit` uses the row's own limit, never
  the traffic group's (`services/quotaService.ts:44`). A process that stops
  between the insert of a client and its quota check leaves it enabled.
- `removeFiltering` does not take the flag (`utils/firewall.ts:247,299`), so a
  rebuild that runs can link the chain again; a queued rebuild runs with
  the arguments of its request.
- Two overlapping syncs of a MikroTik router can drop a client that stays on,
  and two ticks that overlap lose or repeat an announcement (`NeverDropped`,
  `Debounced` hold for one job). PRD "Never use peer name on device for
  identity", while the comment `id:name` is what the code identifies by.
- Two wizards that overlap can duplicate filter and NAT rules (PRD 10-02:145
  asks for idempotence; `Alone = TRUE`). A failure right after
  `/certificate/add api-ssl-cert` leaves the CA unsigned for good, against the
  comment at `bootstrap.ts:314`. A wizard given an SSH password stores that
  user with the API password of another (`bootstrap.ts:442-448`). A switch of the
  binding, a first deployment that fails, and a failed removal of the sidecar's
  file lose an obfuscator (`forgotten`).
- A stop between the account of the environment and the end of the setup makes
  every later start fail with "User already exists" (`database/sqlite.ts:160`);
  `StartsAgain` says that this is the only such point (`cut`).
- Overlapping step-2 requests can reopen a setup that was finished
  (`api/setup/2.post.ts:11`). A migration that was cut half-way cannot be repeated.
- The guard of the last super administrator looks at the caller only, counts
  disabled accounts, and two administrators can delete or demote one another at
  once; `promoteSingleAdmin` acts at every start. A sub-account that is an
  administrator can delete its parent and so itself. An account that
  appears in the audit log cannot be deleted. A family deeper than ten makes
  `getRootUserId` throw; only overlapping requests can make one
  (`FamiliesHold`).
- Speed limits. A filter of an old address is never removed and shapes whoever
  gets the address next (`Inherited`); a direction that becomes unlimited keeps
  its class; a change of the range renumbers the clients and moves no
  limit; a limited client that is disabled when the engine starts goes without
  its limit when it is enabled later; a limit that is half applied when tc
  fails stays half applied. A `clear` takes the filters of an address it read
  some steps ago: if its client was deleted or moved meanwhile, the next holder
  of the address loses its limit (`Robbed`). A client that comes back to an
  address where it left a filter behind is shaped although it has no limit any
  more (`Leftover`). `missed` names the clients a hole is open for. The `clear`
  after an address change looks the peer up with its new address (hence
  `Inherited`), and a restart of the interface leaves the ifb device with its
  filters. `Robbed` and `Leftover` came to light when the invariant of the
  proof turned out not to be inductive; the run had been too short for them.
- Traffic groups. A new default chosen while that group is being deleted
  leaves no default, and nothing makes one again (`crossed`); two groups
  created at once take one colour (`repeated`). Nothing sets a user's
  `defaultTrafficGroupId`, and PATCH accepts half of a pair of limits.
- AmneziaWG. Two starts that both find no headers draw different ones and
  the later one wins, after clients may have been given the first (`raced`); so
  it is when headers are entered while a start that found none has not saved
  its own. `bringUp` writes back a whole row it read before, and so undoes an
  edit (hence `calm`). The form of the interface posts the whole row, with the
  headers as the page was loaded with them or as they were changed or cleared
  (`api/admin/interface/index.post.ts:55`): clients that hold the old ones are
  locked out (`replaced`), and cleared ones are drawn anew at the next start, so
  that a configuration handed out in between, without headers, does not outlive
  it. `#dockerChecked` is set before the answer is known, so that
  commands meanwhile go to the host (`amneziawg/index.ts:125`).
- dnsmasq. The exit event of an old process clears the entry of the new one
  (`dnsmasq.ts:37`, `lost`), and that process is never stopped. `reload` only
  sends SIGHUP (`dnsmasq.ts:55`); the dnsmasq manual says that the
  configuration file is not read again on it, so that a change of the upstream
  server may wait for the next start. `ResolverSound` says with which file the
  process was started or signalled, not what dnsmasq makes of the signal.
- boringtun. A process that fails is respawned while the caller that started
  it still waits, and a respawn that sleeps while `stop` runs spawns after it
  (`process.ts:36`, `disturbed`); the count of restarts is set back by a stop
  only, not by a start that succeeds.
- Adding a router. A script with another user than the one already imported
  stops at a clash and leaves the rest undone, so that "idempotent"
  (`routers/index.vue:495`) holds for the same settings only; a form that is
  emptied after a creation forgets the mode's port; a fingerprint that is
  there, or on its way, when the host is edited is saved with the new host
  (`drifted`). With the password left blank the script makes one up at each
  change of the form; the row is saved without it (SSH) or refused (API).
- The page of a router. What is typed while a save is under way is overwritten
  by the answer; credentials entered in part are refused with 400, and those
  entered without an SSH key drop the one that was stored
  (`[id]/index.patch.ts:63`).
- The wizard. A refused request shows no banner at all; a binding that fails
  at the end shows both banners; after a stream that broke the run goes on, and a
  second one can be started beside it.
- The client's page sends every field, so that a page loaded before somebody
  else wrote puts the old row back. It enables again a client that was
  switched off for quota or expiration meanwhile.
- The card's thumb is set once (`Switch.vue:16`): after a change by somebody
  else, a failed request or a double click it shows the opposite, and the next
  click does the opposite of what it shows.
- Charts. "30d" asks for thirty days of which the rollup keeps seven; the
  sample after a counter restart counts in the quota and not in the chart;
  the first sample of a window is a baseline and never shown. Two choices in a
  row show the answer that came last, an error leaves the old chart, and the
  dashboard's cache never expires. `api/dashboard/clients/index.get.ts:26` looks
  up quotas by the client's id although they are kept per user.

Noted, not modelled: the mutation queue's backoff index
(`pendingMutation/service.ts:10-13,54`); `applySpeedLimitForClient` has no caller; `getPeriodDates` uses local
time and Sunday
(PRD 20-03:59,131 say UTC and Monday), gives a weekly period of more than five
weeks when the week began in the previous month, and overflows on days 29 to 31.

## Abstractions

- `PeerSync`: two clients' keys and addresses are the clients themselves; the
  queue's delays are a nondeterministic wait.
- `Firewall`: one chain stands for the IPv4 and the IPv6 one; `iptables -F` on
  a chain that exists succeeds; rule text is the client it belongs to.
- `QuotaPool`: one family, one pool; bytes are small numbers; a period is a
  step that may come at any time.
- `MikrotikSync`: the router accepts two peers with one public key; the API's
  refusal of an unknown id is modelled, SSH ignores it; the threshold is 2
  rather than 3.
- `RouterOsApi`: a sentence is its tag and whether it ends the reply; one router
  whose address does not change. A tagged `!fatal`, which would end a reply as an
  error (`routeros-api-protocol.ts:182`), is left out: without a tag it is
  dropped, and the close of the connection that comes with it is modelled.
- `RouterSetup`: ports, names and certificates' contents are left out; a change
  of the engine type of an attached router and a failure inside a restart
  (which leaves the interface down) are not modelled. Foreign keys are enforced
  (libsql's default) and a transaction is one step.
- `Login`: one account, one client and one address; a request shows one
  credential, tokens have the scopes they need, a login has the right password
  or changes nothing, and `updateLastUsed` is left out. Ages of challenges and
  attempts stop growing one tick past what the code tells apart.
- `Accounts`: callers are enabled administrators; passwords, TOTP, sessions,
  token scopes, router ACLs and the roles below are left out, as are updates
  that change only an e-mail address or a password.
- `Addresses`: one address family; a range is a pair of numbers.
- `Shaping`: the `add || change` of a class is one step, its filters come with
  it; class ids collide modulo `Slots` as they do modulo 65534; a command that
  deletes a filter of an address is taken to delete that filter and no other;
  peers of other interfaces and the queues of a router are left out.
- `TrafficGroups`: one user's clients, of which any may be in no group at the
  start (migration 15, `createFromExisting`); limits are left out, for nothing
  applies them to a peer.
- `AmneziaWg`: the settings are the headers and one more, which stands for all
  else that an administrator edits; the four headers are one, and the whole set
  is absent when the first is. The row that the edit's route writes and reads
  again is one step. `awg syncconf` with a file that names no headers may leave
  the device those it had or not.
- `Resolver`, `Boringtun`: a signal arrives, the process ends some time later;
  the daemon is known by its device and socket only, and `pkill` and the
  removal of its socket (`process.ts`) are one step.
- `RouterDialog`: one device, its accounts, services and rules by name; the way
  to reach it, user and password are what a script depends on. A password is
  entered, and RouterOS lets a group go whose users are there.
- `RouterPage`: the account is one field; an entered value is not validated
  again.
- `Wizard`: the steps are numbers; what they do is in `RouterSetup`.
- `ClientPage`: one client; all fields but `enabled` are one; one request per
  tab; the engine's errors after a write count as a lost answer.
- `UsageChart`: one direction of traffic, one poll at a time.
- `UsagePage`: one client; the answers are known by their range.

## Plan

Built, in this order: client sync, firewall, quota, MikroTik sync, API
transport, router administration, accounts and setup, login; then speed limits
and addresses, traffic groups, the three child processes and engines, the
router pages and the wizard, the client's page, the charts. Next:

1. The queues of a MikroTik router under `Shaping`, and the SSH transport under
   `RouterOsApi`'s callers.
2. `getPeriodDates` against a reference calendar.

## Not modelled

The SSH transport (one process per command, no state between commands), the
queues of a MikroTik router, hooks (strings handed to wg-quick), the text of
configurations and QR codes, routes that only copy rows, metrics, command line
tools (separate programs that read the database or reset one password), the
pages that post what was entered and keep nothing. The audit log is modelled
only as what holds an account in place, the migrations only as what they do at a
start.

## Running

`tlc -config X.cfg M` checks a run: `PeerSync*.cfg` with `MCPeerSync`,
`QuotaPool.cfg` with `MCQuotaPool`, `Machines.cfg` with `MCMachines`, and so on;
the violated ones end with their counterexample. `tlapm XProofs.tla` checks the
proofs of a component: `MachinesProofs` takes about twenty minutes, the others
one to a few minutes each.
