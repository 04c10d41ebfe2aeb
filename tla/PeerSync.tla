------------------------------ MODULE PeerSync ------------------------------
(***************************************************************************)
(* The path on which a change of the clients table reaches the WireGuard   *)
(* interface: API handlers, the expiration enforcer, the engine's cron     *)
(* job, the reconciler and the mutation queue all end in                   *)
(* engine.syncInterface, which reads the table, rewrites wg0.conf and runs *)
(* `wg syncconf`.  Node.js interleaves them at every await; nothing        *)
(* serialises two syncs.                                                   *)
(*                                                                         *)
(* A job is one asynchronous call chain: a request being handled or one    *)
(* tick of a timer.  Ticks of the same timer may overlap.                  *)
(***************************************************************************)
EXTENDS Naturals, FiniteSets

CONSTANTS
    Clients,      \* rows that may ever exist in clients_table
    Jobs,         \* call chains that may be in flight at the same time
    MaxAttempts,  \* pendingMutations.maxAttempts
    MaxRequests,  \* bound: API requests in a behaviour
    MaxFails,     \* bound: engine failures in a behaviour (the outage ends)
    MaxCrashes    \* bound: restarts of the container

ASSUME ConstAssumption ==
    /\ MaxAttempts \in Nat \ {0}
    /\ MaxRequests \in Nat
    /\ MaxFails \in Nat
    /\ MaxCrashes \in Nat

VARIABLES
    db,       \* clients_table: "none" (id never used), "on", "off", "gone"
    expired,  \* clients whose expiresAt lies in the past
    queue,    \* rows of pending_mutation
    nextId,   \* AUTOINCREMENT of pending_mutation.id
    conf,     \* peers written in wg0.conf
    live,     \* peers configured in the interface
    iface,    \* does the network interface exist?
    phase,    \* of the server process
    job,      \* the call chains
    lapse,    \* history: a failure was swallowed since the last good sync
    requests, fails, crashes    \* counters behind the bounds

vars == <<db, expired, queue, nextId, conf, live, iface, phase, job, lapse,
          requests, fails, crashes>>

RequestOps == {"create", "enable", "disable", "delete", "update"}
TimerOps   == {"enforce", "cron", "reconcile", "drain"}
Ops        == RequestOps \union TimerOps \union {"boot"}

NoClient == "noClient"

Rows == [id : Nat \ {0}, client : Clients \union {NoClient}, attempts : Nat]

\* The local variables of a call chain and the await it stands at.
Job == [at     : {"idle", "write", "next", "read", "open", "file", "up", "sync",
                  "ack", "nack"},
        op     : Ops,
        client : Clients \union {NoClient},
        todo   : SUBSET Clients,      \* expired clients still to handle
        due    : SUBSET Rows,         \* due mutations still to handle, as read
        snap   : SUBSET Clients]      \* enabled peers of the getAll() result

Idle == [at |-> "idle", op |-> "reconcile", client |-> NoClient,
         todo |-> {}, due |-> {}, snap |-> {}]

Exists(c) == db[c] \in {"on", "off"}
Enabled   == {c \in Clients : db[c] = "on"}

\* clients.findExpired, and its mutant with the comparison reversed.
ExpiringLater == Enabled \ expired
Expiring      == Enabled \intersect expired

\* The rows #writeConfig lists; mutant: without the test of client.enabled.
ConfigAll   == {c \in Clients : Exists(c)}
ConfigPeers == Enabled

\* The peers left by `wg syncconf`; mutant: `wg addconf`.
AddedPeers  == live \union conf
SyncedPeers == conf

Goto(j, at)   == job' = [job EXCEPT ![j].at = at]
Finish(j)     == job' = [job EXCEPT ![j] = Idle]
Start(j, rec) == job[j] = Idle /\ job' = [job EXCEPT ![j] = rec]

Counters == <<requests, fails, crashes>>
Engine   == <<conf, live, iface>>
Table    == <<db, expired, queue, nextId>>

Init ==
    /\ db \in [Clients -> {"none", "on", "off"}]
    /\ expired \in SUBSET {c \in Clients : db[c] # "none"}
    /\ queue = {}
    /\ nextId = 1
    /\ conf = Enabled
    /\ live = Enabled
    /\ iface = TRUE
    /\ phase = "running"
    /\ job = [j \in Jobs |-> Idle]
    /\ lapse = FALSE
    /\ requests = 0 /\ fails = 0 /\ crashes = 0

-----------------------------------------------------------------------------
(* API handlers: checks first, then the table, in separate statements.     *)

Arrive(j, op, c) ==
    /\ phase # "down"
    /\ requests < MaxRequests
    /\ Start(j, [Idle EXCEPT !.at = "write", !.op = op, !.client = c])
    /\ requests' = requests + 1
    /\ UNCHANGED <<Table, Engine, phase, lapse, fails, crashes>>

\* The checks of each handler, up to its first statement that changes a row.
CreateRequest(j, c) ==
    /\ db[c] = "none"
    /\ \A k \in Jobs : ~(job[k].op = "create" /\ job[k].client = c)
    /\ Arrive(j, "create", c)

EnableRequest(j, c)  == Exists(c) /\ c \notin expired /\ Arrive(j, "enable", c)
DisableRequest(j, c) == Exists(c) /\ Arrive(j, "disable", c)
DeleteRequest(j, c)  == Exists(c) /\ Arrive(j, "delete", c)
UpdateRequest(j, c)  == Exists(c) /\ Arrive(j, "update", c)

Request(j, c) ==
    \/ CreateRequest(j, c) \/ EnableRequest(j, c) \/ DisableRequest(j, c)
    \/ DeleteRequest(j, c) \/ UpdateRequest(j, c)

\* clients.create; every new row has an id of its own.
CreateRow(c) == db' = [db EXCEPT ![c] = "on"] /\ UNCHANGED <<expired, queue>>

\* clients.toggle, delete and update match nothing once the row is gone.
Toggle(c, v) ==
    /\ db' = [db EXCEPT ![c] = IF Exists(c) THEN v ELSE @]
    /\ UNCHANGED <<expired, queue>>

\* Deleting a client deletes its rows of the queue (onDelete: cascade).
DeleteRow(c) ==
    /\ db' = [db EXCEPT ![c] = "gone"]
    /\ queue' = {r \in queue : r.client # c}
    /\ UNCHANGED expired

\* The body of an update carries the whole row: enabled and expiresAt as the
\* form had them.
UpdateRow(c) ==
    /\ \/ /\ Exists(c)
          /\ \E v \in {"on", "off"} : db' = [db EXCEPT ![c] = v]
          /\ \E e \in {expired \ {c}, expired \union {c}} : expired' = e
       \/ ~Exists(c) /\ UNCHANGED <<db, expired>>
    /\ UNCHANGED queue

\* The create handler disables the new client of a user who is over quota
\* with a second statement.
WriteRow(j) ==
    LET c == job[j].client IN
    /\ job[j].at = "write"
    /\ \/ Goto(j, "read")
       \/ job[j].op = "create" /\ job' = [job EXCEPT ![j].op = "disable"]
    /\ \/ job[j].op = "create" /\ CreateRow(c)
       \/ job[j].op = "enable" /\ Toggle(c, "on")
       \/ job[j].op = "disable" /\ Toggle(c, "off")
       \/ job[j].op = "delete" /\ DeleteRow(c)
       \/ job[j].op = "update" /\ UpdateRow(c)
    /\ UNCHANGED <<nextId, Engine, phase, lapse, Counters>>

-----------------------------------------------------------------------------
(* Timers of scheduler/index.ts and of the engine.                         *)

Scheduled == phase \in {"running", "degraded"}

\* runExpirationEnforcer: a list of expired clients, handled one at a time.
StartEnforcer(j) ==
    /\ Scheduled /\ Expiring # {}
    /\ Start(j, [Idle EXCEPT !.at = "next", !.op = "enforce", !.todo = Expiring])
    /\ UNCHANGED <<Table, Engine, phase, lapse, Counters>>

\* #cronJob: the same list; the cron job exists once bringUp succeeded.
StartCron(j) ==
    /\ phase = "running" /\ Expiring # {}
    /\ Start(j, [Idle EXCEPT !.at = "next", !.op = "cron", !.todo = Expiring])
    /\ UNCHANGED <<Table, Engine, phase, lapse, Counters>>

\* clients.toggle(id, false) for the next client of the list as it was read:
\* the enforcer then calls disablePeer, the cron job goes on to the next one
\* and syncs once at the end.
ToggleOff(j) ==
    /\ job[j].at = "next" /\ job[j].op \in {"enforce", "cron"}
    /\ \E c \in job[j].todo :
          /\ Toggle(c, "off")
          /\ job' = [job EXCEPT ![j].todo = @ \ {c}, ![j].client = c,
                                ![j].at = IF job[j].op = "enforce" \/ job[j].todo = {c}
                                          THEN "read" ELSE "next"]
    /\ UNCHANGED <<nextId, Engine, phase, lapse, Counters>>

EnforcerDone(j) ==
    /\ job[j].at = "next" /\ job[j].op = "enforce" /\ job[j].todo = {}
    /\ Finish(j)
    /\ UNCHANGED <<Table, Engine, phase, lapse, Counters>>

StartReconciler(j) ==
    /\ Scheduled
    /\ Start(j, [Idle EXCEPT !.at = "read", !.op = "reconcile"])
    /\ UNCHANGED <<Table, Engine, phase, lapse, Counters>>

\* runMutationQueue: reads the due rows once.  Backoff is left to chance here:
\* any row may be due (module MutationQueue has the clock).
StartDrain(j) ==
    /\ Scheduled
    /\ \E due \in SUBSET queue \ {{}} :
          Start(j, [Idle EXCEPT !.at = "next", !.op = "drain", !.due = due])
    /\ UNCHANGED <<Table, Engine, phase, lapse, Counters>>

\* The oldest row left of a drain: rows are read ORDER BY createdAt.
Current(j) == CHOOSE r \in job[j].due : \A s \in job[j].due : r.id <= s.id

DrainNext(j) ==
    /\ job[j].at = "next" /\ job[j].op = "drain"
    /\ IF job[j].due = {} THEN Finish(j) ELSE Goto(j, "read")
    /\ UNCHANGED <<Table, Engine, phase, lapse, Counters>>

-----------------------------------------------------------------------------
(* engine.syncInterface(iface, await clients.getAll())                     *)

\* clients.getAll()
ReadClients(j) ==
    /\ job[j].at = "read"
    /\ job' = [job EXCEPT ![j].snap = ConfigPeers, ![j].at = "open"]
    /\ UNCHANGED <<Table, Engine, phase, lapse, Counters>>

\* writeFile opens wg0.conf with O_TRUNC ...
OpenConf(j) ==
    /\ job[j].at = "open"
    /\ conf' = {}
    /\ Goto(j, "file")
    /\ UNCHANGED <<Table, live, iface, phase, lapse, Counters>>

\* ... and writes from offset 0.  What another job wrote since the truncation
\* survives beyond the end of a shorter text.
WriteConf(j) ==
    /\ job[j].at = "file"
    /\ \E tail \in SUBSET (conf \ job[j].snap) :
          /\ Cardinality(conf) <= Cardinality(job[j].snap) => tail = {}
          /\ conf' = job[j].snap \union tail
    /\ Goto(j, IF job[j].op = "boot" THEN "up" ELSE "sync")
    /\ UNCHANGED <<Table, live, iface, phase, lapse, Counters>>

\* bringUp only: `wg-quick down; wg-quick up`.
WgQuickUp(j) ==
    /\ job[j].at = "up"
    /\ iface' = TRUE
    /\ live' = conf
    /\ Goto(j, "sync")
    /\ UNCHANGED <<Table, conf, phase, lapse, Counters>>

\* `wg syncconf`: the interface takes the file as it is now.  The rest of
\* syncInterface (firewall, dnsmasq) may still throw.
SyncConf(j) ==
    /\ job[j].at = "sync" /\ iface
    /\ live' = SyncedPeers
    /\ \/ Goto(j, "ack") /\ lapse' = FALSE /\ UNCHANGED fails
       \/ fails < MaxFails /\ fails' = fails + 1 /\ Goto(j, "nack") /\ UNCHANGED lapse
    /\ UNCHANGED <<Table, conf, iface, phase, requests, crashes>>

\* An error before the interface changed; without an interface `wg syncconf`
\* always fails.
SyncFails(j) ==
    /\ \/ job[j].at \in {"open", "up", "sync"} /\ fails < MaxFails /\ fails' = fails + 1
       \/ job[j].at = "sync" /\ ~iface /\ UNCHANGED fails
    /\ Goto(j, "nack")
    /\ UNCHANGED <<Table, Engine, phase, lapse, requests, crashes>>

-----------------------------------------------------------------------------
(* What each caller does with the outcome.                                 *)

\* Handler, cron job, reconciler: return.
Return(j) ==
    /\ job[j].at = "ack" /\ job[j].op \in RequestOps \union {"cron", "reconcile"}
    /\ Finish(j)
    /\ UNCHANGED <<Table, Engine, phase, lapse, Counters>>

\* pendingMutations.enqueue; mutant: nothing is stored.
StoreNothing(c) == UNCHANGED <<queue, nextId>>
StoreRow(c) ==
    /\ queue' = queue \union {[id |-> nextId, client |-> c, attempts |-> 0]}
    /\ nextId' = nextId + 1

\* The foreign key of pending_mutation.client_id.
Insertable(c) == c \in Clients => Exists(c)

\* syncOrEnqueue's catch: a row for the mutation queue.  The insert is refused
\* when its client no longer exists, and then the handler throws.
Enqueue(j) ==
    LET c == IF job[j].op = "delete" THEN NoClient ELSE job[j].client IN
    /\ job[j].at = "nack" /\ job[j].op \in RequestOps
    /\ Finish(j)
    /\ \/ Insertable(c) /\ StoreRow(c) /\ UNCHANGED lapse
       \/ ~Insertable(c) /\ lapse' = TRUE /\ UNCHANGED <<queue, nextId>>
    /\ UNCHANGED <<db, expired, Engine, phase, Counters>>

\* Enforcer and cron job: an audit row or a log line, nothing is queued.
\* The reconciler's error changes nothing that an earlier one did not.
Swallow(j) ==
    /\ job[j].at = "nack" /\ job[j].op \in {"enforce", "cron", "reconcile"}
    /\ IF job[j].op = "enforce" THEN Goto(j, "next") ELSE Finish(j)
    /\ lapse' = (lapse \/ job[j].op # "reconcile")
    /\ UNCHANGED <<Table, Engine, phase, Counters>>

\* The enforcer's next client after a success.
EnforcerNext(j) ==
    /\ job[j].at = "ack" /\ job[j].op = "enforce"
    /\ Goto(j, "next")
    /\ UNCHANGED <<Table, Engine, phase, lapse, Counters>>

NextRow(j) == job' = [job EXCEPT ![j].due = @ \ {Current(j)}, ![j].at = "next"]

\* markSuccess
DrainAck(j) ==
    /\ job[j].at = "ack" /\ job[j].op = "drain"
    /\ queue' = {r \in queue : r.id # Current(j).id}
    /\ NextRow(j)
    /\ UNCHANGED <<db, expired, nextId, Engine, phase, lapse, Counters>>

\* mutation.attempts + 1 of the row as it was read.
NewAttempts(j) == Current(j).attempts + 1

\* Mutant: one attempt too many.
GivesUpLate(n) == n > MaxAttempts
GivesUp(n)     == n >= MaxAttempts

\* markFailure, or give up and delete.
DrainNack(j) ==
    LET n == NewAttempts(j) IN
    /\ job[j].at = "nack" /\ job[j].op = "drain"
    /\ IF GivesUp(n)
         THEN /\ queue' = {r \in queue : r.id # Current(j).id}
              /\ lapse' = TRUE
         ELSE /\ queue' = {IF r.id = Current(j).id THEN [r EXCEPT !.attempts = n] ELSE r
                             : r \in queue}
              /\ UNCHANGED lapse
    /\ NextRow(j)
    /\ UNCHANGED <<db, expired, nextId, Engine, phase, Counters>>

-----------------------------------------------------------------------------
(* Process life.  The container's interface goes away with the process.    *)

Crash ==
    /\ phase # "down" /\ crashes < MaxCrashes
    /\ crashes' = crashes + 1
    /\ phase' = "down"
    /\ iface' = FALSE
    /\ live' = {}
    /\ job' = [j \in Jobs |-> Idle]
    /\ UNCHANGED <<Table, conf, lapse, requests, fails>>

\* connect().then: the provider is set, requests are served, bringUp runs.
Boot(j) ==
    /\ phase = "down"
    /\ phase' = "booting"
    /\ Start(j, [Idle EXCEPT !.at = "read", !.op = "boot"])
    /\ UNCHANGED <<Table, Engine, lapse, Counters>>

\* startScheduler runs whether bringUp succeeded or was caught.
BootDone(j) ==
    /\ job[j].at \in {"ack", "nack"} /\ job[j].op = "boot"
    /\ phase' = IF job[j].at = "ack" THEN "running" ELSE "degraded"
    /\ lapse' = (lapse \/ job[j].at = "nack")
    /\ Finish(j)
    /\ UNCHANGED <<Table, Engine, Counters>>

\* Time passes an expiresAt.
Expire(c) ==
    /\ Exists(c) /\ c \notin expired
    /\ expired' = expired \union {c}
    /\ UNCHANGED <<db, queue, nextId, Engine, phase, job, lapse, Counters>>

-----------------------------------------------------------------------------

Timers(j) == StartEnforcer(j) \/ StartCron(j) \/ StartReconciler(j) \/ StartDrain(j)

Sync(j) ==
    \/ ReadClients(j) \/ OpenConf(j) \/ WriteConf(j) \/ WgQuickUp(j)
    \/ SyncConf(j) \/ SyncFails(j)

Outcome(j) ==
    \/ Return(j) \/ Enqueue(j) \/ Swallow(j) \/ EnforcerNext(j)
    \/ DrainAck(j) \/ DrainNack(j) \/ BootDone(j)

\* The steps a call chain takes by itself once it started.
Continue(j) ==
    \/ WriteRow(j) \/ ToggleOff(j) \/ EnforcerDone(j) \/ DrainNext(j)
    \/ Sync(j) \/ Outcome(j)

Next ==
    \/ \E j \in Jobs, c \in Clients : Request(j, c)
    \/ \E j \in Jobs : Timers(j) \/ Continue(j) \/ Boot(j)
    \/ Crash
    \/ \E c \in Clients : Expire(c)

\* Awaited calls settle, the container is restarted, timers keep firing.  The
\* bound on Jobs is the model's own: in the code a tick always finds room, so
\* the timers get strong fairness.
Fairness ==
    /\ \A j \in Jobs : WF_vars(Continue(j))
    /\ SF_vars(\E j \in Jobs : StartEnforcer(j))
    /\ SF_vars(\E j \in Jobs : StartReconciler(j))
    /\ SF_vars(\E j \in Jobs : StartDrain(j))
    /\ WF_vars(\E j \in Jobs : Boot(j))

Spec     == Init /\ [][Next]_vars
FairSpec == Spec /\ Fairness

-----------------------------------------------------------------------------
(* Properties *)

TypeOK ==
    /\ db \in [Clients -> {"none", "on", "off", "gone"}]
    /\ expired \in SUBSET Clients
    /\ queue \in SUBSET Rows
    /\ nextId \in Nat \ {0}
    /\ conf \in SUBSET Clients
    /\ live \in SUBSET Clients
    /\ iface \in BOOLEAN
    /\ phase \in {"down", "booting", "running", "degraded"}
    /\ job \in [Jobs -> Job]
    /\ lapse \in BOOLEAN
    /\ requests \in 0..MaxRequests
    /\ fails \in 0..MaxFails
    /\ crashes \in 0..MaxCrashes

\* The rows of the queue stay well formed however drains, requests and
\* deletions interleave: ids are unique, a row never outlives its client (the
\* foreign key and its cascade) and never stays at MaxAttempts (give up).
QueueSound ==
    /\ \A r, s \in queue : r.id = s.id => r = s
    /\ \A r \in queue :
         /\ r.id < nextId
         /\ r.client \in Clients => Exists(r.client)
         /\ r.attempts < MaxAttempts

Quiet == \A j \in Jobs : job[j] = Idle

\* No lost repair: once every call chain has returned, an interface that
\* differs from the table is owed a repair by the queue, unless a failure was
\* swallowed.  It holds where syncs never overlap (one job at a time).
RepairOwed ==
    (Quiet /\ phase \in {"running", "degraded"} /\ live # Enabled)
        => (queue # {} \/ lapse)

\* PRD-60-06 "guarantees eventual consistency between DB and router for any
\* transient outage": whatever stale snapshots, torn files, failures and
\* restarts came before, once the last boot brought the interface up and syncs
\* stop overlapping, the interface ends up with exactly the enabled clients.
Calm == \A j, k \in Jobs : j # k => Idle \in {job[j], job[k]}
Converges == <>[](phase = "running" /\ Calm) => <>[](live = Enabled)

\* A client whose expiration has passed for good is cut off, also when the
\* enforcer's engine call failed or raced an enable request.
ExpiredCutOff ==
    \A c \in Clients :
        <>[](c \in expired /\ phase = "running") => <>[](c \notin live)

\* Where syncs never overlap, each one is an atomic copy of the table.
Mirrored == INSTANCE Mirror WITH Peers <- Clients, want <- Enabled, have <- live
MirrorSpec == Mirrored!Spec

\* PRD-60-06: the reconciler and the queue give eventual consistency for any
\* transient outage, also one that hits while the server starts.
OutageHeals == <>[](phase # "down" /\ Calm) => <>[](live = Enabled)
=============================================================================
