----------------------------- MODULE RouterSetup -----------------------------
(* How a MikroTik router is set up: the bootstrap wizard, the binding of the *)
(* interface to a router, the obfuscator that is deployed on the router or   *)
(* next to the server, and the rows of the routers.  Each of these is a      *)
(* chain of commands with an await between any two, may stop at any command  *)
(* (executed or not), and is never rolled back; a restart of the process     *)
(* ends it where it is.                                                      *)
EXTENDS Integers, FiniteSets, Sequences

CONSTANTS
  Routers,      \* MikroTik routers
  Jobs,         \* requests that may overlap
  Alone,        \* the administrator waits for a request that adds or removes
                \* objects before making another one of that sort
  MaxRequests, MaxFails, MaxCrashes

None == "none"    \* no request, no command, no obfuscator
Self == "self"    \* the router row of the server's own kernel, never deleted
Host == "host"    \* the server, which may run the obfuscator as a sidecar

ASSUME NamesAssumption == {None, Self, Host} \intersect Routers = {}
ASSUME BoundsAssumption == Alone \in BOOLEAN /\ {MaxRequests, MaxFails, MaxCrashes} \subseteq Nat

VARIABLES
  row,        \* the routers table
  bound,      \* routerId of the interface row
  config,     \* deployment mode of the wg_obfuscator_config row
  hostFile,   \* the sidecar has a configuration file
  device,     \* how many objects of each kind a router has
  job,        \* requests in progress
  forgotten,  \* history: places where an obfuscator was left, see Aborts and Bind
  requests, fails, crashes

vars   == <<row, bound, config, hostFile, device, job, forgotten, requests, fails, crashes>>
Tables == <<row, bound, config>>
Bounds == <<requests, fails, crashes>>

Sidecar == {"veth", "vethAddress", "mount", "container", "file", "dstnat"}
\* "service" is the certificate of the API service, "key" the private key of
\* the interface when it is the one in the database.
Things  == Sidecar \union {"interface", "address", "input", "masquerade", "user",
                           "ca", "server", "service", "key"}
Modes   == {None, Host, "router"}

\* present: the row exists; opens: its credentials open a session.
Row == [present : BOOLEAN, opens : BOOLEAN]

\* A command: what it does, and to which kind of object, or what else.
Others  == {"sign", "start", "test", "persist", "activate", "writeHost", "storeHost",
            "storeRouter", "removeHost", "deleteRow", "deleteRouter"}
Command == {"ensure", "remove", "run", "db"} \X (Things \union Others)

(***************************************************************************)
(* The requests: what is left to do, one command after the other.  ensure  *)
(* and remove look before they act; run acts at once; db writes the        *)
(* database.                                                               *)
(***************************************************************************)
Each(do, things) == [i \in DOMAIN things |-> <<do, things[i]>>]

ClosingSteps == <<<<"run", "service">>, <<"db", "persist">>, <<"run", "test">>,
                  <<"db", "activate">>>>
ServerSteps  == <<<<"ensure", "server">>, <<"run", "sign">>>> \o ClosingSteps
BootstrapSteps ==
  Each("ensure", <<"interface", "address", "input", "masquerade", "user", "ca">>)
    \o <<<<"run", "sign">>>> \o ServerSteps
DeploySteps ==
  Each("ensure", <<"veth", "vethAddress", "mount", "container", "file">>)
    \o <<<<"run", "start">>, <<"ensure", "dstnat">>>>
RemoveSteps ==
  Each("remove", <<"container", "mount", "dstnat", "veth", "vethAddress", "file">>)

\* old: the mode the handler read; key: the session of the wizard uses a key.
Request(kind, r, todo) ==
  [kind |-> kind, router |-> r, todo |-> todo, seen |-> FALSE, found |-> 0,
   old |-> config, key |-> FALSE]
Idle == [kind |-> None, router |-> Self, todo |-> <<>>, seen |-> FALSE, found |-> 0,
         old |-> None, key |-> FALSE]

Running(j) == job[j].kind # None
\* The requests that add or remove objects.
Changing   == {"bootstrap", "host", "router", "disable"}
MayStart(kind) ==
  Alone /\ kind \in Changing => \A i \in Jobs : job[i].kind \notin Changing
Current(j) == job[j].todo[1]
At(j, do)  == job[j].todo # <<>> /\ Current(j)[1] = do
Is(j, do, t) == At(j, do) /\ Current(j)[2] = t

Registered(r) == IF r = Self THEN TRUE ELSE row[r].present

Init ==
  /\ row = [r \in Routers |-> [present |-> TRUE, opens |-> TRUE]]
  /\ bound = Self /\ config = None /\ hostFile = FALSE
  /\ device = [r \in Routers |-> [t \in Things |-> 0]]
  /\ job = [j \in Jobs |-> Idle] /\ forgotten = {}
  /\ requests = 0 /\ fails = 0 /\ crashes = 0

(***************************************************************************)
(* Requests arrive.                                                        *)
(***************************************************************************)
Start(j, r) ==
  /\ ~Running(j) /\ MayStart(r.kind) /\ requests < MaxRequests
  /\ job' = [job EXCEPT ![j] = r] /\ requests' = requests + 1
  /\ UNCHANGED <<Tables, hostFile, device, forgotten, fails, crashes>>

\* The handler of the wizard reads the row of the router.
Bootstrap(j) ==
  \E r \in Routers, key \in BOOLEAN :
    row[r].present /\ Start(j, [Request("bootstrap", r, BootstrapSteps) EXCEPT !.key = key])

\* The obfuscation handler: interface and row are read here and not again.
\* Switching to the host tears the router down after the row is written.
HostMode(j) ==
  /\ bound \in Routers
  /\ Start(j, Request("host", bound,
       <<<<"db", "writeHost">>, <<"db", "storeHost">>>>
         \o (IF config = "router" THEN RemoveSteps ELSE <<>>)))

RouterMode(j) ==
  /\ bound \in Routers
  /\ \E deploy \in {DeploySteps, <<>>} :
       Start(j, Request("router", bound,
         deploy \o <<<<"db", "storeRouter">>>>
           \o (IF config = Host THEN <<<<"db", "removeHost">>>> ELSE <<>>)))

\* Mutant: the row goes before the objects on the router.
RowFirst   == <<<<"db", "deleteRow">>>> \o RemoveSteps
RouterGone == RemoveSteps \o <<<<"db", "deleteRow">>>>

Disable(j) ==
  /\ bound \in Routers /\ config # None
  /\ Start(j, Request("disable", bound,
       IF config = Host THEN <<<<"db", "removeHost">>, <<"db", "deleteRow">>>>
                        ELSE RouterGone))

ActivateRequest(j) ==
  \E r \in Routers \union {Self} :
    /\ Registered(r)
    /\ Start(j, Request("activate", r, <<<<"db", "activate">>>>))

DeleteRequest(j) ==
  \E r \in Routers :
    row[r].present /\ bound # r /\ Start(j, Request("delete", r, <<<<"db", "deleteRouter">>>>))

\* bringUp: at boot, and from the restart endpoint, which first takes the
\* interface down.
RestartRequest(j) ==
  bound \in Routers /\ Start(j, Request("restart", bound, <<<<"run", "key">>>>))

(***************************************************************************)
(* Commands.                                                               *)
(***************************************************************************)
\* After its last command a request is over.
Advance(j, todo) ==
  job' = [job EXCEPT ![j] = IF todo = <<>> THEN Idle
                            ELSE [@ EXCEPT !.todo = todo, !.seen = FALSE, !.found = 0]]

\* An object that is there is written again, or left alone and the step is
\* over; with the certificate its whole branch is skipped.
Rewritten == {"interface", "user", "file"}
SkipTo(j) ==
  IF Current(j)[2] \in {"ca", "server"} THEN ClosingSteps ELSE Tail(job[j].todo)

\* The objects a print finds.  Mutant: a filter that matches nothing.
FoundNone(r, t) == 0
Found(r, t)     == device[r][t]

Needed(j, n) ==
  IF At(j, "ensure") THEN n = 0 \/ Current(j)[2] \in Rewritten ELSE n > 0

Look(j) ==
  /\ At(j, "ensure") \/ At(j, "remove")
  /\ ~job[j].seen
  /\ LET n == Found(job[j].router, Current(j)[2])
     IN  IF Needed(j, n)
           THEN job' = [job EXCEPT ![j].seen = TRUE, ![j].found = n]
           ELSE Advance(j, SkipTo(j))
  /\ UNCHANGED <<Tables, hostFile, device, forgotten, Bounds>>

Ready(j) == job[j].seen \/ At(j, "run")

\* bringUp throws without an interface.
Throws(j) == Is(j, "run", "key") /\ device[job[j].router]["interface"] = 0

\* remove takes every address and rule away, and one of the other objects.
Count(j, t, n) ==
  CASE At(j, "ensure") -> IF job[j].found = 0 THEN n + 1 ELSE n
    [] At(j, "remove") -> IF t \in {"dstnat", "vethAddress"} \/ n = 0 THEN 0 ELSE n - 1
    [] OTHER           -> IF t \in {"service", "key"} THEN 1 ELSE n

Effect(j) ==
  IF Current(j)[2] \notin Things \/ Throws(j) THEN device
  ELSE [device EXCEPT ![job[j].router][Current(j)[2]] = Count(j, Current(j)[2], @)]

Execute(j) ==
  /\ Running(j) /\ job[j].todo # <<>> /\ Ready(j) /\ ~Throws(j)
  /\ device' = Effect(j) /\ Advance(j, Tail(job[j].todo))
  /\ UNCHANGED <<Tables, hostFile, forgotten, Bounds>>

\* What a request that ends early leaves behind: one that was switching the
\* obfuscator to another place may leave it at both.
Aborts(j) ==
  IF job[j].kind \in {Host, "router"} /\ job[j].old # job[j].kind
    THEN {job[j].router, Host} ELSE {}

\* After an error the wizard stops.  Mutant: it goes on with the next step.
GoesOn(j)    == Advance(j, Tail(job[j].todo))
StopsHere(j) == Advance(j, <<>>)

\* A command fails, before the router executes it or after; bringUp finds no
\* interface; the stored credentials are refused, or, if a connection from
\* before is in the pool, they are not asked for.
Fail(j) ==
  /\ At(j, "ensure") \/ At(j, "remove") \/ At(j, "run")
  /\ \/ Throws(j) /\ UNCHANGED fails
     \/ job[j].kind # "bootstrap" /\ ~row[job[j].router].opens /\ UNCHANGED fails
     \/ fails < MaxFails /\ fails' = fails + 1
  /\ device' \in IF Ready(j) THEN {device, Effect(j)} ELSE {device}
  /\ StopsHere(j) /\ forgotten' = forgotten \union Aborts(j)
  /\ UNCHANGED <<Tables, hostFile, requests, crashes>>

(***************************************************************************)
(* The database and the file of the sidecar.                               *)
(***************************************************************************)

\* The wizard stores the key of its session, never its password: the stored
\* password is that of the API user, under the name of the SSH user.
Persist(j) ==
  /\ Is(j, "db", "persist")
  /\ row' = [row EXCEPT ![job[j].router].opens = IF row[job[j].router].present
                                                   THEN job[j].key ELSE @]
  /\ Advance(j, Tail(job[j].todo))
  /\ UNCHANGED <<bound, config, hostFile, device, forgotten, Bounds>>

\* The foreign key of the interface row.  Mutant: no constraint.
Unconstrained(r) == TRUE
Referable(r)     == Registered(r)

\* Activation, from the endpoint or at the end of the wizard.  An obfuscator
\* on the router that was bound before is out of reach from now on.
Bind(j) ==
  /\ Is(j, "db", "activate")
  /\ IF Referable(job[j].router)
       THEN /\ bound' = job[j].router
            /\ forgotten' = forgotten \union ({bound} \ {job[j].router, Self})
       ELSE UNCHANGED <<bound, forgotten>>
  /\ Advance(j, <<>>)
  /\ UNCHANGED <<row, config, hostFile, device, Bounds>>

\* The row of a router goes unless the interface has come to refer to it.
Free(r) == bound # r

DeleteRouter(j) ==
  /\ Is(j, "db", "deleteRouter")
  /\ row' = [row EXCEPT ![job[j].router].present = ~Free(job[j].router)]
  /\ Advance(j, <<>>)
  /\ UNCHANGED <<bound, config, hostFile, device, forgotten, Bounds>>

WriteHost(j) ==
  /\ Is(j, "db", "writeHost") /\ hostFile' = TRUE /\ Advance(j, Tail(job[j].todo))
  /\ UNCHANGED <<Tables, device, forgotten, Bounds>>

\* The handler updates the row it read, or creates one.
StoreMode(j) ==
  /\ Is(j, "db", "storeHost") \/ Is(j, "db", "storeRouter")
  /\ config' = (IF Is(j, "db", "storeHost") THEN Host ELSE "router")
  /\ Advance(j, Tail(job[j].todo))
  /\ UNCHANGED <<row, bound, hostFile, device, forgotten, Bounds>>

\* removeConfig; the handler ignores that it failed.
RemoveHost(j) ==
  /\ Is(j, "db", "removeHost") /\ Advance(j, Tail(job[j].todo))
  /\ \/ hostFile' = FALSE /\ UNCHANGED <<fails, forgotten>>
     \/ /\ fails < MaxFails /\ fails' = fails + 1
        /\ forgotten' = forgotten \union {Host} /\ UNCHANGED hostFile
  /\ UNCHANGED <<Tables, device, requests, crashes>>

DeleteRow(j) ==
  /\ Is(j, "db", "deleteRow") /\ config' = None /\ Advance(j, Tail(job[j].todo))
  /\ forgotten' = IF job[j].old = "router" THEN forgotten \ {job[j].router} ELSE forgotten
  /\ UNCHANGED <<row, bound, hostFile, device, Bounds>>

\* A router is registered, again after it was deleted, or its credentials are
\* entered by hand.
Edit(r) ==
  /\ requests < MaxRequests /\ requests' = requests + 1
  /\ row' = [row EXCEPT ![r] = [present |-> TRUE, opens |-> TRUE]]
  /\ UNCHANGED <<bound, config, hostFile, device, job, forgotten, fails, crashes>>
Create(r) == ~row[r].present /\ Edit(r)
Update(r) == row[r].present /\ ~row[r].opens /\ Edit(r)

Crash ==
  /\ crashes < MaxCrashes /\ crashes' = crashes + 1
  /\ job' = [j \in Jobs |-> Idle]
  /\ forgotten' = forgotten \union UNION {Aborts(j) : j \in Jobs}
  /\ UNCHANGED <<Tables, hostFile, device, requests, fails>>

Next ==
  \/ \E j \in Jobs :
       \/ Bootstrap(j) \/ HostMode(j) \/ RouterMode(j) \/ Disable(j)
       \/ ActivateRequest(j) \/ DeleteRequest(j) \/ RestartRequest(j)
       \/ Look(j) \/ Execute(j) \/ Fail(j)
       \/ Persist(j) \/ Bind(j) \/ DeleteRouter(j)
       \/ WriteHost(j) \/ StoreMode(j) \/ RemoveHost(j) \/ DeleteRow(j)
  \/ \E r \in Routers : Create(r) \/ Update(r)
  \/ Crash

Spec == Init /\ [][Next]_vars

(***************************************************************************)
(* Properties.                                                             *)
(***************************************************************************)
\* Type invariant.
TypeOK ==
  /\ row \in [Routers -> Row] /\ bound \in Routers \union {Self}
  /\ config \in Modes /\ hostFile \in BOOLEAN
  /\ device \in [Routers -> [Things -> Nat]]
  /\ job \in [Jobs -> [kind : Changing \union {None, "activate", "delete", "restart"},
                       router : Routers \union {Self},
                       todo : Seq(Command),
                       seen : BOOLEAN, found : Nat, old : Modes, key : BOOLEAN]]
  /\ \A j \in Jobs : job[j].todo = <<>> <=> job[j].kind = None
  /\ forgotten \subseteq Routers \union {Host}
  /\ {requests, fails, crashes} \subseteq Nat

\* "Re-run bootstrap; all green, no duplicates created" and the comments that
\* call the steps idempotent: whatever failed before, and wherever, no router
\* gets a second object of a kind.
NoDuplicates == Alone => \A r \in Routers, t \in Things : device[r][t] <= 1

\* A wizard that is storing credentials or binding the interface has put
\* everything a peer needs on the router, its own commands or an earlier
\* attempt that stopped: nothing is bound to a half provisioned router.
BoundIsProvisioned ==
  \A j \in Jobs :
    job[j].kind = "bootstrap" /\ (\E s \in {"persist", "activate"} : Is(j, "db", s)) =>
      \A t \in {"interface", "address", "input", "masquerade", "user", "ca", "service"} :
        device[job[j].router][t] > 0

\* The interface never refers to a router row that is gone, however a
\* deletion and an activation interleave (activate.post.ts, index.delete.ts).
BoundExists == Registered(bound)

Serving(p) == IF p = Host THEN hostFile ELSE \E t \in Sidecar : device[p][t] > 0
RowFor(p)  == IF p = Host THEN config = Host ELSE config = "router" /\ bound = p
Handled(p) == \E j \in Jobs : job[j].kind \in Changing /\ p \in {job[j].router, Host}

\* "Toggling off cleanly removes the obfuscator install (idempotent)": an
\* obfuscator on a router, or the file of the sidecar, has the row that makes
\* a later disable remove it, or a request is at work on it.  The code loses
\* it only where a first deployment or a switch ends early, where removing
\* the file failed, and where the interface was bound to another router.
Accounted ==
  Alone => \A p \in Routers \union {Host} :
    Serving(p) => RowFor(p) \/ p \in forgotten \/ Handled(p)

\* bringUp says "the router must hold the matching private key. If they
\* drift, every client config fails to authenticate": when no request is in
\* progress, the interface that clients are given the address of has it.
KeyHeld ==
  (\A j \in Jobs : ~Running(j)) /\ bound \in Routers
    /\ device[bound]["interface"] > 0 => device[bound]["key"] > 0
=============================================================================
