------------------------------ MODULE Accounts ------------------------------
(* The accounts of the server: the wizard or the start-up that makes the     *)
(* first administrator, the administrators' requests that make, change and   *)
(* delete accounts, the families of a root account and its sub-accounts, and *)
(* what refers to an account: quotas, clients and the audit log.             *)
(*                                                                           *)
(* A request is a chain of database calls.  Each call is atomic (one         *)
(* statement or one transaction), other requests run between two calls of a  *)
(* chain, and what a chain checked may have changed when it writes.  The     *)
(* database refuses references to rows that are not there.                   *)
EXTENDS Integers

CONSTANTS
  Jobs,         \* requests that may overlap
  MaxId,        \* the accounts that can be made
  MaxDepth,     \* accounts getRootUserId looks at before it gives up; 10
  Old,          \* number of clients in the configuration that is migrated
  MaxRequests, MaxCrashes

ASSUME BoundsAssumption ==
  {MaxId, MaxDepth} \subseteq Nat \ {0} /\ {Old, MaxRequests, MaxCrashes} \subseteq Nat

Ids  == 1 .. MaxId
Null == 0      \* no parent, no account

VARIABLES
  alive,        \* users_table: the ids of its rows
  role, enabled, parent,     \* and their columns
  nextId,       \* AUTOINCREMENT: ids are not used again
  quotas,       \* user_quota: the accounts that have a row
  owners,       \* clients_table: the accounts that own a client
  actors,       \* audit_log: the accounts that appear as actor
  imported,     \* clients migrated so far
  step,         \* setup_step: 1 start, 3 an administrator was made, 0 done
  phase,        \* of the process: where the start-up is, "up" or "down"
  unattended,   \* the environment names the first administrator
  job,          \* requests in progress
  seeded,       \* history: accounts made by the start-up
  first,        \* history: accounts the setup made administrators
  hasty,        \* history: sub-accounts that a request was made for before the
                \* one that creates them had answered
  cut,          \* history: the process ended while the start-up made an account
  requests, crashes

users   == <<alive, role, enabled, parent, nextId>>
refs    == <<quotas, owners, actors>>
process == <<step, phase, unattended, seeded, first, cut>>
bounds  == <<requests, crashes>>
vars    == <<users, refs, imported, process, job, hasty, bounds>>

Roles  == {"SUPERADMIN", "ADMIN", "CLIENT"}
Admin  == {"SUPERADMIN", "ADMIN"}
Stages == {"idle", "subCreate", "subAttach", "clientUser", "clientCheck",
           "clientInsert", "quotaRoot", "quotaWrite", "quotaDelete", "role",
           "enable", "delete", "insert", "log", "wizardUser", "wizardStep",
           "import", "wizardEnd"}

\* by: the principal; who: the account of the request; new: what a step before
\* found or made; to: the role asked for; on: a flag of the request.
Job  == [at : Stages, by : 0 .. MaxId, who : 0 .. MaxId, new : 0 .. MaxId,
         to : Roles, on : BOOLEAN, done : Nat]
Idle == [at |-> "idle", by |-> Null, who |-> Null, new |-> Null, to |-> "CLIENT",
         on |-> TRUE, done |-> 0]

\* A database that was just migrated, or one that has its administrator.
Init ==
  /\ \/ alive = {} /\ step = 1 /\ nextId = 1
     \/ alive = {1} /\ step = 0 /\ nextId = 2
  /\ role = [i \in Ids |-> IF i \in alive THEN "SUPERADMIN" ELSE "CLIENT"]
  /\ enabled = alive /\ parent = [i \in Ids |-> Null]
  /\ quotas = {} /\ owners = {} /\ actors = {} /\ imported = 0
  /\ phase = "boot" /\ unattended \in BOOLEAN
  /\ job = [j \in Jobs |-> Idle]
  /\ seeded = {} /\ first = alive /\ hasty = {} /\ cut = FALSE
  /\ requests = 0 /\ crashes = 0

(***************************************************************************)
(* Families.                                                               *)
(***************************************************************************)
Children(S) == {i \in alive : parent[i] \in S}

\* getRootUserId looks at no more than MaxDepth accounts on the way up.
Walk(i) ==
  LET u[n \in 1 .. MaxDepth] ==
        IF n = 1 THEN i
        ELSE LET v == u[n - 1] IN
             IF v \in alive /\ parent[v] # Null THEN parent[v] ELSE v
  IN u
Root(i)   == Walk(i)[MaxDepth]
IsRoot(r) == r \in Ids /\ (r \in alive => parent[r] = Null)

\* getFamilyMemberIds goes down from a root, level by level.
\* Mutant: the root and its direct sub-accounts.
OneLevel(t) == {t} \union Children({t})
Members(t) ==
  LET m[n \in 0 .. MaxId] ==
        IF n = 0 THEN {t} ELSE m[n - 1] \union Children(m[n - 1])
  IN m[MaxId]

\* The rows a deletion takes along: the smallest set that has t and the
\* children of its members.
Closed(S)    == Children(S) \subseteq S
Cascade(t)   == {i \in alive : \A S \in SUBSET alive : t \in S /\ Closed(S) => i \in S}
\* Clients and the audit log hold the accounts they refer to.
Held(S)      == S \cap (owners \union actors) # {}

(***************************************************************************)
(* Requests.                                                               *)
(***************************************************************************)
Free(j)    == phase = "up" /\ job[j].at = "idle" /\ requests < MaxRequests
Callers(j) == {i \in enabled : Free(j) /\ role[i] \in Admin}
Pending == {job[k].new : k \in {k \in Jobs : job[k].at = "subAttach"}}

Begin(j, r) ==
  /\ Free(j)
  /\ job' = [job EXCEPT ![j] = r] /\ requests' = requests + 1
  /\ hasty' = hasty \union ({r.who} \cap Pending)
  /\ UNCHANGED <<users, refs, imported, process, crashes>>

\* A request of an administrator about an account that exists.
Ask(j, stage, by, t) ==
  /\ t \in alive
  /\ Begin(j, [Idle EXCEPT !.at = stage, !.by = by, !.who = t])

Goto(j, stage) == job' = [job EXCEPT ![j].at = stage]
Done(j)        == job' = [job EXCEPT ![j] = Idle]
At(j, stage)   == phase = "up" /\ job[j].at = stage
Who(j)         == job[j].who

\* A row of users_table; the callers say what becomes of its id.
Insert(i, r) ==
  /\ i \in Ids /\ i = nextId /\ nextId' = nextId + 1
  /\ alive' = alive \union {i} /\ enabled' = enabled \union {i}
  /\ role' = [role EXCEPT ![i] = r] /\ parent' = [parent EXCEPT ![i] = Null]

\* sub-accounts.post.ts: the parent must not be a sub-account.
\* Mutant: no such check.
AnyParent(t) == t \in alive
MayAdopt(t)  == t \in alive /\ parent[t] = Null
SubRequest(j, by, t) == MayAdopt(t) /\ Ask(j, "subCreate", by, t)

SubCreate(j) ==
  /\ At(j, "subCreate") /\ Insert(nextId, "CLIENT")
  /\ job' = [job EXCEPT ![j].at = "subAttach", ![j].new = nextId]
  /\ UNCHANGED <<refs, imported, process, hasty, bounds>>

\* updateParentUserId: the parent and the removal of a quota, or nothing.
SubAttach(j) ==
  LET i == job[j].new IN
  /\ At(j, "subAttach") /\ Done(j)
  /\ IF i \in alive /\ Who(j) \in alive
     THEN parent' = [parent EXCEPT ![i] = Who(j)] /\ quotas' = quotas \ {i}
     ELSE UNCHANGED <<parent, quotas>>
  /\ UNCHANGED <<alive, role, enabled, nextId, owners, actors, imported, process,
                 hasty, bounds>>

\* A client for an account, or for a new one of its own.
ClientRequest(j, by, t) == Ask(j, "clientCheck", by, t)
ClientForNew(j, by) ==
  Begin(j, [Idle EXCEPT !.at = "clientUser", !.by = by])

ClientUser(j) ==
  /\ At(j, "clientUser") /\ Insert(nextId, "CLIENT")
  /\ job' = [job EXCEPT ![j].at = "clientCheck", ![j].who = nextId]
  /\ UNCHANGED <<refs, imported, process, hasty, bounds>>

ClientCheck(j) ==
  LET t == Who(j) IN
  /\ At(j, "clientCheck")
  /\ IF t \in alive /\ role[t] = "CLIENT" /\ parent[t] = Null
     THEN Goto(j, "clientInsert") ELSE Done(j)
  /\ UNCHANGED <<users, refs, imported, process, hasty, bounds>>

ClientInsert(j) ==
  /\ At(j, "clientInsert") /\ Done(j)
  /\ owners' = owners \union ({Who(j)} \cap alive)
  /\ UNCHANGED <<users, quotas, actors, imported, process, hasty, bounds>>

\* The clients of an account are deleted.
Disown(t) ==
  /\ phase = "up" /\ t \in owners /\ requests < MaxRequests
  /\ owners' = owners \ {t} /\ requests' = requests + 1
  /\ UNCHANGED <<users, quotas, actors, imported, process, job, hasty, crashes>>

\* quota.put.ts and setForUser, which looks for the root once more and throws
\* when it finds none.
QuotaRequest(j, by, t) == MayAdopt(t) /\ Ask(j, "quotaRoot", by, t)
QuotaRoot(j) ==
  LET r == Root(Who(j)) IN
  /\ At(j, "quotaRoot")
  /\ IF IsRoot(r)
     THEN job' = [job EXCEPT ![j].at = "quotaWrite", ![j].new = r, ![j].on = r \in quotas]
     ELSE Done(j)
  /\ UNCHANGED <<users, refs, imported, process, hasty, bounds>>

QuotaWrite(j) ==
  LET r == job[j].new IN
  /\ At(j, "quotaWrite")
  /\ quotas' = IF job[j].on THEN quotas ELSE quotas \union ({r} \cap alive)
  \* an insert that breaks a key throws before the log
  /\ IF job[j].on \/ r \in alive \ quotas THEN Goto(j, "log") ELSE Done(j)
  /\ UNCHANGED <<users, owners, actors, imported, process, hasty, bounds>>

QuotaDeleteRequest(j, by, t) == MayAdopt(t) /\ Ask(j, "quotaDelete", by, t)
QuotaDelete(j) ==
  /\ At(j, "quotaDelete") /\ Goto(j, "log")
  /\ quotas' = quotas \ {Who(j)}
  /\ UNCHANGED <<users, owners, actors, imported, process, hasty, bounds>>

\* index.patch.ts: one's own account only while there are two superadmins.  A
\* field that is left out is not written.
Superadmins == {i \in alive : role[i] = "SUPERADMIN"}
PatchRequest(j, by, t, r, on) ==
  /\ t = by => \E o \in Superadmins : Superadmins # {o}
  /\ \E at \in {"role", "enable"} :
       Begin(j, [Idle EXCEPT !.at = at, !.by = by, !.who = t, !.to = r, !.on = on])

SetRole(j) ==
  /\ At(j, "role") /\ (Goto(j, "enable") \/ Goto(j, "log"))
  /\ role' = IF Who(j) \in alive THEN [role EXCEPT ![Who(j)] = job[j].to] ELSE role
  /\ UNCHANGED <<alive, enabled, parent, nextId, refs, imported, process, hasty, bounds>>

SetEnabled(j) ==
  LET t == {Who(j)} \cap alive IN
  /\ At(j, "enable") /\ Goto(j, "log")
  /\ enabled' = IF job[j].on THEN enabled \union t ELSE enabled \ t
  /\ UNCHANGED <<alive, role, parent, nextId, refs, imported, process, hasty, bounds>>

\* index.delete.ts: one cannot delete oneself.
DeleteRequest(j, by, t) == t # by /\ Ask(j, "delete", by, t)
Delete(j) ==
  LET S == Cascade(Who(j)) IN
  /\ At(j, "delete")
  /\ IF Held(S)
     THEN Done(j) /\ UNCHANGED <<alive, enabled, quotas>>
     ELSE /\ Goto(j, "log")
          /\ alive' = alive \ S /\ enabled' = enabled \ S /\ quotas' = quotas \ S
  /\ UNCHANGED <<role, parent, nextId, owners, actors, imported, process, hasty,
                 bounds>>

\* users/index.post.ts
CreateRequest(j, by, r) ==
  Begin(j, [Idle EXCEPT !.at = "insert", !.by = by, !.to = r])
Create(j) ==
  /\ At(j, "insert") /\ Insert(nextId, job[j].to) /\ Goto(j, "log")
  /\ UNCHANGED <<refs, imported, process, hasty, bounds>>

\* The audit log: it throws when the principal was deleted meanwhile.
Log(j) ==
  /\ At(j, "log") /\ Done(j)
  /\ actors' = actors \union ({job[j].by} \cap alive)
  /\ UNCHANGED <<users, quotas, owners, imported, process, hasty, bounds>>

(***************************************************************************)
(* The wizard: each of its requests first reads the step.                  *)
(***************************************************************************)
Wizard(j, stage) == Begin(j, [Idle EXCEPT !.at = stage])
\* Step 2 makes the account and then sets the step.
UserFirst == "wizardUser"
Step2Request(j)   == step = 1 /\ Wizard(j, UserFirst)
Step4Request(j)   == step = 3 /\ Wizard(j, "wizardEnd")
MigrateRequest(j) == step = 3 /\ Wizard(j, "import")

\* users.create: the first account of all becomes the administrator.
FirstRole == IF alive = {} THEN "ADMIN" ELSE "CLIENT"
CreateFirst ==
  /\ Insert(nextId, FirstRole)
  /\ first' = IF alive = {} THEN first \union {nextId} ELSE first

Step2User(j) ==
  /\ At(j, "wizardUser") /\ CreateFirst /\ Goto(j, "wizardStep")
  /\ UNCHANGED <<refs, imported, step, phase, unattended, seeded, cut, hasty, bounds>>

\* The name is taken: the handler throws.
Step2Refused(j) ==
  /\ At(j, "wizardUser") /\ alive # {} /\ Done(j)
  /\ UNCHANGED <<users, refs, imported, process, hasty, bounds>>

\* The setup is done.  Mutant: it stays open.
LeftOpen == step
Finished == 0

SetStep(j, s) ==
  /\ step' = s /\ Done(j)
  /\ UNCHANGED <<users, refs, imported, phase, unattended, seeded, first, cut, hasty,
                 bounds>>
Step2End(j)  == At(j, "wizardStep") /\ SetStep(j, 3)
WizardEnd(j) == At(j, "wizardEnd") /\ SetStep(j, Finished)

\* The clients of an older installation go to account 1, one by one; addresses
\* are unique, so that importing a client twice fails.
Import(j) ==
  LET n == job[j].done IN
  /\ At(j, "import") /\ n < Old
  /\ IF imported = n /\ 1 \in alive
     THEN /\ imported' = n + 1 /\ owners' = owners \union {1}
          /\ job' = [job EXCEPT ![j].done = n + 1]
     ELSE Done(j) /\ UNCHANGED <<imported, owners>>
  /\ UNCHANGED <<users, quotas, actors, process, hasty, bounds>>
ImportEnd(j) == At(j, "import") /\ job[j].done = Old /\ SetStep(j, Finished)

(***************************************************************************)
(* The process.                                                            *)
(***************************************************************************)
StartUp(from, to) ==
  /\ phase = from /\ phase' = to
  /\ UNCHANGED <<refs, imported, unattended, job, hasty, cut, bounds>>

\* A single ADMIN becomes a superadmin; an unfinished setup is looked at.
Promoted ==
  LET S == {i \in alive : role[i] = "ADMIN"} IN
  IF \E a \in S : S = {a} THEN [i \in Ids |-> IF i \in S THEN "SUPERADMIN" ELSE role[i]]
                          ELSE role
Boot ==
  /\ StartUp("boot", IF step # 0 /\ unattended THEN "seed" ELSE "up")
  /\ role' = Promoted
  /\ UNCHANGED <<alive, enabled, parent, nextId, step, seeded, first>>

\* The account of the environment: with the same name on each start.
Seed ==
  /\ seeded \cap alive = {} /\ StartUp("seed", "close")
  /\ CreateFirst /\ seeded' = seeded \union {nextId}
  /\ UNCHANGED step
SeedFails ==
  /\ seeded \cap alive # {} /\ StartUp("seed", "down")
  /\ UNCHANGED <<users, step, seeded, first>>

SeedEnd ==
  /\ StartUp("close", "up") /\ step' = Finished
  /\ UNCHANGED <<users, seeded, first>>

Crash ==
  /\ crashes < MaxCrashes /\ crashes' = crashes + 1
  /\ job' = [j \in Jobs |-> Idle] /\ phase' = "boot"
  /\ cut' = (cut \/ phase = "close")
  /\ UNCHANGED <<users, refs, imported, step, unattended, seeded, first, hasty, requests>>

Serve(j) ==
  \/ SubCreate(j) \/ SubAttach(j) \/ ClientUser(j) \/ ClientCheck(j) \/ ClientInsert(j)
  \/ QuotaRoot(j) \/ QuotaWrite(j) \/ QuotaDelete(j) \/ SetRole(j) \/ SetEnabled(j)
  \/ Delete(j) \/ Create(j) \/ Log(j) \/ Step2User(j) \/ Step2Refused(j) \/ Step2End(j)
  \/ WizardEnd(j) \/ Import(j) \/ ImportEnd(j)

About(j, by, t) ==
  \/ SubRequest(j, by, t) \/ ClientRequest(j, by, t) \/ QuotaRequest(j, by, t)
  \/ QuotaDeleteRequest(j, by, t) \/ DeleteRequest(j, by, t)
  \/ \E r \in Roles, on \in BOOLEAN : PatchRequest(j, by, t, r, on)

Arrive(j) ==
  \/ \E by \in Callers(j) :
       \/ \E t \in 1 .. nextId - 1 : About(j, by, t)
       \/ \E r \in Roles : CreateRequest(j, by, r)
       \/ ClientForNew(j, by)
  \/ Step2Request(j) \/ Step4Request(j) \/ MigrateRequest(j)

Next ==
  \/ \E j \in Jobs : Arrive(j) \/ Serve(j)
  \/ \E t \in Ids : Disown(t)
  \/ Boot \/ Seed \/ SeedFails \/ SeedEnd \/ Crash

Spec == Init /\ [][Next]_vars

-----------------------------------------------------------------------------
(* Properties.                                                             *)

TypeOK ==
  /\ alive \subseteq 1 .. nextId - 1 /\ nextId \in 1 .. MaxId + 1
  /\ role \in [Ids -> Roles] /\ parent \in [Ids -> 0 .. MaxId]
  /\ enabled \subseteq alive
  /\ imported \in 0 .. Old /\ step \in {0, 1, 3}
  /\ phase \in {"boot", "seed", "close", "up", "down"} /\ unattended \in BOOLEAN
  /\ job \in [Jobs -> Job] /\ cut \in BOOLEAN
  /\ seeded \subseteq Ids /\ first \subseteq Ids /\ hasty \subseteq 0 .. MaxId
  /\ requests \in Nat /\ crashes \in Nat

\* Whatever requests overlap with a deletion, nothing refers to an account that
\* is gone, and a parent is older than its sub-accounts, so that the walk of
\* getRootUserId ends (user/schema.ts, user/service.ts:358).
NothingDangles ==
  /\ quotas \union owners \union actors \subseteq alive
  /\ \A i \in alive : parent[i] # Null => parent[i] \in alive /\ parent[i] < i

\* The walk up, by which bytes are counted, and the walk down, by which clients
\* are switched off, agree on who belongs to a family (user/service.ts:358, 377).
FamiliesAgree ==
  \A t \in alive : parent[t] = Null =>
    \A i \in alive : i \in Members(t) <=> Root(i) = t

\* A sub-account has no sub-accounts, unless one was asked for before the
\* request that creates it had answered (sub-accounts.post.ts:16).
FlatFamilies ==
  \A i \in alive : parent[i] # Null => parent[parent[i]] = Null \/ parent[i] \in hasty

\* The setup never gets past its second step without an administrator having
\* been made, whatever requests repeat, overlap or are cut (setup/2.post.ts).
AdministratorMade == step # 1 => first # {}

\* A start that cannot make the account of the environment is one after the
\* process ended between the account and the end of the setup (sqlite.ts:160).
StartsAgain == phase = "down" => cut

=============================================================================
