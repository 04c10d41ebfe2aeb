--------------------------- MODULE AccountsProofs ---------------------------
(***************************************************************************)
(* For any number of accounts and of overlapping requests: types, no       *)
(* reference to an account that is gone, families of two levels, two walks *)
(* that agree on who belongs to a family, and a setup that makes an        *)
(* administrator and can be started again.                                 *)
(***************************************************************************)
EXTENDS Accounts, FiniteSets, FiniteSetTheorems, NaturalsInduction,
        WellFoundedInduction, TLAPS

-----------------------------------------------------------------------------
(* Types.                                                                  *)

LEMMA Constants == MaxId \in Nat /\ MaxId > 0 /\ Old \in Nat /\ Ids = 1 .. MaxId
BY BoundsAssumption DEF Ids

LEMMA IdleJob == Idle \in Job
BY Constants DEF Idle, Job, Stages, Roles, Null

LEMMA GotoJob ==
    ASSUME job \in [Jobs -> Job], NEW j \in Jobs, NEW s \in Stages, Goto(j, s)
    PROVE  job' \in [Jobs -> Job]
BY DEF Goto, Job

LEMMA DoneJob ==
    ASSUME job \in [Jobs -> Job], NEW j \in Jobs, Done(j)
    PROVE  job' \in [Jobs -> Job]
BY IdleJob DEF Done

LEMMA BeginType ==
    ASSUME TypeOK, NEW j \in Jobs, NEW r \in Job, Begin(j, r)
    PROVE  TypeOK'
<1>1. job' \in [Jobs -> Job]
  BY DEF Begin, TypeOK
<1>2. hasty' \subseteq 0 .. MaxId
  BY DEF Begin, TypeOK, Job
<1>3. requests' \in Nat /\ crashes' \in Nat
  BY DEF Begin, TypeOK
<1> QED BY <1>1, <1>2, <1>3 DEF Begin, TypeOK, users, refs, process

LEMMA Callers0 ==
    ASSUME TypeOK, NEW j \in Jobs, NEW by \in Callers(j)
    PROVE  by \in alive /\ by \in Ids /\ by \in 0 .. MaxId
BY Constants DEF Callers, TypeOK

LEMMA AskType ==
    ASSUME TypeOK, NEW j \in Jobs, NEW by \in Callers(j), NEW t, NEW s \in Stages,
           Ask(j, s, by, t)
    PROVE  TypeOK'
<1>1. t \in 0 .. MaxId
  BY Constants DEF Ask, TypeOK
<1>2. [Idle EXCEPT !.at = s, !.by = by, !.who = t] \in Job
  BY <1>1, IdleJob, Callers0 DEF Job
<1> QED BY <1>2, BeginType DEF Ask

LEMMA AboutType ==
    ASSUME TypeOK, NEW j \in Jobs, NEW by \in Callers(j), NEW t \in 1 .. nextId - 1,
           About(j, by, t)
    PROVE  TypeOK'
<1>1. ASSUME NEW s \in {"subCreate", "clientCheck", "quotaRoot", "quotaDelete", "delete"},
             Ask(j, s, by, t)
      PROVE TypeOK'
  BY <1>1, AskType DEF Stages
<1>2. ASSUME NEW r \in Roles, NEW on \in BOOLEAN, PatchRequest(j, by, t, r, on)
      PROVE TypeOK'
  <2>1. PICK at \in {"role", "enable"} :
          Begin(j, [Idle EXCEPT !.at = at, !.by = by, !.who = t, !.to = r, !.on = on])
    BY <1>2 DEF PatchRequest
  <2>2. t \in 0 .. MaxId
    BY Constants DEF TypeOK
  <2>3. [Idle EXCEPT !.at = at, !.by = by, !.who = t, !.to = r, !.on = on] \in Job
    BY <2>2, IdleJob, Callers0 DEF Job, Stages
  <2> QED BY <2>1, <2>3, BeginType
<1> QED BY <1>1, <1>2 DEF About, SubRequest, ClientRequest, QuotaRequest,
                          QuotaDeleteRequest, DeleteRequest

LEMMA ArriveType ==
    ASSUME TypeOK, NEW j \in Jobs, Arrive(j)
    PROVE  TypeOK'
<1>1. ASSUME NEW by \in Callers(j), NEW t \in 1 .. nextId - 1, About(j, by, t)
      PROVE TypeOK'
  BY <1>1, AboutType
<1>2. ASSUME NEW by \in Callers(j), NEW r \in Roles, CreateRequest(j, by, r)
      PROVE TypeOK'
  <2>1. [Idle EXCEPT !.at = "insert", !.by = by, !.to = r] \in Job
    BY IdleJob, Callers0 DEF Job, Stages
  <2> QED BY <1>2, <2>1, BeginType DEF CreateRequest
<1>3. ASSUME NEW by \in Callers(j), ClientForNew(j, by) PROVE TypeOK'
  <2>1. [Idle EXCEPT !.at = "clientUser", !.by = by] \in Job
    BY IdleJob, Callers0 DEF Job, Stages
  <2> QED BY <1>3, <2>1, BeginType DEF ClientForNew
<1>4. ASSUME NEW s \in {"wizardUser", "wizardEnd", "import"}, Wizard(j, s) PROVE TypeOK'
  <2>1. [Idle EXCEPT !.at = s] \in Job
    BY IdleJob DEF Job, Stages
  <2> QED BY <1>4, <2>1, BeginType DEF Wizard
<1>5. Step2Request(j) \/ Step4Request(j) \/ MigrateRequest(j) => TypeOK'
  BY <1>4 DEF Step2Request, Step4Request, MigrateRequest, UserFirst
<1> QED BY <1>1, <1>2, <1>3, <1>5 DEF Arrive

\* A new row keeps the types of the table.
Table ==
  /\ alive \subseteq 1 .. nextId - 1 /\ nextId \in 1 .. MaxId + 1
  /\ role \in [Ids -> Roles] /\ parent \in [Ids -> 0 .. MaxId] /\ enabled \subseteq alive

LEMMA InsertType ==
    ASSUME Table, NEW r \in Roles, Insert(nextId, r)
    PROVE  Table' /\ nextId \in Ids /\ nextId \notin alive
<1>1. nextId \in Ids /\ nextId \in Nat /\ nextId' = nextId + 1
  BY Constants DEF Insert
<1>2. nextId \notin alive /\ 1 .. nextId' - 1 = 1 .. nextId
  BY <1>1 DEF Table
<1>3. alive' \subseteq 1 .. nextId' - 1 /\ nextId' \in 1 .. MaxId + 1 /\ enabled' \subseteq alive'
  <2>1. alive' = alive \union {nextId} /\ enabled' = enabled \union {nextId}
    BY DEF Insert
  <2>2. alive \subseteq 1 .. nextId - 1 /\ enabled \subseteq alive
    BY DEF Table
  <2>3. 1 .. nextId - 1 \subseteq 1 .. nextId /\ nextId \in 1 .. nextId
    BY <1>1, Constants
  <2>4. nextId' \in 1 .. MaxId + 1
    BY <1>1, Constants
  <2> QED BY <1>2, <2>1, <2>2, <2>3, <2>4
<1>4. role' \in [Ids -> Roles] /\ parent' \in [Ids -> 0 .. MaxId]
  BY <1>1, Constants DEF Table, Insert, Null
<1> QED BY <1>1, <1>2, <1>3, <1>4 DEF Table

LEMMA InitType == Init => TypeOK
<1> SUFFICES ASSUME Init PROVE TypeOK
  OBVIOUS
<1>1. alive \subseteq 1 .. nextId - 1 /\ nextId \in 1 .. MaxId + 1 /\ step \in {0, 1, 3}
  <2>1. CASE alive = {} /\ step = 1 /\ nextId = 1
    <3>1. 1 \in 1 .. MaxId + 1
      BY Constants
    <3> QED BY <2>1, <3>1
  <2>2. CASE alive = {1} /\ step = 0 /\ nextId = 2
    <3>1. 1 \in 1 .. 2 - 1 /\ 2 \in 1 .. MaxId + 1
      BY Constants
    <3> QED BY <2>2, <3>1
  <2>3. \/ alive = {} /\ step = 1 /\ nextId = 1
        \/ alive = {1} /\ step = 0 /\ nextId = 2
    BY DEF Init
  <2> QED BY <2>1, <2>2, <2>3
<1>2. enabled = alive /\ first \subseteq Ids
  <2>1. alive = {} \/ alive = {1}
    BY DEF Init
  <2> QED BY <2>1, Constants DEF Init
<1>3. role \in [Ids -> Roles] /\ parent \in [Ids -> 0 .. MaxId] /\ job \in [Jobs -> Job]
  BY Constants, IdleJob DEF Init, Roles, Null
<1>4. imported \in 0 .. Old /\ requests \in Nat /\ crashes \in Nat
  BY Constants DEF Init
<1>5. phase = "boot" /\ unattended \in BOOLEAN /\ cut \in BOOLEAN /\ seeded = {} /\ hasty = {}
  BY Zenon DEF Init
<1> QED BY <1>1, <1>2, <1>3, <1>4, <1>5 DEF TypeOK

LEMMA ServeType ==
    ASSUME TypeOK, NEW j \in Jobs, Serve(j)
    PROVE  TypeOK'
<1> USE DEF TypeOK
<1>0. Table /\ job[j] \in Job /\ job \in [Jobs -> Job]
  BY DEF Table
<1>1. ASSUME NEW r \in Roles, Insert(nextId, r) PROVE Table' /\ nextId \in 0 .. MaxId /\ nextId \in Ids
  BY <1>0, <1>1, InsertType, Constants
<1>2. "CLIENT" \in Roles /\ "ADMIN" \in Roles /\ job[j].to \in Roles /\ Who(j) \in 0 .. MaxId
  BY <1>0 DEF Roles, Job, Who
<1>3. ASSUME SubCreate(j) PROVE TypeOK'
  <2>1. Table' /\ nextId \in 0 .. MaxId
    BY <1>1, <1>2, <1>3 DEF SubCreate
  <2>2. job' \in [Jobs -> Job]
    BY <1>0, <1>3, <2>1 DEF SubCreate, Job, Stages
  <2> QED BY <1>3, <2>1, <2>2 DEF SubCreate, Table, refs, process, bounds
<1>4. ASSUME SubAttach(j) PROVE TypeOK'
  <2>1. job' \in [Jobs -> Job]
    BY <1>4, DoneJob DEF SubAttach
  <2>2. parent' \in [Ids -> 0 .. MaxId]
    BY <1>2, <1>4 DEF SubAttach
  <2> QED BY <1>4, <2>1, <2>2 DEF SubAttach, process, bounds
<1>5. ASSUME ClientUser(j) PROVE TypeOK'
  <2>1. Table' /\ nextId \in 0 .. MaxId
    BY <1>1, <1>2, <1>5 DEF ClientUser
  <2>2. job' \in [Jobs -> Job]
    BY <1>0, <1>5, <2>1 DEF ClientUser, Job, Stages
  <2> QED BY <1>5, <2>1, <2>2 DEF ClientUser, Table, refs, process, bounds
<1>6. ASSUME ClientCheck(j) PROVE TypeOK'
  <2>1. job' \in [Jobs -> Job]
    BY <1>6, GotoJob, DoneJob DEF ClientCheck, Stages
  <2> QED BY <1>6, <2>1 DEF ClientCheck, users, refs, process, bounds
<1>7. ASSUME ClientInsert(j) PROVE TypeOK'
  <2>1. job' \in [Jobs -> Job]
    BY <1>7, DoneJob DEF ClientInsert
  <2> QED BY <1>7, <2>1 DEF ClientInsert, users, process, bounds
<1>8. ASSUME QuotaRoot(j) PROVE TypeOK'
  <2> DEFINE r == Root(Who(j))
  <2>1. CASE IsRoot(r)
    <3>1. r \in 0 .. MaxId /\ (r \in quotas) \in BOOLEAN
      BY <2>1, Constants DEF IsRoot
    <3>2. job' = [job EXCEPT ![j].at = "quotaWrite", ![j].new = r, ![j].on = r \in quotas]
      BY <1>8, <2>1 DEF QuotaRoot
    <3> HIDE DEF r
    <3>3. job' \in [Jobs -> Job]
      BY <1>0, <3>1, <3>2 DEF Job, Stages
    <3> QED BY <1>8, <3>3 DEF QuotaRoot, users, refs, process, bounds
  <2>2. CASE ~IsRoot(r)
    <3>1. job' \in [Jobs -> Job]
      BY <1>8, <2>2, DoneJob DEF QuotaRoot
    <3> QED BY <1>8, <3>1 DEF QuotaRoot, users, refs, process, bounds
  <2> QED BY <2>1, <2>2
<1>9. ASSUME QuotaWrite(j) PROVE TypeOK'
  <2>1. job' \in [Jobs -> Job]
    BY <1>9, GotoJob, DoneJob DEF QuotaWrite, Stages
  <2> QED BY <1>9, <2>1 DEF QuotaWrite, users, process, bounds
<1>10. ASSUME QuotaDelete(j) PROVE TypeOK'
  <2>1. job' \in [Jobs -> Job]
    BY <1>10, GotoJob DEF QuotaDelete, Stages
  <2> QED BY <1>10, <2>1 DEF QuotaDelete, users, process, bounds
<1>11. ASSUME SetRole(j) PROVE TypeOK'
  <2>1. job' \in [Jobs -> Job]
    BY <1>11, GotoJob DEF SetRole, Stages
  <2>2. role' \in [Ids -> Roles]
    BY <1>2, <1>11 DEF SetRole
  <2> QED BY <1>11, <2>1, <2>2 DEF SetRole, refs, process, bounds
<1>12. ASSUME SetEnabled(j) PROVE TypeOK'
  <2>1. job' \in [Jobs -> Job]
    BY <1>12, GotoJob DEF SetEnabled, Stages
  <2>2. enabled' \subseteq alive'
    BY <1>12 DEF SetEnabled
  <2> QED BY <1>12, <2>1, <2>2 DEF SetEnabled, refs, process, bounds
<1>13. ASSUME Delete(j) PROVE TypeOK'
  <2>1. job' \in [Jobs -> Job]
    BY <1>13, GotoJob, DoneJob DEF Delete, Stages
  <2>2. enabled' \subseteq alive' /\ alive' \subseteq alive
    BY <1>13 DEF Delete
  <2> QED BY <1>13, <2>1, <2>2 DEF Delete, process, bounds
<1>14. ASSUME Create(j) PROVE TypeOK'
  <2>1. Table'
    BY <1>1, <1>2, <1>14 DEF Create
  <2>2. job' \in [Jobs -> Job]
    BY <1>14, GotoJob DEF Create, Stages
  <2> QED BY <1>14, <2>1, <2>2 DEF Create, Table, refs, process, bounds
<1>15. ASSUME Log(j) PROVE TypeOK'
  <2>1. job' \in [Jobs -> Job]
    BY <1>15, DoneJob DEF Log
  <2> QED BY <1>15, <2>1 DEF Log, users, process, bounds
<1>16. ASSUME Step2User(j) PROVE TypeOK'
  <2>1. Table' /\ first' \subseteq Ids
    BY <1>1, <1>2, <1>16 DEF Step2User, CreateFirst, FirstRole
  <2>2. job' \in [Jobs -> Job]
    BY <1>16, GotoJob DEF Step2User, Stages
  <2> QED BY <1>16, <2>1, <2>2 DEF Step2User, Table, refs, bounds
<1>17. ASSUME Step2Refused(j) PROVE TypeOK'
  <2>1. job' \in [Jobs -> Job]
    BY <1>17, DoneJob DEF Step2Refused
  <2> QED BY <1>17, <2>1 DEF Step2Refused, users, refs, process, bounds
<1>18. ASSUME NEW s \in {0, 3}, SetStep(j, s) PROVE TypeOK'
  <2>1. job' \in [Jobs -> Job]
    BY <1>18, DoneJob DEF SetStep
  <2> QED BY <1>18, <2>1 DEF SetStep, users, refs, bounds
<1>19. Step2End(j) \/ WizardEnd(j) \/ ImportEnd(j) => TypeOK'
  BY <1>18 DEF Step2End, WizardEnd, ImportEnd, Finished
<1>20. ASSUME Import(j) PROVE TypeOK'
  <2>1. job[j].done \in Nat /\ imported' \in 0 .. Old
    BY <1>0, <1>20, Constants DEF Import, Job
  <2>2. job' \in [Jobs -> Job]
    <3>1. CASE job' = [job EXCEPT ![j].done = job[j].done + 1]
      BY <1>0, <2>1, <3>1 DEF Job
    <3>2. CASE Done(j)
      BY <3>2, DoneJob
    <3> QED BY <1>20, <3>1, <3>2 DEF Import
  <2> QED BY <1>20, <2>1, <2>2 DEF Import, users, process, bounds
<1>21. QED
  BY <1>3, <1>4, <1>5, <1>6, <1>7, <1>8, <1>9, <1>10, <1>11, <1>12, <1>13, <1>14, <1>15,
     <1>16, <1>17, <1>19, <1>20 DEF Serve

LEMMA ProcessType ==
    ASSUME TypeOK, Boot \/ Seed \/ SeedFails \/ SeedEnd \/ Crash
    PROVE  TypeOK'
<1> USE DEF TypeOK
<1>1. ASSUME Boot PROVE TypeOK'
  <2>1. role' \in [Ids -> Roles]
    BY <1>1 DEF Boot, Promoted, Roles
  <2> QED BY <1>1, <2>1 DEF Boot, StartUp, refs, bounds
<1>2. ASSUME Seed PROVE TypeOK'
  <2>1. Table /\ FirstRole \in Roles
    BY DEF Table, FirstRole, Roles
  <2>2. Table' /\ nextId \in Ids
    BY <1>2, <2>1, InsertType DEF Seed, CreateFirst
  <2> QED BY <1>2, <2>2 DEF Seed, CreateFirst, StartUp, Table, refs, bounds
<1>3. SeedFails => TypeOK'
  BY DEF SeedFails, StartUp, users, refs, bounds
<1>4. SeedEnd => TypeOK'
  BY DEF SeedEnd, StartUp, Finished, users, refs, bounds
<1>5. ASSUME Crash PROVE TypeOK'
  <2>1. job' \in [Jobs -> Job] /\ crashes' \in Nat
    BY <1>5, IdleJob DEF Crash
  <2> QED BY <1>5, <2>1 DEF Crash, users, refs
<1> QED BY <1>1, <1>2, <1>3, <1>4, <1>5

LEMMA TypeNext == TypeOK /\ [Next]_vars => TypeOK'
<1> SUFFICES ASSUME TypeOK, [Next]_vars PROVE TypeOK'
  OBVIOUS
<1>1. ASSUME NEW t \in Ids, Disown(t) PROVE TypeOK'
  BY <1>1 DEF Disown, TypeOK, users, process
<1>2. UNCHANGED vars => TypeOK'
  BY DEF vars, TypeOK, users, refs, process, bounds
<1> QED BY <1>1, <1>2, ArriveType, ServeType, ProcessType DEF Next

\* Every variable keeps its type, for any number of accounts and requests.
THEOREM TypeCorrect == Spec => []TypeOK
BY InitType, TypeNext, PTL DEF Spec

-----------------------------------------------------------------------------
(* References and families.                                                *)

SubStages == {"subCreate", "subAttach"}

\* Rows refer to rows; a parent is a row that is older.
Refer == quotas \union owners \union actors \subseteq alive
Kin   == \A i \in alive : parent[i] # Null => parent[i] \in alive /\ parent[i] < i
\* The parent of a sub-account to be was made before it.
Asked == \A k \in Jobs :
           /\ job[k].at \in SubStages => job[k].who < nextId
           /\ job[k].at = "subAttach" => job[k].who < job[k].new /\ job[k].new < nextId
\* Who is or will be a parent is a root and stays one, or was asked too early.
Used(x) == (\E i \in alive : parent[i] = x)
             \/ (\E k \in Jobs : job[k].at \in SubStages /\ job[k].who = x)
Flat  == \A x \in Ids : Used(x) => x \in hasty \/ (parent[x] = Null /\ x \notin Pending)
Tree  == Refer /\ Kin /\ Asked /\ Flat

\* No request comes to a stage of sub-accounts.
CalmJobs == \A k \in Jobs : job'[k].at \in SubStages =>
              job'[k].at = job[k].at /\ job'[k].who = job[k].who /\ job'[k].new = job[k].new
Calm == CalmJobs /\ hasty \subseteq hasty' /\ UNCHANGED <<alive, parent, nextId>>

LEMMA Table0 == TypeOK => \A i \in alive : i \in Ids /\ i < nextId
BY Constants DEF TypeOK

LEMMA CalmChanges ==
    ASSUME TypeOK, NEW j \in Jobs
    PROVE  /\ \A s \in Stages \ SubStages : Goto(j, s) => CalmJobs
           /\ Done(j) => CalmJobs
           /\ \A r \in Job : r.at \notin SubStages /\ Begin(j, r) => Calm
<1>1. \A s \in Stages \ SubStages : Goto(j, s) => CalmJobs
  BY DEF TypeOK, Job, Goto, CalmJobs
<1>2. Done(j) => CalmJobs
  BY DEF TypeOK, Job, Done, CalmJobs, Idle, SubStages
<1>3. \A r \in Job : r.at \notin SubStages /\ Begin(j, r) => Calm
  BY DEF TypeOK, Begin, Calm, CalmJobs, users
<1> QED BY <1>1, <1>2, <1>3

LEMMA CalmPending == TypeOK /\ CalmJobs => Pending' \subseteq Pending
BY DEF CalmJobs, Pending, SubStages

LEMMA CalmStep ==
    ASSUME TypeOK, Kin, Asked, Flat, Calm
    PROVE  Kin' /\ Asked' /\ Flat'
<1>1. Kin'
  BY DEF Kin, Calm
<1>2. Asked'
  BY DEF Asked, Calm, CalmJobs, SubStages
<1>3. \A x : Used(x)' => Used(x)
  BY DEF Used, Calm, CalmJobs
<1>4. Flat'
  BY <1>3, CalmPending DEF Flat, Calm
<1> QED BY <1>1, <1>2, <1>4

LEMMA UsedOld ==
    ASSUME TypeOK, Kin, Asked, NEW x \in Ids, Used(x)
    PROVE  x < nextId
<1>1. ASSUME NEW i \in alive, parent[i] = x PROVE x < nextId
  <2>1. i \in 1 .. nextId - 1 /\ nextId \in Nat
    BY Constants DEF TypeOK
  <2>2. x # Null /\ x \in Nat
    BY Constants DEF Null
  <2>3. x < i
    BY <1>1, <2>2 DEF Kin
  <2> QED BY <2>1, <2>2, <2>3
<1> QED BY <1>1 DEF Used, Asked

\* A new row is nobody's parent.
LEMMA Grown ==
    ASSUME TypeOK, Kin, Asked, Flat, NEW r \in Roles, Insert(nextId, r)
    PROVE  /\ Kin' /\ nextId \in Ids /\ nextId' = nextId + 1 /\ nextId \in Nat
           /\ alive' = alive \union {nextId}
           /\ \A x \in Ids : x < nextId => parent'[x] = parent[x]
           /\ parent'[nextId] = Null /\ ~Used(nextId)
<1>1. nextId \in Ids /\ nextId \in Nat /\ alive' = alive \union {nextId}
  BY Constants DEF Insert, TypeOK
<1>2. parent' = [parent EXCEPT ![nextId] = Null]
  BY DEF Insert
<1>3. parent \in [Ids -> 0 .. MaxId]
  BY DEF TypeOK
<1>4. \A x \in Ids : x < nextId => parent'[x] = parent[x]
  BY <1>1, <1>2, <1>3, Constants
<1>5. parent'[nextId] = Null
  BY <1>1, <1>2, <1>3
<1>6. \A i \in alive : i \in Ids /\ i < nextId
  BY Table0
<1>7. Kin'
  BY <1>1, <1>4, <1>5, <1>6 DEF Kin
<1>8. ~Used(nextId)
  BY <1>1, UsedOld
<1> QED BY <1>1, <1>4, <1>5, <1>7, <1>8 DEF Insert

LEMMA GrowStep ==
    ASSUME TypeOK, Kin, Asked, Flat, NEW r \in Roles, Insert(nextId, r),
           CalmJobs, hasty \subseteq hasty'
    PROVE  Kin' /\ Asked' /\ Flat'
<1>1. Asked'
  <2>1. \A k \in Jobs : job[k].who \in Int /\ job[k].new \in Int
    BY Constants DEF TypeOK, Job
  <2>2. nextId' = nextId + 1 /\ nextId \in Int
    BY Grown
  <2> QED BY <2>1, <2>2 DEF Asked, CalmJobs, SubStages
<1>2. \A x \in Ids : Used(x)' => Used(x)
  <2>1. ASSUME NEW x \in Ids, NEW i \in alive', parent'[i] = x PROVE Used(x)
    <3>1. i # nextId
      BY <2>1, Grown, Constants DEF Null
    <3>2. i \in alive /\ i \in Ids /\ i < nextId
      <4>1. i \in alive
        BY <2>1, <3>1, Grown
      <4> QED BY <4>1, Table0
    <3> QED BY <2>1, <3>2, Grown DEF Used
  <2>2. ASSUME NEW x \in Ids, NEW k \in Jobs, job'[k].at \in SubStages, job'[k].who = x
        PROVE  Used(x)
    BY <2>2 DEF Used, CalmJobs
  <2> QED BY <2>1, <2>2 DEF Used
<1>3. Flat'
  <2>1. ASSUME NEW x \in Ids, Used(x)'
        PROVE  x \in hasty' \/ (parent'[x] = Null /\ x \notin Pending')
    <3>1. Used(x) /\ x < nextId
      BY <1>2, <2>1, UsedOld
    <3>2. parent'[x] = parent[x]
      BY <3>1, Grown
    <3> QED BY <3>1, <3>2, CalmPending DEF Flat
  <2> QED BY <2>1 DEF Flat
<1> QED BY <1>1, <1>3, Grown

LEMMA TreeInit == Init => Tree
<1> SUFFICES ASSUME Init PROVE Tree
  OBVIOUS
<1>0. alive \subseteq Ids
  BY Constants DEF Init
<1>1. Refer /\ Kin
  BY <1>0 DEF Init, Refer, Kin
<1>2. \A k \in Jobs : job[k].at \notin SubStages
  BY DEF Init, Idle, SubStages
<1>3. \A x \in Ids : ~Used(x)
  <2>1. alive \subseteq Ids /\ \A i \in alive : parent[i] = 0
    BY Constants DEF Init, Null
  <2> QED BY <1>2, <2>1, Constants DEF Used
<1> QED BY <1>1, <1>2, <1>3 DEF Tree, Asked, Flat, SubStages

LEMMA TreeSubRequest ==
    ASSUME TypeOK, Tree, NEW j \in Jobs, NEW by \in Callers(j), NEW t \in 1 .. nextId - 1,
           SubRequest(j, by, t)
    PROVE  Tree'
<1> DEFINE r == [Idle EXCEPT !.at = "subCreate", !.by = by, !.who = t]
<1>1. t \in alive /\ parent[t] = Null /\ t < nextId /\ Begin(j, r)
  BY Table0 DEF SubRequest, MayAdopt, Ask
<1>2. r.at = "subCreate" /\ r.who = t
  BY DEF Idle
<1>3. job' = [job EXCEPT ![j] = r] /\ hasty' = hasty \union ({t} \cap Pending)
      /\ UNCHANGED <<alive, parent, nextId, quotas, owners, actors>>
  BY <1>1, <1>2 DEF Begin, users, refs
<1> HIDE DEF r
<1>4. Refer' /\ Kin'
  BY <1>3 DEF Tree, Refer, Kin
<1>5. \A k \in Jobs : k # j => job'[k] = job[k]
  BY <1>3 DEF TypeOK
<1>6. job'[j] = r
  BY <1>3 DEF TypeOK
<1>7. Asked'
  BY <1>1, <1>2, <1>3, <1>5, <1>6 DEF Tree, Asked
<1>8. Pending' \subseteq Pending
  BY <1>2, <1>5, <1>6 DEF Pending
<1>9. \A x \in Ids : Used(x)' => Used(x) \/ x = t
  BY <1>2, <1>3, <1>5, <1>6 DEF Used
<1>10. Flat'
  BY <1>1, <1>3, <1>8, <1>9 DEF Tree, Flat
<1> QED BY <1>4, <1>7, <1>10 DEF Tree

LEMMA TreeArrive ==
    ASSUME TypeOK, Tree, NEW j \in Jobs, Arrive(j)
    PROVE  Tree'
<1>1. ASSUME NEW r \in Job, r.at \notin SubStages, Begin(j, r) PROVE Tree'
  <2>1. Calm
    BY <1>1, CalmChanges
  <2>2. Refer'
    BY <1>1 DEF Begin, Refer, Tree, users, refs
  <2> QED BY <2>1, <2>2, CalmStep DEF Tree
<1>2. ASSUME NEW by \in Callers(j), NEW t \in 1 .. nextId - 1, About(j, by, t)
      PROVE  Tree'
  <2>1. t \in 0 .. MaxId /\ by \in 0 .. MaxId
    BY Callers0, Constants DEF TypeOK
  <2>2. ASSUME NEW s \in {"clientCheck", "quotaRoot", "quotaDelete", "delete"},
               Ask(j, s, by, t)
        PROVE  Tree'
    <3>1. [Idle EXCEPT !.at = s, !.by = by, !.who = t] \in Job
      BY <2>1, IdleJob DEF Job, Stages
    <3>2. [Idle EXCEPT !.at = s, !.by = by, !.who = t].at \notin SubStages
      BY DEF Idle, SubStages
    <3> QED BY <1>1, <2>2, <3>1, <3>2 DEF Ask
  <2>3. ASSUME NEW r \in Roles, NEW on \in BOOLEAN, PatchRequest(j, by, t, r, on)
        PROVE  Tree'
    <3>1. PICK at \in {"role", "enable"} :
            Begin(j, [Idle EXCEPT !.at = at, !.by = by, !.who = t, !.to = r, !.on = on])
      BY <2>3 DEF PatchRequest
    <3>2. [Idle EXCEPT !.at = at, !.by = by, !.who = t, !.to = r, !.on = on] \in Job
      BY <2>1, IdleJob DEF Job, Stages
    <3>3. [Idle EXCEPT !.at = at, !.by = by, !.who = t, !.to = r, !.on = on].at \notin SubStages
      BY DEF Idle, SubStages
    <3> QED BY <1>1, <3>1, <3>2, <3>3
  <2> QED BY <1>2, <2>2, <2>3, TreeSubRequest
          DEF About, ClientRequest, QuotaRequest, QuotaDeleteRequest, DeleteRequest
<1>3. ASSUME NEW by \in Callers(j), NEW r \in Roles, CreateRequest(j, by, r)
      PROVE  Tree'
  <2>1. [Idle EXCEPT !.at = "insert", !.by = by, !.to = r] \in Job
    BY IdleJob, Callers0 DEF Job, Stages
  <2>2. [Idle EXCEPT !.at = "insert", !.by = by, !.to = r].at \notin SubStages
    BY DEF Idle, SubStages
  <2> QED BY <1>1, <1>3, <2>1, <2>2 DEF CreateRequest
<1>4. ASSUME NEW by \in Callers(j), ClientForNew(j, by) PROVE Tree'
  <2>1. [Idle EXCEPT !.at = "clientUser", !.by = by] \in Job
    BY IdleJob, Callers0 DEF Job, Stages
  <2>2. [Idle EXCEPT !.at = "clientUser", !.by = by].at \notin SubStages
    BY DEF Idle, SubStages
  <2> QED BY <1>1, <1>4, <2>1, <2>2 DEF ClientForNew
<1>5. ASSUME NEW s \in {"wizardUser", "wizardEnd", "import"}, Wizard(j, s) PROVE Tree'
  <2>1. [Idle EXCEPT !.at = s] \in Job
    BY IdleJob DEF Job, Stages
  <2>2. [Idle EXCEPT !.at = s].at \notin SubStages
    BY DEF Idle, SubStages
  <2> QED BY <1>1, <1>5, <2>1, <2>2 DEF Wizard
<1>6. Step2Request(j) \/ Step4Request(j) \/ MigrateRequest(j) => Tree'
  BY <1>5 DEF Step2Request, Step4Request, MigrateRequest, UserFirst
<1> QED BY <1>2, <1>3, <1>4, <1>6 DEF Arrive

\* The new row of a sub-account has no family yet; its parent is known.
LEMMA TreeSubCreate ==
    ASSUME TypeOK, Tree, NEW j \in Jobs, SubCreate(j)
    PROVE  Tree'
<1>1. Insert(nextId, "CLIENT") /\ "CLIENT" \in Roles
  BY DEF SubCreate, Roles
<1>2. /\ Kin' /\ nextId \in Ids /\ nextId' = nextId + 1 /\ nextId \in Nat
      /\ alive' = alive \union {nextId}
      /\ \A x \in Ids : x < nextId => parent'[x] = parent[x]
      /\ parent'[nextId] = Null /\ ~Used(nextId)
  BY <1>1, Grown DEF Tree
<1>3. job[j].at = "subCreate" /\ hasty' = hasty
      /\ job' = [job EXCEPT ![j].at = "subAttach", ![j].new = nextId]
  BY DEF SubCreate, At
<1>4. \A k \in Jobs : k # j => job'[k] = job[k]
  BY <1>3 DEF TypeOK
<1>5. job'[j].at = "subAttach" /\ job'[j].new = nextId /\ job'[j].who = job[j].who
  BY <1>3 DEF TypeOK, Job
<1>6. Asked'
  <2>1. \A k \in Jobs : job[k].who \in Int /\ job[k].new \in Int
    BY Constants DEF TypeOK, Job
  <2>2. job[j].who < nextId
    BY <1>3 DEF Tree, Asked, SubStages
  <2> QED BY <1>2, <1>4, <1>5, <2>1, <2>2 DEF Tree, Asked, SubStages
<1>7. \A x \in Ids : Used(x)' => Used(x)
  <2>1. ASSUME NEW x \in Ids, NEW i \in alive', parent'[i] = x PROVE Used(x)
    <3>1. i # nextId
      BY <1>2, <2>1, Constants DEF Null
    <3>2. i \in alive
      BY <1>2, <3>1
    <3>3. i \in Ids /\ i < nextId
      BY <3>2, Table0
    <3> QED BY <1>2, <2>1, <3>2, <3>3 DEF Used
  <2>2. ASSUME NEW x \in Ids, NEW k \in Jobs, job'[k].at \in SubStages, job'[k].who = x
        PROVE  Used(x)
    BY <1>3, <1>4, <1>5, <2>2 DEF Used, SubStages
  <2> QED BY <2>1, <2>2 DEF Used
<1>8. Pending' \subseteq Pending \union {nextId}
  BY <1>4, <1>5 DEF Pending
<1>9. Flat'
  <2>1. ASSUME NEW x \in Ids, Used(x)'
        PROVE  x \in hasty' \/ (parent'[x] = Null /\ x \notin Pending')
    <3>1. Used(x) /\ x < nextId
      BY <1>7, <2>1, UsedOld DEF Tree
    <3>2. parent'[x] = parent[x] /\ x # nextId
      BY <1>2, <3>1
    <3> QED BY <1>3, <1>8, <3>1, <3>2 DEF Tree, Flat
  <2> QED BY <2>1 DEF Flat
<1>10. Refer'
  BY <1>2 DEF SubCreate, Tree, Refer, refs
<1> QED BY <1>2, <1>6, <1>9, <1>10 DEF Tree

\* Its parent was a root when it was asked for, and no request has made it a
\* sub-account since.
LEMMA TreeSubAttach ==
    ASSUME TypeOK, Tree, NEW j \in Jobs, SubAttach(j)
    PROVE  Tree'
<1> DEFINE i == job[j].new
           t == job[j].who
<1>1. /\ CalmJobs /\ hasty' = hasty /\ nextId' = nextId /\ alive' = alive
      /\ owners' = owners /\ actors' = actors
  BY CalmChanges DEF SubAttach, bounds
<1>2. Used(t) /\ t < i /\ i < nextId /\ i \in Pending
  BY DEF SubAttach, At, Used, Pending, Tree, Asked, SubStages
<1>3. CASE i \in alive /\ t \in alive
  <2>1. parent' = [parent EXCEPT ![i] = t] /\ quotas' = quotas \ {i}
    BY <1>3 DEF SubAttach, Who
  <2>2. \A k \in alive : k \in Ids /\ parent'[k] = IF k = i THEN t ELSE parent[k]
    BY <2>1, Table0 DEF TypeOK
  <2>3. t \in Ids /\ \A x \in Ids : parent'[x] = IF x = i THEN t ELSE parent[x]
    BY <1>3, <2>1, Table0 DEF TypeOK
  <2> HIDE DEF i, t
  <2>4. Kin'
    BY <1>1, <1>2, <1>3, <2>2 DEF Kin, Tree
  <2>5. Asked'
    BY <1>1 DEF Tree, Asked, CalmJobs, SubStages
  <2>6. \A x \in Ids : Used(x)' => Used(x)
    BY <1>1, <1>2, <2>2 DEF Used, CalmJobs
  <2>7. Flat'
    BY <1>1, <1>2, <2>3, <2>6, CalmPending DEF Tree, Flat
  <2>8. Refer'
    BY <1>1, <2>1 DEF Tree, Refer
  <2> QED BY <2>4, <2>5, <2>7, <2>8 DEF Tree
<1>4. CASE ~(i \in alive /\ t \in alive)
  <2>1. parent' = parent /\ quotas' = quotas
    BY <1>4 DEF SubAttach, Who
  <2>2. Calm
    BY <1>1, <2>1 DEF Calm
  <2>3. Refer'
    BY <1>1, <2>1 DEF Tree, Refer
  <2> QED BY <2>2, <2>3, CalmStep DEF Tree
<1> QED BY <1>3, <1>4

\* A deletion takes the children of what it takes.
LEMMA CascadeClosed ==
    ASSUME NEW t, NEW i \in alive, parent[i] \in Cascade(t)
    PROVE  i \in Cascade(t)
BY DEF Cascade, Closed, Children

LEMMA TreeDelete ==
    ASSUME TypeOK, Tree, NEW j \in Jobs, Delete(j)
    PROVE  Tree'
<1> DEFINE S == Cascade(Who(j))
<1>1. CalmJobs /\ hasty' = hasty /\ nextId' = nextId /\ parent' = parent
      /\ owners' = owners /\ actors' = actors
  BY CalmChanges DEF Delete, Stages, SubStages
<1>2. CASE Held(S)
  <2>1. Calm
    BY <1>1, <1>2 DEF Delete, Calm
  <2>2. Refer'
    BY <1>1, <1>2 DEF Delete, Tree, Refer
  <2> QED BY <2>1, <2>2, CalmStep DEF Tree
<1>3. CASE ~Held(S)
  <2>1. alive' = alive \ S /\ quotas' = quotas \ S
    BY <1>3 DEF Delete
  <2>2. \A i \in alive : parent[i] \in S => i \in S
    BY CascadeClosed
  <2>3. S \cap (owners \union actors) = {}
    BY <1>3 DEF Held
  <2> HIDE DEF S
  <2>4. Refer'
    BY <1>1, <2>1, <2>3 DEF Tree, Refer
  <2>5. Kin'
    BY <1>1, <2>1, <2>2 DEF Tree, Kin
  <2>6. Asked'
    BY <1>1 DEF Tree, Asked, CalmJobs, SubStages
  <2>7. \A x \in Ids : Used(x)' => Used(x)
    BY <1>1, <2>1 DEF Used, CalmJobs
  <2>8. Flat'
    BY <1>1, <2>7, CalmPending DEF Tree, Flat
  <2> QED BY <2>4, <2>5, <2>6, <2>8 DEF Tree
<1> QED BY <1>2, <1>3

LEMMA TreeServe ==
    ASSUME TypeOK, Tree, NEW j \in Jobs, Serve(j)
    PROVE  Tree'
<1>1. ASSUME Calm, Refer' PROVE Tree'
  BY <1>1, CalmStep DEF Tree
<1>2. ASSUME NEW r \in Roles, Insert(nextId, r), CalmJobs, hasty' = hasty, UNCHANGED refs
      PROVE  Tree'
  <2>1. Refer'
    BY <1>2 DEF Insert, Tree, Refer, refs
  <2> QED BY <1>2, <2>1, GrowStep DEF Tree
<1>3. "CLIENT" \in Roles /\ "ADMIN" \in Roles /\ job[j].to \in Roles
  BY DEF Roles, TypeOK, Job
<1>4. \A s \in Stages \ SubStages : Goto(j, s) => CalmJobs
  BY CalmChanges
<1>5. Done(j) => CalmJobs
  BY CalmChanges
<1>6. {"clientInsert", "log", "enable", "wizardStep"} \subseteq Stages \ SubStages
  BY DEF Stages, SubStages
<1>7. Refer
  BY DEF Tree
<1>8. ClientUser(j) => Tree'
  <2>1. ASSUME ClientUser(j) PROVE CalmJobs
    BY <2>1 DEF ClientUser, CalmJobs, TypeOK, Job, SubStages
  <2> QED BY <1>2, <1>3, <2>1 DEF ClientUser
<1>9. ClientCheck(j) => Tree'
  BY <1>1, <1>4, <1>5, <1>6, <1>7 DEF ClientCheck, Calm, Refer, users, refs
<1>10. ClientInsert(j) => Tree'
  BY <1>1, <1>5, <1>7 DEF ClientInsert, Calm, Refer, users
<1>11. QuotaRoot(j) => Tree'
  <2>1. ASSUME QuotaRoot(j) PROVE CalmJobs
    <3>1. CASE Done(j)
      BY <1>5, <3>1
    <3>2. ASSUME NEW r, NEW b,
                 job' = [job EXCEPT ![j].at = "quotaWrite", ![j].new = r, ![j].on = b]
          PROVE  CalmJobs
      BY <3>2 DEF CalmJobs, TypeOK, Job, SubStages
    <3> QED BY <2>1, <3>1, <3>2 DEF QuotaRoot
  <2> QED BY <1>1, <1>7, <2>1 DEF QuotaRoot, Calm, Refer, users, refs
<1>12. QuotaWrite(j) => Tree'
  BY <1>1, <1>4, <1>5, <1>6, <1>7 DEF QuotaWrite, Calm, Refer, users
<1>13. QuotaDelete(j) => Tree'
  BY <1>1, <1>4, <1>6, <1>7 DEF QuotaDelete, Calm, Refer, users
<1>14. SetRole(j) => Tree'
  BY <1>1, <1>4, <1>6, <1>7 DEF SetRole, Calm, Refer, refs
<1>15. SetEnabled(j) => Tree'
  BY <1>1, <1>4, <1>6, <1>7 DEF SetEnabled, Calm, Refer, refs
<1>16. Create(j) => Tree'
  BY <1>2, <1>3, <1>4, <1>6 DEF Create
<1>17. Log(j) => Tree'
  BY <1>1, <1>5, <1>7 DEF Log, Calm, Refer, users
<1>18. Step2User(j) => Tree'
  BY <1>2, <1>3, <1>4, <1>6 DEF Step2User, CreateFirst, FirstRole
<1>19. Step2Refused(j) => Tree'
  BY <1>1, <1>5, <1>7 DEF Step2Refused, Calm, Refer, users, refs
<1>20. \A s : SetStep(j, s) => Tree'
  BY <1>1, <1>5, <1>7 DEF SetStep, Calm, Refer, users, refs
<1>21. Step2End(j) \/ WizardEnd(j) \/ ImportEnd(j) => Tree'
  BY <1>20 DEF Step2End, WizardEnd, ImportEnd
<1>22. Import(j) => Tree'
  <2>1. ASSUME Import(j) PROVE CalmJobs
    <3>1. CASE Done(j)
      BY <1>5, <3>1
    <3>2. ASSUME NEW n, job' = [job EXCEPT ![j].done = n] PROVE CalmJobs
      BY <3>2 DEF CalmJobs, TypeOK, Job, SubStages
    <3> QED BY <2>1, <3>1, <3>2 DEF Import
  <2> QED BY <1>1, <1>7, <2>1 DEF Import, Calm, Refer, users
<1> QED BY <1>8, <1>9, <1>10, <1>11, <1>12, <1>13, <1>14, <1>15, <1>16, <1>17, <1>18,
           <1>19, <1>21, <1>22, TreeSubCreate, TreeSubAttach, TreeDelete DEF Serve

LEMMA TreeNext == TypeOK /\ Tree /\ [Next]_vars => Tree'
<1> SUFFICES ASSUME TypeOK, Tree, [Next]_vars PROVE Tree'
  OBVIOUS
<1>1. ASSUME Calm, Refer' PROVE Tree'
  BY <1>1, CalmStep DEF Tree
<1>2. job' = job => CalmJobs
  BY DEF CalmJobs
<1>3. Refer
  BY DEF Tree
<1>4. ASSUME NEW t \in Ids, Disown(t) PROVE Tree'
  BY <1>1, <1>2, <1>3, <1>4 DEF Disown, Calm, Refer, users
<1>5. Boot => Tree'
  BY <1>1, <1>2, <1>3 DEF Boot, StartUp, Calm, Refer, refs
<1>6. ASSUME Seed PROVE Tree'
  <2>1. Insert(nextId, FirstRole) /\ FirstRole \in Roles
    BY <1>6 DEF Seed, CreateFirst, FirstRole, Roles
  <2>2. CalmJobs /\ hasty' = hasty /\ Refer'
    BY <1>2, <1>3, <1>6, <2>1 DEF Seed, StartUp, Insert, Refer, refs
  <2> QED BY <2>1, <2>2, GrowStep DEF Tree
<1>7. SeedFails => Tree'
  BY <1>1, <1>2, <1>3 DEF SeedFails, StartUp, Calm, Refer, users, refs
<1>8. SeedEnd => Tree'
  BY <1>1, <1>2, <1>3 DEF SeedEnd, StartUp, Calm, Refer, users, refs
<1>9. ASSUME Crash PROVE Tree'
  <2>1. CalmJobs
    BY <1>9 DEF Crash, CalmJobs, Idle, SubStages
  <2> QED BY <1>1, <1>3, <1>9, <2>1 DEF Crash, Calm, Refer, users, refs
<1>10. UNCHANGED vars => Tree'
  BY <1>1, <1>2, <1>3 DEF vars, Calm, Refer, users, refs
<1> QED BY <1>4, <1>5, <1>6, <1>7, <1>8, <1>9, <1>10, TreeArrive, TreeServe DEF Next

LEMMA TreeHolds == Spec => [](TypeOK /\ Tree)
BY InitType, TypeNext, TreeInit, TreeNext, PTL DEF Spec

\* Whatever overlaps with a deletion, no quota, client, log entry or parent
\* refers to an account that is gone, and a parent is older than its children.
THEOREM ReferencesHold == Spec => []NothingDangles
<1>1. Tree => NothingDangles
  BY DEF Tree, Refer, Kin, NothingDangles
<1> QED BY <1>1, TreeHolds, PTL

\* A sub-account has no sub-accounts, unless one was asked for before the
\* request that creates it had answered.
THEOREM FamiliesAreFlat == Spec => []FlatFamilies
<1>1. ASSUME TypeOK, Tree PROVE FlatFamilies
  <2>1. ASSUME NEW i \in alive, parent[i] # Null
        PROVE  parent[parent[i]] = Null \/ parent[i] \in hasty
    <3>1. parent[i] \in Ids
      BY <1>1, <2>1, Table0 DEF Tree, Kin
    <3>2. Used(parent[i])
      BY DEF Used
    <3> QED BY <1>1, <3>1, <3>2 DEF Tree, Flat
  <2> QED BY <2>1 DEF FlatFamilies
<1> QED BY <1>1, TreeHolds, PTL

-----------------------------------------------------------------------------
(* The walk up a family and the walk down.                                 *)

\* The smallest member of a set of numbers.
LEMMA Least ==
    ASSUME NEW S \in SUBSET Nat, S # {}
    PROVE  \E x \in S : \A y \in S : x <= y
<1>1. \E x \in S : \A y \in S : ~(<<y, x>> \in OpToRel(<, Nat))
  BY NatLessThanWellFounded, WFMin
<1>2. OpToRel(<, Nat) = {p \in Nat \X Nat : p[1] < p[2]}
  BY Zenon DEF OpToRel
<1>3. PICK R : R = OpToRel(<, Nat)
  BY Zenon
<1>4. R = {p \in Nat \X Nat : p[1] < p[2]}
  BY <1>2, <1>3, Zenon
<1>5. \E x \in S : \A y \in S : ~(<<y, x>> \in R)
  BY <1>1, <1>3, Zenon
<1>6. PICK x \in S : \A y \in S : ~(<<y, x>> \in R)
  BY <1>5
<1>7. ASSUME NEW y \in S PROVE x <= y
  <2>1. y < x => <<y, x>> \in R
    BY <1>4
  <2>2. ~(y < x)
    BY <1>6, <2>1
  <2> QED BY <2>2
<1> QED BY <1>6, <1>7

\* Induction over the numbers, for a set of them.
LEMMA Induct ==
    ASSUME NEW S, 0 \in S, \A n \in Nat : n \in S => n + 1 \in S
    PROVE  Nat \subseteq S
<1> SUFFICES ASSUME Nat \ S # {} PROVE FALSE
  OBVIOUS
<1>1. PICK x \in Nat \ S : \A y \in Nat \ S : x <= y
  BY Least
<1>2. x # 0 /\ x - 1 \in Nat /\ x = (x - 1) + 1
  BY <1>1
<1>3. x - 1 \in S
  BY <1>1, <1>2
<1> QED BY <1>1, <1>2, <1>3

\* The account getRootUserId looks at next.
Above(v) == IF v \in alive /\ parent[v] # Null THEN parent[v] ELSE v

\* The walk up is well defined: there is a function that takes its steps.
LEMMA WalkSteps ==
    ASSUME NEW i
    PROVE  /\ Walk(i)[1] = i
           /\ \A n \in 1 .. MaxDepth - 1 : Walk(i)[n + 1] = Above(Walk(i)[n])
<1> DEFINE Walks(u) == u = [n \in 1 .. MaxDepth |->
                              IF n = 1 THEN i
                              ELSE LET v == u[n - 1] IN
                                   IF v \in alive /\ parent[v] # Null THEN parent[v] ELSE v]
           Good(f, k) == /\ f[1] = i
                         /\ \A n \in 1 .. MaxDepth : 1 < n /\ n <= k => f[n] = Above(f[n - 1])
           S == {k \in Nat : \E f : f = [n \in 1 .. MaxDepth |-> f[n]] /\ Good(f, k)}
<1>0. MaxDepth \in Nat /\ 1 \in 1 .. MaxDepth
  BY BoundsAssumption
<1>1. 0 \in S
  <2>1. PICK f : f = [n \in 1 .. MaxDepth |-> i]
    OBVIOUS
  <2> QED BY <1>0, <2>1
<1>2. ASSUME NEW k \in Nat, k \in S PROVE k + 1 \in S
  <2>1. PICK f : f = [n \in 1 .. MaxDepth |-> f[n]] /\ Good(f, k)
    BY <1>2
  <2>2. PICK v : v = IF k = 0 THEN i ELSE Above(f[k])
    OBVIOUS
  <2>3. PICK g : g = [n \in 1 .. MaxDepth |-> IF n = k + 1 THEN v ELSE f[n]]
    OBVIOUS
  <2>4. g[1] = i /\ g = [n \in 1 .. MaxDepth |-> g[n]]
    BY <1>0, <2>1, <2>2, <2>3
  <2>5. ASSUME NEW n \in 1 .. MaxDepth, 1 < n, n <= k + 1 PROVE g[n] = Above(g[n - 1])
    <3>1. n - 1 \in 1 .. MaxDepth /\ n - 1 # k + 1 /\ g[n - 1] = f[n - 1]
      BY <1>0, <2>3, <2>5
    <3>2. CASE n = k + 1
      BY <1>0, <2>2, <2>3, <3>1, <3>2
    <3>3. CASE n # k + 1
      <4>1. n <= k /\ g[n] = f[n]
        BY <1>0, <2>3, <2>5, <3>3
      <4>2. f[n] = Above(f[n - 1])
        BY <2>1, <2>5, <4>1
      <4> QED BY <3>1, <4>1, <4>2
    <3> QED BY <3>2, <3>3
  <2>6. Good(g, k + 1)
    BY <2>4, <2>5
  <2> HIDE DEF Good
  <2>7. \E h : h = [n \in 1 .. MaxDepth |-> h[n]] /\ Good(h, k + 1)
    BY <2>4, <2>6, Zenon
  <2>8. k + 1 \in Nat
    OBVIOUS
  <2> QED BY <2>7, <2>8, Zenon
<1>3. MaxDepth \in S
  <2> HIDE DEF S
  <2> QED BY <1>0, <1>1, <1>2, Induct
<1>4. PICK f : f = [n \in 1 .. MaxDepth |-> f[n]] /\ Good(f, MaxDepth)
  BY <1>3
<1>5. Walks(f)
  <2>1. ASSUME NEW n \in 1 .. MaxDepth, n # 1 PROVE f[n] = Above(f[n - 1])
    BY <1>0, <1>4, <2>1
  <2> QED BY <1>4, <2>1 DEF Above
<1>6. Walks(Walk(i))
  <2> HIDE DEF Good, S
  <2> QED BY <1>5, Zenon DEF Walk
<1>7. PICK u : u = Walk(i)
  OBVIOUS
<1>8. Walks(u)
  BY <1>6, <1>7, Zenon
<1>9. u[1] = i
  BY <1>0, <1>8
<1>10. ASSUME NEW n \in 1 .. MaxDepth - 1 PROVE u[n + 1] = Above(u[n])
  <2>1. n + 1 \in 1 .. MaxDepth /\ n + 1 # 1 /\ (n + 1) - 1 = n
    BY <1>0
  <2> QED BY <1>8, <2>1 DEF Above
<1> QED BY <1>7, <1>9, <1>10

\* So is the walk down.
Level(m, n) == m[n] \union Children(m[n])

LEMMA MemberLevels ==
    ASSUME NEW t
    PROVE  \E m : /\ m[0] = {t} /\ Members(t) = m[MaxId]
                  /\ \A n \in 0 .. MaxId - 1 : m[n + 1] = Level(m, n)
<1> DEFINE Falls(u) == u = [n \in 0 .. MaxId |->
                              IF n = 0 THEN {t} ELSE u[n - 1] \union Children(u[n - 1])]
           Good(f, k) == /\ f[0] = {t}
                         /\ \A n \in 0 .. MaxId : 0 < n /\ n <= k => f[n] = Level(f, n - 1)
           S == {k \in Nat : \E f : f = [n \in 0 .. MaxId |-> f[n]] /\ Good(f, k)}
<1>0. MaxId \in Nat /\ 0 \in 0 .. MaxId
  BY BoundsAssumption
<1>1. 0 \in S
  <2>1. PICK f : f = [n \in 0 .. MaxId |-> {t}]
    OBVIOUS
  <2> QED BY <1>0, <2>1
<1>2. ASSUME NEW k \in Nat, k \in S PROVE k + 1 \in S
  <2>1. PICK f : f = [n \in 0 .. MaxId |-> f[n]] /\ Good(f, k)
    BY <1>2
  <2>2. PICK v : v = Level(f, k)
    OBVIOUS
  <2>3. PICK g : g = [n \in 0 .. MaxId |-> IF n = k + 1 THEN v ELSE f[n]]
    OBVIOUS
  <2>4. g[0] = {t} /\ g = [n \in 0 .. MaxId |-> g[n]]
    BY <1>0, <2>1, <2>3
  <2>5. ASSUME NEW n \in 0 .. MaxId, 0 < n, n <= k + 1 PROVE g[n] = Level(g, n - 1)
    <3>1. n - 1 \in 0 .. MaxId /\ n - 1 # k + 1 /\ g[n - 1] = f[n - 1]
      BY <1>0, <2>3, <2>5
    <3>2. Level(g, n - 1) = Level(f, n - 1)
      BY <3>1 DEF Level
    <3>3. CASE n = k + 1
      BY <1>0, <2>2, <2>3, <3>2, <3>3
    <3>4. CASE n # k + 1
      BY <1>0, <2>1, <2>3, <2>5, <3>2, <3>4
    <3> QED BY <3>3, <3>4
  <2>6. Good(g, k + 1)
    BY <2>4, <2>5
  <2> HIDE DEF Good
  <2>7. \E h : h = [n \in 0 .. MaxId |-> h[n]] /\ Good(h, k + 1)
    BY <2>4, <2>6, Zenon
  <2>8. k + 1 \in Nat
    OBVIOUS
  <2> QED BY <2>7, <2>8, Zenon
<1>3. MaxId \in S
  <2> HIDE DEF S
  <2> QED BY <1>0, <1>1, <1>2, Induct
<1>4. PICK f : f = [n \in 0 .. MaxId |-> f[n]] /\ Good(f, MaxId)
  BY <1>3
<1>5. Falls(f)
  <2>1. ASSUME NEW n \in 0 .. MaxId, n # 0 PROVE f[n] = Level(f, n - 1)
    BY <1>0, <1>4, <2>1
  <2> QED BY <1>4, <2>1 DEF Level
<1>6. \E m : Falls(m) /\ Members(t) = m[MaxId]
  <2> HIDE DEF Good, S
  <2> QED BY <1>5, Zenon DEF Members
<1>7. PICK m : Falls(m) /\ Members(t) = m[MaxId]
  BY <1>6
<1>8. m[0] = {t}
  BY <1>0, <1>7
<1>9. ASSUME NEW n \in 0 .. MaxId - 1 PROVE m[n + 1] = Level(m, n)
  <2>1. n + 1 \in 0 .. MaxId /\ n + 1 # 0 /\ (n + 1) - 1 = n
    BY <1>0
  <2> QED BY <1>7, <2>1 DEF Level
<1> QED BY <1>7, <1>8, <1>9

\* An account is younger than its parent.
LEMMA Younger ==
    ASSUME TypeOK, Kin, NEW i \in alive, parent[i] \in alive
    PROVE  /\ i \in 1 .. MaxId /\ parent[i] \in 1 .. MaxId /\ parent[i] < i
           /\ parent[i] \in 0 .. MaxId - 1 /\ i \in parent[i] + 1 .. MaxId
           /\ MaxId \in parent[i] + 1 .. MaxId /\ parent[i] + 1 \in 0 .. MaxId
<1>1. MaxId \in Nat /\ alive \subseteq 1 .. MaxId
  BY Constants DEF TypeOK
<1>2. i \in 1 .. MaxId /\ parent[i] \in 1 .. MaxId
  BY <1>1
<1>3. parent[i] # 0
  BY <1>1, <1>2
<1>4. parent[i] < i
  BY <1>3 DEF Kin, Null
<1> QED BY <1>1, <1>2, <1>4

\* Up to the root or down from it: what a step up of the walk does to membership.
LEMMA MembersDown ==
    ASSUME TypeOK, Kin, NEW t \in alive
    PROVE  /\ t \in Members(t)
           /\ \A i \in alive : parent[i] \in Members(t) => i \in Members(t)
           /\ \A i \in Members(t) : i # t => i \in alive /\ parent[i] \in Members(t)
<1>1. PICK m : /\ m[0] = {t} /\ Members(t) = m[MaxId]
               /\ \A n \in 0 .. MaxId - 1 : m[n + 1] = Level(m, n)
  BY MemberLevels
<1>0. MaxId \in Nat /\ alive \subseteq 1 .. MaxId /\ t \in 1 .. MaxId
  BY Constants DEF TypeOK
<1> DEFINE M(n) == m[n]
<1>2. \A n \in 0 .. MaxId - 1 : M(n + 1) = M(n) \union Children(M(n))
  BY <1>1 DEF Level
<1> HIDE DEF M
<1>3. ASSUME NEW n \in 0 .. MaxId, NEW k \in n .. MaxId PROVE M(n) \subseteq M(k)
  <2> DEFINE S == {d \in Nat : n + d <= MaxId => M(n) \subseteq M(n + d)}
  <2>1. 0 \in S
    BY <1>0
  <2>2. ASSUME NEW d \in Nat, d \in S PROVE d + 1 \in S
    <3>1. SUFFICES ASSUME n + (d + 1) <= MaxId PROVE M(n) \subseteq M(n + (d + 1))
      OBVIOUS
    <3>2. n + d \in 0 .. MaxId - 1 /\ (n + d) + 1 = n + (d + 1)
      BY <1>0, <3>1
    <3>3. M(n) \subseteq M(n + d)
      <4>1. n + d <= MaxId
        BY <1>0, <3>2
      <4> QED BY <2>2, <4>1
    <3>4. M(n + (d + 1)) = M(n + d) \union Children(M(n + d))
      BY <1>2, <3>2
    <3> QED BY <3>3, <3>4
  <2>3. k - n \in Nat /\ n + (k - n) = k /\ k <= MaxId
    BY <1>0
  <2>4. k - n \in S
    <3> HIDE DEF S
    <3> QED BY <2>1, <2>2, <2>3, Induct
  <2> QED BY <2>3, <2>4
<1>4. \* A member is found on the level of its own number at the latest.
      ASSUME NEW n \in 0 .. MaxId
      PROVE  \A i \in M(n) : i \in alive /\ i \in M(i)
  <2> DEFINE S == {k \in Nat : k <= MaxId => \A i \in M(k) : i \in alive /\ i \in M(i)}
  <2>1. 0 \in S
    <3>1. M(0) = {t} /\ t \in M(t)
      BY <1>0, <1>1, <1>3 DEF M
    <3> QED BY <3>1
  <2>2. ASSUME NEW k \in Nat, k \in S PROVE k + 1 \in S
    <3>1. SUFFICES ASSUME k + 1 <= MaxId, NEW i \in M(k + 1) PROVE i \in alive /\ i \in M(i)
      OBVIOUS
    <3>2. k \in 0 .. MaxId - 1
      BY <1>0, <3>1
    <3>3. i \in M(k) \/ i \in Children(M(k))
      BY <1>2, <3>1, <3>2
    <3>4. CASE i \in M(k)
      BY <1>0, <2>2, <3>1, <3>4
    <3>5. CASE i \in Children(M(k))
      <4>0. \A v \in M(k) : v \in alive /\ v \in M(v)
        BY <1>0, <2>2, <3>1
      <4>1. i \in alive /\ parent[i] \in M(k)
        BY <3>5 DEF Children
      <4>2. parent[i] \in alive /\ parent[i] \in M(parent[i])
        BY <4>0, <4>1
      <4>3. /\ parent[i] \in 0 .. MaxId - 1 /\ i \in parent[i] + 1 .. MaxId
            /\ parent[i] + 1 \in 0 .. MaxId
        BY <4>1, <4>2, Younger
      <4>4. M(parent[i] + 1) = M(parent[i]) \union Children(M(parent[i]))
        BY <1>2, <4>3
      <4>6. i \in M(parent[i] + 1)
        BY <4>1, <4>2, <4>4 DEF Children
      <4>5. M(parent[i] + 1) \subseteq M(i)
        BY <1>3, <4>3
      <4> QED BY <4>1, <4>5, <4>6
    <3> QED BY <3>3, <3>4, <3>5
  <2>3. n \in S
    <3> HIDE DEF S
    <3> QED BY <2>1, <2>2, Induct
  <2> QED BY <2>3
<1>5. Members(t) = M(MaxId) /\ M(0) = {t} /\ MaxId \in 0 .. MaxId
  BY <1>0, <1>1 DEF M
<1>6. t \in Members(t)
  BY <1>0, <1>3, <1>5
<1>7. ASSUME NEW i \in alive, parent[i] \in Members(t) PROVE i \in Members(t)
  <2>1. parent[i] \in alive /\ parent[i] \in M(parent[i])
    BY <1>4, <1>5, <1>7
  <2>2. /\ parent[i] \in 0 .. MaxId - 1 /\ MaxId \in parent[i] + 1 .. MaxId
        /\ parent[i] + 1 \in 0 .. MaxId
    BY <2>1, Younger
  <2>3. M(parent[i] + 1) = M(parent[i]) \union Children(M(parent[i]))
    BY <1>2, <2>2
  <2>4. i \in M(parent[i] + 1)
    BY <2>1, <2>3 DEF Children
  <2>5. M(parent[i] + 1) \subseteq M(MaxId)
    BY <1>3, <2>2
  <2> QED BY <1>5, <2>4, <2>5
<1>8. ASSUME NEW i \in Members(t), i # t PROVE i \in alive /\ parent[i] \in Members(t)
  <2> DEFINE S == {k \in Nat : k <= MaxId /\ i \in M(k) => parent[i] \in Members(t)}
  <2>1. 0 \in S
    BY <1>5, <1>8
  <2>2. ASSUME NEW k \in Nat, k \in S PROVE k + 1 \in S
    <3>1. SUFFICES ASSUME k + 1 <= MaxId, i \in M(k + 1), i \notin M(k)
                   PROVE  parent[i] \in Members(t)
      BY <1>0, <2>2
    <3>2. k \in 0 .. MaxId - 1 /\ MaxId \in k .. MaxId /\ k \in 0 .. MaxId
      BY <1>0, <3>1
    <3>3. i \in Children(M(k))
      BY <1>2, <3>1, <3>2
    <3>4. M(k) \subseteq M(MaxId)
      BY <1>3, <3>2
    <3> QED BY <1>5, <3>3, <3>4 DEF Children
  <2>3. MaxId \in S
    <3> HIDE DEF S
    <3> QED BY <1>0, <2>1, <2>2, Induct
  <2> QED BY <1>4, <1>5, <1>8, <2>3
<1> QED BY <1>6, <1>7, <1>8

\* Where the walk up ends at a root, both walks agree.
LEMMA WalksAgree ==
    ASSUME TypeOK, Kin, NEW t \in alive, parent[t] = Null,
           NEW i \in alive, parent[Root(i)] = Null
    PROVE  i \in Members(t) <=> Root(i) = t
<1>0. MaxDepth \in Nat /\ MaxDepth > 0 /\ MaxId \in Nat
  BY BoundsAssumption
<1>1. PICK w : w = Walk(i)
  OBVIOUS
<1>2. w[1] = i /\ \A n \in 1 .. MaxDepth - 1 : w[n + 1] = Above(w[n])
  BY <1>1, WalkSteps
<1>3. ASSUME NEW v \in alive
      PROVE  Above(v) \in alive /\ (Above(v) \in Members(t) <=> v \in Members(t))
  <2>1. CASE parent[v] = Null
    BY <2>1 DEF Above
  <2>2. CASE parent[v] # Null
    <3>1. Above(v) = parent[v] /\ v # t /\ parent[v] \in alive
      BY <2>2 DEF Above, Kin
    <3> QED BY <3>1, MembersDown
  <2> QED BY <2>1, <2>2
<1> DEFINE S == {d \in Nat : d + 1 <= MaxDepth =>
                   w[d + 1] \in alive /\ (w[d + 1] \in Members(t) <=> i \in Members(t))}
<1>4. 0 \in S
  BY <1>2
<1>5. ASSUME NEW d \in Nat, d \in S PROVE d + 1 \in S
  <2>1. SUFFICES ASSUME (d + 1) + 1 <= MaxDepth
                 PROVE  /\ w[(d + 1) + 1] \in alive
                        /\ w[(d + 1) + 1] \in Members(t) <=> i \in Members(t)
    OBVIOUS
  <2>2. d + 1 \in 1 .. MaxDepth - 1
    BY <1>0, <2>1
  <2>3. w[(d + 1) + 1] = Above(w[d + 1])
    BY <1>2, <2>2
  <2>4. w[d + 1] \in alive /\ (w[d + 1] \in Members(t) <=> i \in Members(t))
    BY <1>0, <1>5, <2>1
  <2> QED BY <1>3, <2>3, <2>4
<1>6. MaxDepth - 1 \in Nat /\ (MaxDepth - 1) + 1 = MaxDepth
  BY <1>0
<1>7. MaxDepth - 1 \in S
  <2> HIDE DEF S
  <2> QED BY <1>4, <1>5, <1>6, Induct
<1>8. Root(i) \in alive /\ (Root(i) \in Members(t) <=> i \in Members(t))
  BY <1>1, <1>6, <1>7 DEF Root
<1>9. Null \notin Members(t)
  <2>1. Null \notin alive
    BY Constants DEF TypeOK, Null
  <2>2. t # Null
    BY <2>1
  <2> QED BY <2>1, <2>2, MembersDown
<1>10. Root(i) \in Members(t) <=> Root(i) = t
  BY <1>8, <1>9, MembersDown
<1> QED BY <1>8, <1>10

\* Parents that have a parent themselves were asked for too early.
LEMMA UsedHasty ==
    ASSUME TypeOK, Tree, NEW i \in alive, parent[i] # Null, parent[parent[i]] # Null
    PROVE  parent[i] \in hasty
<1>1. parent[i] \in Ids
  BY Table0 DEF Tree, Kin
<1>2. Used(parent[i])
  BY DEF Used
<1> QED BY <1>1, <1>2 DEF Tree, Flat

\* The accounts of a walk that has not ended get older, and all but the first
\* are hasty.
LEMMA WalkGoesUp ==
    ASSUME TypeOK, Tree, IsFiniteSet(hasty), NEW i \in alive, NEW n \in 1 .. MaxDepth,
           parent[Walk(i)[n]] # Null
    PROVE  /\ Walk(i)[n] \in alive /\ Walk(i)[n] + n <= MaxId + 1
           /\ n - 1 <= Cardinality({x \in hasty : Walk(i)[n] <= x})
<1>0. /\ MaxDepth \in Nat /\ MaxDepth > 0 /\ MaxId \in Nat /\ alive \subseteq 1 .. MaxId
      /\ hasty \subseteq 0 .. MaxId /\ Ids = 1 .. MaxId
  BY BoundsAssumption, Constants DEF TypeOK
<1>1. PICK w : w = Walk(i)
  OBVIOUS
<1>2. w[1] = i /\ \A k \in 1 .. MaxDepth - 1 : w[k + 1] = Above(w[k])
  BY <1>1, WalkSteps
<1> DEFINE H(v) == {x \in hasty : v <= x}
           Up(k)  == /\ w[k] \in alive
                     /\ parent[w[k]] # Null => /\ w[k] + k <= MaxId + 1
                                               /\ k - 1 <= Cardinality(H(w[k]))
           S == {d \in Nat : d + 1 <= MaxDepth => Up(d + 1)}
<1>3. \A v : IsFiniteSet(H(v)) /\ Cardinality(H(v)) \in Nat
  BY FS_Subset, FS_CardinalityType
<1>4. 0 \in S
  <2>1. w[1] \in alive /\ w[1] + 1 <= MaxId + 1
    BY <1>0, <1>2
  <2>2. 1 - 1 <= Cardinality(H(w[1]))
    BY <1>3
  <2> QED BY <2>1, <2>2
<1>5. ASSUME NEW d \in Nat, d \in S PROVE d + 1 \in S
  <2> DEFINE k == d + 1
  <2>1. SUFFICES ASSUME k + 1 <= MaxDepth PROVE Up(k + 1)
    OBVIOUS
  <2>2. k \in 1 .. MaxDepth - 1 /\ k \in Nat
    BY <1>0, <2>1
  <2>3. Up(k)
    BY <1>0, <1>5, <2>1
  <2>4. w[k + 1] = Above(w[k])
    BY <1>2, <2>2
  <2> HIDE DEF k
  <2>5. CASE parent[w[k]] = Null
    <3>1. w[k + 1] = w[k]
      BY <2>4, <2>5 DEF Above
    <3> QED BY <2>3, <2>5, <3>1
  <2>6. CASE parent[w[k]] # Null
    <3>1. w[k + 1] = parent[w[k]] /\ w[k + 1] \in alive
      BY <2>3, <2>4, <2>6 DEF Above, Tree, Kin
    <3>2. SUFFICES ASSUME parent[w[k + 1]] # Null
                   PROVE  /\ w[k + 1] + (k + 1) <= MaxId + 1
                          /\ (k + 1) - 1 <= Cardinality(H(w[k + 1]))
      BY <3>1
    <3>3. w[k + 1] < w[k] /\ w[k + 1] \in 1 .. MaxId /\ w[k] \in 1 .. MaxId
      BY <2>3, <3>1, Younger DEF Tree
    <3>4. w[k + 1] + (k + 1) <= MaxId + 1
      BY <1>0, <2>2, <2>3, <2>6, <3>3
    <3>5. w[k + 1] \in hasty
      BY <2>3, <2>6, <3>1, <3>2, UsedHasty
    <3>6. H(w[k]) \union {w[k + 1]} \subseteq H(w[k + 1]) /\ w[k + 1] \notin H(w[k])
      <4>1. \A x \in hasty : x \in Int
        BY <1>0
      <4>2. w[k + 1] \in Int /\ w[k] \in Int
        BY <3>3
      <4> QED BY <3>3, <3>5, <4>1, <4>2
    <3> DEFINE A == H(w[k]) \union {w[k + 1]}
    <3>7. Cardinality(A) = Cardinality(H(w[k])) + 1
      <4> HIDE DEF H
      <4> QED BY <1>3, <3>6, FS_AddElement
    <3>8. Cardinality(A) <= Cardinality(H(w[k + 1]))
      <4> HIDE DEF H
      <4> QED BY <1>3, <3>6, FS_Subset
    <3>9. Cardinality(H(w[k])) \in Nat /\ Cardinality(H(w[k + 1])) \in Nat
          /\ k - 1 <= Cardinality(H(w[k]))
      BY <1>3, <2>3, <2>6
    <3>10. (k + 1) - 1 <= Cardinality(H(w[k + 1]))
      <4> HIDE DEF H, A
      <4> QED BY <2>2, <3>7, <3>8, <3>9
    <3> QED BY <3>4, <3>10
  <2> HIDE DEF Up
  <2> QED BY <2>5, <2>6
<1>6. n - 1 \in Nat /\ (n - 1) + 1 = n /\ n <= MaxDepth
  BY <1>0
<1>7. n - 1 \in S
  <2> HIDE DEF S
  <2> QED BY <1>4, <1>5, <1>6, Induct
<1>8. Up(n)
  BY <1>6, <1>7
<1> QED BY <1>1, <1>8

\* In a state of the tree, the two walks agree unless a chain is too long.
LEMMA WalkEnds ==
    ASSUME TypeOK, Tree, MaxId <= MaxDepth \/ Cardinality(hasty) + 2 <= MaxDepth
    PROVE  FamiliesAgree
<1>0. /\ MaxDepth \in Nat /\ MaxDepth > 0 /\ MaxId \in Nat /\ alive \subseteq 1 .. MaxId
      /\ hasty \subseteq 0 .. MaxId
  BY BoundsAssumption, Constants DEF TypeOK
<1>1. IsFiniteSet(hasty)
  BY <1>0, FS_Interval, FS_Subset, 0 \in Int, MaxId \in Int
<1>2. ASSUME NEW i \in alive PROVE parent[Root(i)] = Null
  <2>1. SUFFICES ASSUME parent[Root(i)] # Null PROVE FALSE
    OBVIOUS
  <2>2. MaxDepth \in 1 .. MaxDepth
    BY <1>0
  <2> DEFINE v == Walk(i)[MaxDepth]
             H == {x \in hasty : v <= x}
  <2>3. /\ v \in alive /\ v + MaxDepth <= MaxId + 1
        /\ MaxDepth - 1 <= Cardinality(H)
        /\ parent[v] # Null
    BY <1>1, <2>1, <2>2, WalkGoesUp DEF Root
  <2>4. v \in 1 .. MaxId
    BY <1>0, <2>3
  <2>5. Cardinality(H) <= Cardinality(hasty) /\ Cardinality(H) \in Nat
        /\ Cardinality(hasty) \in Nat
    BY <1>1, FS_Subset, FS_CardinalityType
  <2>6. MaxId <= MaxDepth
    <3> HIDE DEF H, v
    <3> QED BY <1>0, <2>3, <2>5
  <2>7. parent[v] \in 1 .. MaxId /\ parent[v] < v
    <3>1. parent[v] \in alive
      BY <2>3 DEF Tree, Kin
    <3> QED BY <2>3, <3>1, Younger DEF Tree
  <2> HIDE DEF v
  <2> QED BY <1>0, <2>3, <2>4, <2>6, <2>7
<1> QED BY <1>2, WalksAgree DEF FamiliesAgree, Tree

\* A chain of accounts is longer than two only where sub-accounts were asked for
\* too early, one more for each account above: as long as getRootUserId looks at
\* that many, the walk up and the walk down agree on who belongs to a family
\* (user/service.ts:358, 377).
THEOREM FamiliesHold == Spec => [](Cardinality(hasty) + 2 <= MaxDepth => FamiliesAgree)
<1>1. TypeOK /\ Tree => (Cardinality(hasty) + 2 <= MaxDepth => FamiliesAgree)
  BY WalkEnds
<1> QED BY <1>1, TreeHolds, PTL

\* The walk up and the walk down agree for every overlap of requests, on a server
\* that makes no more accounts than getRootUserId looks at.
THEOREM SmallServerFamilies == MaxId <= MaxDepth => (Spec => []FamiliesAgree)
<1>1. SUFFICES ASSUME MaxId <= MaxDepth PROVE Spec => []FamiliesAgree
  OBVIOUS
<1>2. TypeOK /\ Tree => FamiliesAgree
  BY <1>1, WalkEnds
<1> QED BY <1>2, TreeHolds, PTL

-----------------------------------------------------------------------------
(* The setup.                                                              *)

\* A request that arrives changes nothing but the list of requests.
LEMMA ArriveBegins ==
    ASSUME NEW j \in Jobs, Arrive(j)
    PROVE  Free(j) /\ (\E r : job' = [job EXCEPT ![j] = r]) /\ UNCHANGED process
<1> DEFINE Begins == Free(j) /\ (\E r : job' = [job EXCEPT ![j] = r]) /\ UNCHANGED process
<1>1. \A r : Begin(j, r) => Begins
  BY DEF Begin
<1> HIDE DEF Begins
<1>2. \A s, by, t : Ask(j, s, by, t) => Begins
  BY <1>1 DEF Ask
<1>3. \A by, t, r, on : PatchRequest(j, by, t, r, on) => Begins
  BY <1>1 DEF PatchRequest
<1>4. \A by, t : About(j, by, t) => Begins
  BY <1>2, <1>3 DEF About, SubRequest, ClientRequest, QuotaRequest, QuotaDeleteRequest,
     DeleteRequest
<1>5. \A by, r : CreateRequest(j, by, r) => Begins
  BY <1>1 DEF CreateRequest
<1>6. \A by : ClientForNew(j, by) => Begins
  BY <1>1 DEF ClientForNew
<1>7. Step2Request(j) \/ Step4Request(j) \/ MigrateRequest(j) => Begins
  BY <1>1 DEF Step2Request, Step4Request, MigrateRequest, Wizard
<1>8. Begins
  BY <1>4, <1>5, <1>6, <1>7 DEF Arrive
<1> QED BY <1>8 DEF Begins

\* Until an administrator was made there are no accounts and nothing but the
\* second step of the wizard can run.
Bare == first = {} =>
          /\ alive = {} /\ step = 1 /\ phase # "close"
          /\ \A k \in Jobs : job[k].at \in {"idle", "wizardUser"}

LEMMA BareInit == Init => Bare
BY DEF Init, Bare, Idle

LEMMA BareNext == TypeOK /\ Bare /\ [Next]_vars => Bare'
<1> SUFFICES ASSUME TypeOK, Bare, [Next]_vars, first' = {}
             PROVE  (/\ alive = {} /\ step = 1 /\ phase # "close"
                     /\ \A k \in Jobs : job[k].at \in {"idle", "wizardUser"})'
  BY DEF Bare
<1> DEFINE Q == /\ alive = {} /\ step = 1 /\ phase # "close"
                /\ \A k \in Jobs : job[k].at \in {"idle", "wizardUser"}
<1>1. CASE first # {}
  <2>1. \A i, r : Insert(i, r) /\ CreateFirst => first' # {}
    BY <1>1 DEF CreateFirst
  <2>2. ~CreateFirst
    BY <1>1 DEF CreateFirst
  <2>3. first' = first
    <3>1. \A j \in Jobs : Serve(j) => first' = first
      BY <2>2 DEF Serve, SubCreate, SubAttach, ClientUser, ClientCheck, ClientInsert,
         QuotaRoot, QuotaWrite, QuotaDelete, SetRole, SetEnabled, Delete, Create, Log,
         Step2User, Step2Refused, Step2End, WizardEnd, Import, ImportEnd, SetStep, process
    <3>2. \A j \in Jobs : Arrive(j) => first' = first
      BY ArriveBegins DEF process
    <3>3. \A t \in Ids : Disown(t) => first' = first
      BY DEF Disown, process
    <3>4. Boot \/ Seed \/ SeedFails \/ SeedEnd \/ Crash => first' = first
      BY <2>2 DEF Boot, Seed, SeedFails, SeedEnd, Crash
    <3>5. UNCHANGED vars => first' = first
      BY DEF vars, process
    <3> QED BY <3>1, <3>2, <3>3, <3>4, <3>5 DEF Next
  <2> QED BY <1>1, <2>3
<1>2. CASE first = {}
  <2>1. Q
    BY <1>2 DEF Bare
  <2>2. ASSUME NEW j \in Jobs, Arrive(j) PROVE Q'
    <3>1. Callers(j) = {}
      BY <2>1 DEF Callers, TypeOK
    <3>2. Step2Request(j)
      BY <2>1, <2>2, <3>1 DEF Arrive, Step4Request, MigrateRequest
    <3>3. job' = [job EXCEPT ![j] = [Idle EXCEPT !.at = "wizardUser"]]
          /\ UNCHANGED <<alive, step, phase>>
      BY <3>2 DEF Step2Request, Wizard, UserFirst, Begin, users, process
    <3> QED BY <2>1, <3>3 DEF TypeOK, Idle
  <2>3. ASSUME NEW j \in Jobs, Serve(j) PROVE FALSE
    <3>1. job[j].at \in {"idle", "wizardUser"} /\ alive = {}
      BY <2>1
    <3>2. Step2User(j)
      BY <2>3, <3>1 DEF Serve, At, SubCreate, SubAttach, ClientUser, ClientCheck,
         ClientInsert, QuotaRoot, QuotaWrite, QuotaDelete, SetRole, SetEnabled, Delete,
         Create, Log, Step2Refused, Step2End, WizardEnd, Import, ImportEnd
    <3> QED BY <3>1, <3>2 DEF Step2User, CreateFirst
  <2>4. ASSUME NEW t \in Ids, Disown(t) PROVE Q'
    BY <2>1, <2>4 DEF Disown, users, process
  <2>5. Boot => Q'
    BY <2>1 DEF Boot, StartUp
  <2>6. Seed => FALSE
    BY <2>1 DEF Seed, CreateFirst
  <2>7. SeedFails => Q'
    BY <2>1 DEF SeedFails, StartUp, users
  <2>8. SeedEnd => FALSE
    BY <2>1 DEF SeedEnd, StartUp
  <2>9. Crash => Q'
    BY <2>1 DEF Crash, Idle, users
  <2>10. UNCHANGED vars => Q'
    BY <2>1 DEF vars, users, process
  <2> QED BY <2>2, <2>3, <2>4, <2>5, <2>6, <2>7, <2>8, <2>9, <2>10 DEF Next
<1> QED BY <1>1, <1>2

\* The setup never gets past its second step without an administrator having
\* been made, whatever requests repeat, overlap or are cut.
THEOREM SetupMakesAdministrator == Spec => []AdministratorMade
<1>1. Bare => AdministratorMade
  BY DEF Bare, AdministratorMade
<1> QED BY <1>1, BareInit, BareNext, InitType, TypeNext, PTL DEF Spec

WizardStages == {"wizardUser", "wizardStep", "import", "wizardEnd"}

\* Where the environment names the administrator the wizard has nothing to do,
\* and an account was made by the start-up that ended the setup, or was cut.
Orderly ==
  /\ phase = "seed" => unattended /\ step # 0
  /\ unattended => (phase = "up" => step = 0)
                     /\ \A k \in Jobs : job[k].at \notin WizardStages
  /\ seeded # {} => unattended /\ (step = 0 \/ phase = "close" \/ cut)
  /\ phase = "down" => cut

LEMMA OrderlyInit == Init => Orderly
BY DEF Init, Orderly, Idle, WizardStages

LEMMA OrderlyNext == TypeOK /\ Orderly /\ [Next]_vars => Orderly'
<1> SUFFICES ASSUME TypeOK, Orderly, [Next]_vars PROVE Orderly'
  OBVIOUS
<1> DEFINE Same == UNCHANGED <<step, phase, unattended, seeded, cut>>
           Quiet == \A k \in Jobs : job'[k].at \in WizardStages => unattended = FALSE
<1>1. ASSUME Same, Quiet PROVE Orderly'
  BY <1>1 DEF Orderly
<1>2. ASSUME NEW j \in Jobs, Arrive(j) PROVE Orderly'
  <2>1. Same
    BY <1>2, ArriveBegins DEF process
  <2>2. ASSUME unattended PROVE job'[j].at \notin WizardStages
    <3>1. phase = "up" /\ step = 0
      BY <1>2, <2>2, ArriveBegins DEF Orderly, Free
    <3>2. ASSUME NEW s \in Stages \ WizardStages, NEW by, NEW t, Ask(j, s, by, t)
          PROVE  job'[j].at \notin WizardStages
      BY <3>2 DEF Ask, Begin, TypeOK, Idle
    <3>3. ASSUME NEW by, NEW t, NEW r, NEW on, PatchRequest(j, by, t, r, on)
          PROVE  job'[j].at \notin WizardStages
      BY <3>3 DEF PatchRequest, Begin, TypeOK, Idle, WizardStages
    <3>4. ASSUME NEW by, NEW r, CreateRequest(j, by, r) PROVE job'[j].at \notin WizardStages
      BY <3>4 DEF CreateRequest, Begin, TypeOK, Idle, WizardStages
    <3>5. ASSUME NEW by, ClientForNew(j, by) PROVE job'[j].at \notin WizardStages
      BY <3>5 DEF ClientForNew, Begin, TypeOK, Idle, WizardStages
    <3>6. {"subCreate", "clientCheck", "quotaRoot", "quotaDelete", "delete"}
            \subseteq Stages \ WizardStages
      BY DEF Stages, WizardStages
    <3>7. ASSUME NEW by, NEW t, About(j, by, t) PROVE job'[j].at \notin WizardStages
      BY <3>2, <3>3, <3>6, <3>7 DEF About, SubRequest, ClientRequest, QuotaRequest,
         QuotaDeleteRequest, DeleteRequest
    <3> QED BY <1>2, <3>1, <3>4, <3>5, <3>7 DEF Arrive, Step2Request, Step4Request,
            MigrateRequest
  <2>3. \A k \in Jobs : k # j => job'[k] = job[k]
    BY <1>2, ArriveBegins DEF TypeOK
  <2>4. Quiet
    <3>1. unattended \in BOOLEAN
      BY Zenon DEF TypeOK
    <3> QED BY <2>2, <2>3, <3>1 DEF Orderly
  <2> QED BY <1>1, <2>1, <2>4
<1>3. ASSUME NEW j \in Jobs, Serve(j) PROVE Orderly'
  <2>1. phase = "up" /\ UNCHANGED <<phase, unattended, seeded, cut>>
    BY <1>3 DEF Serve, At, SubCreate, SubAttach, ClientUser, ClientCheck, ClientInsert,
       QuotaRoot, QuotaWrite, QuotaDelete, SetRole, SetEnabled, Delete, Create, Log,
       Step2User, Step2Refused, Step2End, WizardEnd, Import, ImportEnd, SetStep, process
  <2>2. CASE job[j].at \in WizardStages
    BY <2>1, <2>2 DEF Orderly
  <2>3. CASE job[j].at \notin WizardStages
    <3>1. step' = step /\ \A k \in Jobs : job'[k].at \in WizardStages => job[k].at \in WizardStages
      BY <1>3, <2>3 DEF Serve, At, SubCreate, SubAttach, ClientUser, ClientCheck,
         ClientInsert, QuotaRoot, QuotaWrite, QuotaDelete, SetRole, SetEnabled, Delete,
         Create, Log, Step2User, Step2Refused, Step2End, WizardEnd, Import, ImportEnd,
         process, Goto, Done, Idle, TypeOK, Job, WizardStages
    <3>2. Quiet
      <4>1. unattended \in BOOLEAN
        BY Zenon DEF TypeOK
      <4> QED BY <3>1, <4>1 DEF Orderly
    <3> QED BY <1>1, <2>1, <3>1, <3>2
  <2> QED BY <2>2, <2>3
<1>4. job' = job => Quiet
  <2>1. unattended \in BOOLEAN
    BY Zenon DEF TypeOK
  <2> QED BY <2>1 DEF Orderly
<1>5. ASSUME NEW t \in Ids, Disown(t) PROVE Orderly'
  BY <1>1, <1>4, <1>5 DEF Disown, process
<1>6. Boot => Orderly'
  BY DEF Boot, StartUp, Orderly
<1>7. Seed => Orderly'
  BY DEF Seed, StartUp, Orderly
<1>8. SeedFails => Orderly'
  BY DEF SeedFails, StartUp, Orderly
<1>9. SeedEnd => Orderly'
  BY DEF SeedEnd, StartUp, Orderly, Finished
<1>10. ASSUME Crash PROVE Orderly'
  <2>1. \A k \in Jobs : job'[k].at \notin WizardStages
    BY <1>10 DEF Crash, Idle, WizardStages
  <2>2. phase' = "boot" /\ UNCHANGED <<step, unattended, seeded>>
    BY <1>10 DEF Crash
  <2>3. phase = "close" \/ cut => cut'
    BY <1>10, Zenon DEF Crash
  <2> QED BY <2>1, <2>2, <2>3 DEF Orderly
<1>11. UNCHANGED vars => Orderly'
  BY <1>1, <1>4 DEF vars, process
<1> QED BY <1>2, <1>3, <1>5, <1>6, <1>7, <1>8, <1>9, <1>10, <1>11 DEF Next

\* A start that cannot make the account of the environment is one after the
\* process ended between the account and the end of the setup.
THEOREM StartsAgainHolds == Spec => []StartsAgain
<1>1. Orderly => StartsAgain
  BY DEF Orderly, StartsAgain
<1> QED BY <1>1, OrderlyInit, OrderlyNext, InitType, TypeNext, PTL DEF Spec
=============================================================================
