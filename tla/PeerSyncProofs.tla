--------------------------- MODULE PeerSyncProofs ---------------------------
(***************************************************************************)
(* For any set of clients and jobs and any bounds: PeerSync is well typed, *)
(* its queue stays well formed, and a server that never overlaps two syncs *)
(* implements Mirror.                                                      *)
(***************************************************************************)
EXTENDS PeerSync, WellFoundedInduction, NaturalsInduction, TLAPS

\* What TypeOK rests on: a handler about to write has a client of the table,
\* and a drain that works on a row has that row on its list.
JobSound ==
    \A j \in Jobs :
        /\ job[j].at = "write" => job[j].client \in Clients
        /\ job[j].op = "drain" /\ job[j].at \notin {"idle", "next"} => job[j].due # {}

Inv == TypeOK /\ JobSound

\* A nonempty set of rows has one with the least id, so Current is one of the
\* rows of the drain.
LEMMA LeastRow ==
    ASSUME NEW R \in SUBSET Rows, R # {}
    PROVE  \E r \in R : \A s \in R : r.id <= s.id
<1> DEFINE Ids == {r.id : r \in R}
<1>1. Ids \subseteq Nat /\ Ids # {}
  BY DEF Rows
<1>2. PICK m \in Ids : \A n \in Ids : <<n, m>> \notin OpToRel(<, Nat)
  BY <1>1, WFMin, NatLessThanWellFounded, Zenon
<1>3. \A n \in Ids : m <= n
  <2>1. \A n \in Ids : ~(n < m)
    BY <1>1, <1>2, Zenon DEF OpToRel
  <2> QED BY <1>1, <2>1
<1> QED BY <1>3

LEMMA CurrentDue ==
    ASSUME TypeOK, NEW j \in Jobs, job[j].due # {}
    PROVE  Current(j) \in job[j].due /\ Current(j) \in Rows
<1>1. job[j].due \in SUBSET Rows
  BY DEF TypeOK, Job
<1>2. \E r \in job[j].due : \A s \in job[j].due : r.id <= s.id
  BY <1>1, LeastRow
<1> QED BY <1>1, <1>2 DEF Current

-----------------------------------------------------------------------------

LEMMA IdleJob == Idle \in Job /\ Idle.at = "idle"
BY DEF Idle, Job, Ops, TimerOps

LEMMA InitInv == Init => Inv
<1> SUFFICES ASSUME Init PROVE Inv
  OBVIOUS
<1>1. Enabled \subseteq Clients
  BY DEF Enabled
<1>2. \A j \in Jobs : job[j] = Idle
  BY DEF Init
<1>a. iface \in BOOLEAN /\ lapse \in BOOLEAN
  BY Zenon DEF Init
<1>b. db \in [Clients -> {"none", "on", "off", "gone"}] /\ job \in [Jobs -> Job]
  BY IdleJob DEF Init
<1>c. requests \in 0..MaxRequests /\ fails \in 0..MaxFails /\ crashes \in 0..MaxCrashes
  BY ConstAssumption DEF Init
<1>3. TypeOK
  BY <1>1, <1>a, <1>b, <1>c DEF Init, TypeOK
<1>4. JobSound
  BY <1>2, IdleJob DEF JobSound
<1> QED BY <1>3, <1>4 DEF Inv

\* One step of a request handler before its sync.
LEMMA RequestInv ==
    ASSUME Inv, NEW j \in Jobs, NEW c \in Clients, Request(j, c) PROVE Inv'
<1>1. PICK op \in RequestOps : Arrive(j, op, c)
  BY DEF Request, CreateRequest, EnableRequest, DisableRequest, DeleteRequest,
     UpdateRequest, RequestOps
<1> USE ConstAssumption DEF Inv, Arrive, Start, Table, Engine
<1> DEFINE rec == [Idle EXCEPT !.at = "write", !.op = op, !.client = c]
<1>2. rec \in Job
  BY DEF Idle, Job, Ops
<1>3. TypeOK'
  BY <1>1, <1>2 DEF TypeOK
<1>4. JobSound'
  BY <1>1 DEF TypeOK, JobSound, Idle, RequestOps
<1> QED BY <1>3, <1>4

LEMMA WriteRowInv ==
    ASSUME Inv, NEW j \in Jobs, WriteRow(j) PROVE Inv'
<1> DEFINE c == job[j].client
<1> USE DEF Inv, WriteRow, Goto, Engine, Counters
<1>0. c \in Clients
  BY DEF JobSound
<1>1. job' \in [Jobs -> Job]
  BY DEF TypeOK, Job, Ops, RequestOps
<1>2. /\ db' \in [Clients -> {"none", "on", "off", "gone"}]
      /\ expired' \in SUBSET Clients
      /\ queue' \in SUBSET Rows
  <2>1. CASE job[j].op = "create" /\ CreateRow(c)
    BY <1>0, <2>1 DEF TypeOK, CreateRow
  <2>2. CASE Toggle(c, "on") \/ Toggle(c, "off")
    BY <1>0, <2>2 DEF TypeOK, Toggle, Exists
  <2>3. CASE DeleteRow(c)
    BY <1>0, <2>3 DEF TypeOK, DeleteRow
  <2>4. CASE UpdateRow(c)
    BY <1>0, <2>4 DEF TypeOK, UpdateRow
  <2> QED BY <2>1, <2>2, <2>3, <2>4
<1>3. TypeOK'
  BY <1>1, <1>2 DEF TypeOK
<1>4. JobSound'
  BY DEF TypeOK, Job, JobSound
<1> QED BY <1>3, <1>4

\* One step of a timer before its sync.
LEMMA TimerInv ==
    ASSUME Inv, NEW j \in Jobs, Timers(j) PROVE Inv'
<1> USE DEF Inv, Start, Table, Engine, Counters
<1>1. ASSUME NEW op \in {"enforce", "cron"},
             Start(j, [Idle EXCEPT !.at = "next", !.op = op, !.todo = Expiring]),
             UNCHANGED <<Table, Engine, phase, lapse, Counters>>
      PROVE  Inv'
  <2>1. [Idle EXCEPT !.at = "next", !.op = op, !.todo = Expiring] \in Job
    BY DEF Expiring, Enabled, Job, Idle, Ops, TimerOps
  <2>2. TypeOK'
    BY <1>1, <2>1 DEF TypeOK
  <2>3. JobSound'
    BY <1>1 DEF TypeOK, JobSound, Idle
  <2> QED BY <2>2, <2>3
<1>2. CASE StartReconciler(j)
  BY <1>2 DEF StartReconciler, TypeOK, JobSound, Job, Idle, Ops, TimerOps
<1>3. CASE StartDrain(j)
  <2>1. PICK due \in SUBSET queue \ {{}} :
           Start(j, [Idle EXCEPT !.at = "next", !.op = "drain", !.due = due])
    BY <1>3 DEF StartDrain
  <2>2. due \in SUBSET Rows
    BY DEF TypeOK
  <2>3. TypeOK'
    BY <1>3, <2>1, <2>2 DEF StartDrain, TypeOK, Job, Idle, Ops, TimerOps
  <2>4. JobSound'
    BY <2>1 DEF TypeOK, JobSound, Idle
  <2> QED BY <2>3, <2>4
<1> QED BY <1>1, <1>2, <1>3 DEF Timers, StartEnforcer, StartCron

LEMMA ToggleOffInv ==
    ASSUME Inv, NEW j \in Jobs, ToggleOff(j) PROVE Inv'
<1>1. PICK c \in job[j].todo :
         /\ Toggle(c, "off")
         /\ job' = [job EXCEPT ![j].todo = @ \ {c}, ![j].client = c,
                               ![j].at = IF job[j].op = "enforce" \/ job[j].todo = {c}
                                         THEN "read" ELSE "next"]
  BY DEF ToggleOff
<1>2. c \in Clients
  BY DEF Inv, TypeOK, Job
<1>3. job' \in [Jobs -> Job]
  <2> DEFINE at == IF job[j].op = "enforce" \/ job[j].todo = {c} THEN "read" ELSE "next"
             rec == [job[j] EXCEPT !.todo = @ \ {c}, !.client = c, !.at = at]
  <2>1. at \in {"read", "next"} /\ job[j] \in Job
    BY DEF Inv, TypeOK
  <2>2. rec \in Job
    BY <1>2, <2>1 DEF Job
  <2>3. job' = [job EXCEPT ![j] = rec]
    BY <1>1
  <2> QED BY <2>2, <2>3 DEF Inv, TypeOK
<1>4. db' \in [Clients -> {"none", "on", "off", "gone"}]
  BY <1>1, <1>2 DEF Inv, TypeOK, Toggle
<1>5. TypeOK'
  BY <1>1, <1>3, <1>4 DEF Inv, ToggleOff, TypeOK, Toggle, Engine, Counters
<1>6. JobSound'
  BY <1>1, <1>2 DEF Inv, ToggleOff, TypeOK, Job, JobSound
<1> QED BY <1>5, <1>6 DEF Inv

LEMMA SyncInv ==
    ASSUME Inv, NEW j \in Jobs, Sync(j) \/ EnforcerDone(j) \/ DrainNext(j) PROVE Inv'
<1> USE DEF Inv, Goto, Finish, Table, Engine, Counters
<1>1. CASE ReadClients(j)
  <2>1. ConfigPeers \in SUBSET Clients
    BY DEF ConfigPeers, Enabled
  <2> QED BY <1>1, <2>1 DEF ReadClients, TypeOK, JobSound, Job
<1>2. CASE OpenConf(j)
  BY <1>2 DEF OpenConf, TypeOK, JobSound, Job
<1>3. CASE WriteConf(j)
  BY <1>3 DEF WriteConf, TypeOK, JobSound, Job
<1>4. CASE WgQuickUp(j)
  BY <1>4 DEF WgQuickUp, TypeOK, JobSound, Job
<1>5. CASE SyncConf(j)
  <2>1. job' \in [Jobs -> Job] /\ JobSound'
    BY <1>5 DEF SyncConf, TypeOK, JobSound, Job
  <2>2. fails' \in 0..MaxFails
    BY <1>5, ConstAssumption DEF SyncConf, TypeOK
  <2>3. lapse' \in BOOLEAN
    BY <1>5, Zenon DEF SyncConf, TypeOK
  <2> QED BY <1>5, <2>1, <2>2, <2>3 DEF SyncConf, SyncedPeers, TypeOK
<1>6. CASE SyncFails(j)
  BY <1>6, ConstAssumption DEF SyncFails, TypeOK, JobSound, Job
<1>7. CASE EnforcerDone(j)
  BY <1>7 DEF EnforcerDone, TypeOK, JobSound, Job, Idle, Ops, TimerOps
<1>8. CASE DrainNext(j)
  BY <1>8 DEF DrainNext, TypeOK, JobSound, Job, Idle, Ops, TimerOps
<1> QED BY <1>1, <1>2, <1>3, <1>4, <1>5, <1>6, <1>7, <1>8 DEF Sync

LEMMA OutcomeInv ==
    ASSUME Inv, NEW j \in Jobs, Outcome(j) PROVE Inv'
<1> USE DEF Inv, Goto, Finish, Table, Engine, Counters
<1>1. CASE Return(j)
  BY <1>1 DEF Return, TypeOK, JobSound, Job, Idle, Ops, TimerOps
<1>2. CASE Enqueue(j)
  <2>1. job[j].client \in Clients \union {NoClient}
    BY DEF TypeOK, Job
  <2> DEFINE c == IF job[j].op = "delete" THEN NoClient ELSE job[j].client
  <2>a. [id |-> nextId, client |-> c, attempts |-> 0] \in Rows
    BY <2>1 DEF TypeOK, Rows
  <2>2. queue' \in SUBSET Rows /\ nextId' \in Nat \ {0}
    BY <1>2, <2>a DEF Enqueue, StoreRow, TypeOK
  <2>b. lapse' \in BOOLEAN
    BY <1>2, Zenon DEF Enqueue, TypeOK
  <2>3. job' \in [Jobs -> Job] /\ JobSound'
    BY <1>2 DEF Enqueue, TypeOK, JobSound, Job, Idle, Ops, TimerOps
  <2> QED BY <1>2, <2>2, <2>b, <2>3 DEF Enqueue, TypeOK
<1>3. CASE Swallow(j)
  BY <1>3 DEF Swallow, TypeOK, JobSound, Job, Idle, Ops, TimerOps
<1>4. CASE EnforcerNext(j)
  BY <1>4 DEF EnforcerNext, TypeOK, JobSound, Job
<1>5. CASE DrainAck(j)
  BY <1>5 DEF DrainAck, NextRow, TypeOK, JobSound, Job
<1>6. CASE DrainNack(j)
  <2>1. Current(j) \in Rows
    BY <1>6, CurrentDue DEF DrainNack, JobSound
  <2>2. NewAttempts(j) \in Nat
    BY <2>1 DEF NewAttempts, Rows
  <2>a. \A r \in queue : [r EXCEPT !.attempts = NewAttempts(j)] \in Rows
    BY <2>2 DEF TypeOK, Rows
  <2>3. queue' \in SUBSET Rows
    BY <1>6, <2>a DEF DrainNack, TypeOK
  <2>b. lapse' \in BOOLEAN
    BY <1>6, Zenon DEF DrainNack, TypeOK
  <2>4. job' \in [Jobs -> Job] /\ JobSound'
    BY <1>6 DEF DrainNack, NextRow, TypeOK, JobSound, Job
  <2> QED BY <1>6, <2>3, <2>b, <2>4 DEF DrainNack, TypeOK
<1>7. CASE BootDone(j)
  BY <1>7 DEF BootDone, TypeOK, JobSound, Job, Idle, Ops, TimerOps
<1> QED BY <1>1, <1>2, <1>3, <1>4, <1>5, <1>6, <1>7 DEF Outcome

LEMMA ProcessInv ==
    ASSUME Inv,
           \/ Crash
           \/ \E j \in Jobs : Boot(j)
           \/ \E c \in Clients : Expire(c)
    PROVE  Inv'
<1> USE DEF Inv, Table, Engine, Counters
<1>1. CASE Crash
  <2>1. \A j \in Jobs : job'[j] = Idle
    BY <1>1 DEF Crash
  <2>a. iface' \in BOOLEAN
    BY <1>1, Zenon DEF Crash
  <2>b. job' \in [Jobs -> Job] /\ crashes' \in 0..MaxCrashes
    BY <1>1, IdleJob, ConstAssumption DEF Crash, TypeOK
  <2>2. TypeOK'
    BY <1>1, <2>a, <2>b DEF Crash, TypeOK
  <2>3. JobSound'
    BY <2>1, IdleJob DEF JobSound
  <2> QED BY <2>2, <2>3
<1>2. ASSUME NEW j \in Jobs, Boot(j) PROVE Inv'
  BY <1>2 DEF Boot, Start, TypeOK, JobSound, Job, Idle, Ops
<1>3. ASSUME NEW c \in Clients, Expire(c) PROVE Inv'
  BY <1>3 DEF Expire, TypeOK, JobSound
<1> QED BY <1>1, <1>2, <1>3

LEMMA NextInv == Inv /\ [Next]_vars => Inv'
<1> SUFFICES ASSUME Inv, [Next]_vars PROVE Inv'
  OBVIOUS
<1>1. CASE UNCHANGED vars
  BY <1>1 DEF vars, Inv, TypeOK, JobSound
<1>2. CASE Next
  <2>1. ASSUME NEW j \in Jobs, Continue(j) PROVE Inv'
    BY <2>1, WriteRowInv, ToggleOffInv, SyncInv, OutcomeInv DEF Continue
  <2> QED BY <1>2, <2>1, RequestInv, TimerInv, ProcessInv DEF Next
<1> QED BY <1>1, <1>2

\* TypeOK holds for every set of clients and of overlapping jobs.
THEOREM TypeCorrect == Spec => []TypeOK
<1>1. Spec => []Inv
  BY InitInv, NextInv, PTL DEF Spec
<1>2. Inv => TypeOK
  BY DEF Inv
<1> QED BY <1>1, <1>2, PTL

-----------------------------------------------------------------------------
(* The queue.                                                              *)

\* What each step may do to the queue, and what keeps it well formed.
LEMMA QueueUnchanged ==
    ASSUME QueueSound, UNCHANGED <<queue, nextId>>,
           \A c \in Clients : Exists(c) => Exists(c)'
    PROVE  QueueSound'
BY DEF QueueSound

LEMMA QueueShrinks ==
    ASSUME QueueSound, UNCHANGED nextId, queue' \subseteq queue,
           \A r \in queue' : r.client \in Clients => Exists(r.client)'
    PROVE  QueueSound'
BY DEF QueueSound

LEMMA WriteRowQueue ==
    ASSUME Inv, QueueSound, NEW j \in Jobs, WriteRow(j) PROVE QueueSound'
<1> DEFINE c == job[j].client
<1>1. c \in Clients /\ UNCHANGED nextId
  BY DEF WriteRow, Inv, JobSound
<1>2. CASE DeleteRow(c)
  <2>1. \A r \in queue' : r.client \in Clients => Exists(r.client)'
    BY <1>1, <1>2 DEF DeleteRow, Exists, QueueSound, Inv, TypeOK
  <2> QED BY <1>1, <1>2, <2>1, QueueShrinks DEF DeleteRow
<1>3. CASE CreateRow(c) \/ Toggle(c, "on") \/ Toggle(c, "off") \/ UpdateRow(c)
  <2>1. UNCHANGED queue
    BY <1>3 DEF CreateRow, Toggle, UpdateRow
  <2>2. \A d \in Clients : Exists(d) => Exists(d)'
    BY <1>1, <1>3 DEF CreateRow, Toggle, UpdateRow, Exists, Inv, TypeOK
  <2> QED BY <1>1, <2>1, <2>2, QueueUnchanged
<1> QED BY <1>2, <1>3 DEF WriteRow

LEMMA ToggleOffQueue ==
    ASSUME Inv, QueueSound, NEW j \in Jobs, ToggleOff(j) PROVE QueueSound'
<1>1. PICK c \in job[j].todo : Toggle(c, "off")
  BY DEF ToggleOff
<1>2. UNCHANGED <<queue, nextId>>
  BY <1>1 DEF ToggleOff, Toggle
<1>3. \A d \in Clients : Exists(d) => Exists(d)'
  BY <1>1 DEF Toggle, Exists, Inv, TypeOK
<1> QED BY <1>2, <1>3, QueueUnchanged

\* A new row takes an id above all others; Insertable is the foreign key.
LEMMA EnqueueQueue ==
    ASSUME Inv, QueueSound, NEW j \in Jobs, Enqueue(j) PROVE QueueSound'
<1> DEFINE c   == IF job[j].op = "delete" THEN NoClient ELSE job[j].client
           row == [id |-> nextId, client |-> c, attempts |-> 0]
<1>1. UNCHANGED db
  BY DEF Enqueue
<1>2. CASE UNCHANGED <<queue, nextId>>
  BY <1>1, <1>2, QueueUnchanged DEF Exists
<1>3. CASE Insertable(c) /\ StoreRow(c)
  <2>1. queue' = queue \union {row} /\ nextId' = nextId + 1 /\ nextId \in Nat
    BY <1>3 DEF StoreRow, Inv, TypeOK
  <2>2. \A r \in queue : r.id < nextId /\ r.id \in Nat
    BY DEF QueueSound, Inv, TypeOK, Rows
  <2>3. \A r, s \in queue' : r.id = s.id => r = s
    BY <2>1, <2>2 DEF QueueSound
  <2>4. \A r \in queue' : r.id < nextId'
    BY <2>1, <2>2
  <2>5. \A r \in queue' : r.client \in Clients => Exists(r.client)'
    BY <1>1, <1>3, <2>1 DEF Insertable, QueueSound, Exists
  <2>6. \A r \in queue' : r.attempts < MaxAttempts
    BY <2>1, ConstAssumption DEF QueueSound
  <2> QED BY <2>3, <2>4, <2>5, <2>6 DEF QueueSound
<1> QED BY <1>2, <1>3 DEF Enqueue

\* A failed attempt rewrites one row and keeps its id and client.
LEMMA DrainNackQueue ==
    ASSUME Inv, QueueSound, NEW j \in Jobs, DrainNack(j) PROVE QueueSound'
<1> DEFINE n == NewAttempts(j)
           f(r) == IF r.id = Current(j).id THEN [r EXCEPT !.attempts = n] ELSE r
<1>1. UNCHANGED <<db, nextId>>
  BY DEF DrainNack
<1>2. CASE n >= MaxAttempts
  BY <1>1, <1>2, QueueShrinks DEF DrainNack, GivesUp, Exists, QueueSound
<1>3. CASE ~(n >= MaxAttempts)
  <2>1. queue' = {f(r) : r \in queue}
    BY <1>3 DEF DrainNack, GivesUp
  <2>2. n \in Nat /\ n < MaxAttempts
    <3>1. Current(j) \in Rows
      BY CurrentDue DEF DrainNack, Inv, JobSound
    <3> QED BY <1>3, <3>1, ConstAssumption DEF NewAttempts, Rows
  <2>3. \A r \in queue : /\ f(r).id = r.id
                         /\ f(r).client = r.client
                         /\ f(r).attempts < MaxAttempts
    BY <2>2 DEF QueueSound, Inv, TypeOK, Rows
  <2>4. \A r, s \in queue' : r.id = s.id => r = s
    <3> SUFFICES ASSUME NEW r \in queue', NEW s \in queue', r.id = s.id PROVE r = s
      OBVIOUS
    <3>1. PICK q \in queue, t \in queue : r = f(q) /\ s = f(t)
      BY <2>1
    <3>2. q.id = t.id
      BY <2>3, <3>1
    <3>3. q = t
      BY <3>2 DEF QueueSound
    <3> QED BY <3>1, <3>3
  <2>5. \A r \in queue' : /\ r.id < nextId'
                          /\ r.client \in Clients => Exists(r.client)'
                          /\ r.attempts < MaxAttempts
    BY <1>1, <2>1, <2>3 DEF QueueSound, Exists
  <2> QED BY <2>4, <2>5 DEF QueueSound
<1> QED BY <1>2, <1>3

LEMMA NextQueue == Inv /\ QueueSound /\ [Next]_vars => QueueSound'
<1> SUFFICES ASSUME Inv, QueueSound, [Next]_vars PROVE QueueSound'
  OBVIOUS
<1>1. CASE UNCHANGED <<db, queue, nextId>>
  BY <1>1, QueueUnchanged DEF Exists
<1>2. ASSUME NEW j \in Jobs, NEW c \in Clients, Request(j, c)
      PROVE  UNCHANGED <<db, queue, nextId>>
  BY <1>2 DEF Request, CreateRequest, EnableRequest, DisableRequest, DeleteRequest,
     UpdateRequest, Arrive, Table
<1>3. ASSUME NEW j \in Jobs, Timers(j) \/ Sync(j) \/ EnforcerDone(j) \/ DrainNext(j)
      PROVE  UNCHANGED <<db, queue, nextId>>
  BY <1>3 DEF Timers, StartEnforcer, StartCron, StartReconciler, StartDrain, Sync,
     ReadClients, OpenConf, WriteConf, WgQuickUp, SyncConf, SyncFails, EnforcerDone,
     DrainNext, Table
<1>4. ASSUME NEW j \in Jobs, Outcome(j) PROVE QueueSound'
  <2>1. CASE Return(j) \/ Swallow(j) \/ EnforcerNext(j) \/ BootDone(j)
    BY <1>1, <2>1 DEF Return, Swallow, EnforcerNext, BootDone, Table
  <2>2. CASE DrainAck(j)
    BY <2>2, QueueShrinks DEF DrainAck, Exists, QueueSound
  <2> QED BY <1>4, <2>1, <2>2, EnqueueQueue, DrainNackQueue DEF Outcome
<1>5. ASSUME \/ Crash
             \/ \E j \in Jobs : Boot(j)
             \/ \E c \in Clients : Expire(c)
      PROVE  UNCHANGED <<db, queue, nextId>>
  BY <1>5 DEF Crash, Boot, Expire, Table
<1>6. CASE UNCHANGED vars
  BY <1>1, <1>6 DEF vars
<1>7. ASSUME NEW j \in Jobs, Continue(j) PROVE QueueSound'
  BY <1>1, <1>3, <1>4, <1>7, WriteRowQueue, ToggleOffQueue DEF Continue
<1> QED BY <1>1, <1>2, <1>3, <1>5, <1>6, <1>7 DEF Next

\* However requests, deletions and overlapping drains interleave, the queue
\* never holds two rows of one id, a row of a client that is gone, or a row
\* that used up its attempts.
THEOREM QueueCorrect == Spec => []QueueSound
<1>1. Init => QueueSound
  BY DEF Init, QueueSound
<1> QED BY <1>1, InitInv, NextInv, NextQueue, PTL DEF Spec

-----------------------------------------------------------------------------
(* Refinement, where the server runs one call chain at a time.             *)

\* The chain's snapshot is the table and what it wrote is its snapshot.
SerialSound ==
    \A j \in Jobs :
        /\ job[j].at \in {"open", "file", "up", "sync"} => job[j].snap = Enabled
        /\ job[j].at = "file" => conf = {}
        /\ job[j].at \in {"up", "sync"} => conf = Enabled

LEMMA SerialNext ==
    ASSUME NEW one, Jobs = {one}, Inv, SerialSound, [Next]_vars
    PROVE  SerialSound'
<1> USE DEF SerialSound
<1>1. CASE UNCHANGED vars
  BY <1>1 DEF vars, Enabled
<1>2. ASSUME NEW j \in Jobs, job'[j].at \in {"idle", "write", "next", "read", "ack", "nack"}
      PROVE  SerialSound'
  BY <1>2
<1>3. ASSUME NEW j \in Jobs, NEW c \in Clients, Request(j, c) PROVE SerialSound'
  <2>1. PICK op \in RequestOps : Arrive(j, op, c)
    BY <1>3 DEF Request, CreateRequest, EnableRequest, DisableRequest, DeleteRequest,
       UpdateRequest, RequestOps
  <2>2. job'[j].at = "write"
    BY <2>1 DEF Arrive, Start, Idle, Inv, TypeOK
  <2> QED BY <1>2, <2>2
<1>4. ASSUME NEW j \in Jobs, Timers(j) \/ Boot(j) PROVE SerialSound'
  <2>1. CASE StartDrain(j)
    <3>1. PICK due \in SUBSET queue \ {{}} :
             Start(j, [Idle EXCEPT !.at = "next", !.op = "drain", !.due = due])
      BY <2>1 DEF StartDrain
    <3>2. job'[j].at = "next"
      BY <3>1 DEF Start, Idle, Inv, TypeOK
    <3> QED BY <1>2, <3>2
  <2>2. CASE StartEnforcer(j) \/ StartCron(j)
    <3>1. job'[j].at = "next"
      BY <2>2 DEF StartEnforcer, StartCron, Start, Idle, Inv, TypeOK
    <3> QED BY <1>2, <3>1
  <2>3. CASE StartReconciler(j)
    BY <2>3 DEF StartReconciler, Start, Idle, Inv, TypeOK
  <2>4. CASE Boot(j)
    BY <2>4 DEF Boot, Start, Idle, Inv, TypeOK
  <2> QED BY <1>4, <2>1, <2>2, <2>3, <2>4 DEF Timers
<1>5. ASSUME NEW j \in Jobs, WriteRow(j) \/ ToggleOff(j) \/ EnforcerDone(j) \/ DrainNext(j)
      PROVE  SerialSound'
  <2>1. CASE WriteRow(j)
    BY <1>2, <2>1 DEF WriteRow, Goto, Inv, TypeOK, Job
  <2>2. CASE ToggleOff(j)
    <3>1. job'[j].at \in {"next", "read"}
      BY <2>2 DEF ToggleOff, Inv, TypeOK, Job
    <3> QED BY <1>2, <3>1
  <2>3. CASE EnforcerDone(j) \/ DrainNext(j)
    <3>1. job'[j].at \in {"idle", "read"}
      BY <2>3, IdleJob DEF EnforcerDone, DrainNext, Goto, Finish, Inv, TypeOK, Job
    <3> QED BY <1>2, <3>1
  <2> QED BY <1>5, <2>1, <2>2, <2>3
<1>6. ASSUME NEW j \in Jobs, Sync(j) PROVE SerialSound'
  <2>1. CASE ReadClients(j)
    BY <2>1 DEF ReadClients, ConfigPeers, Table, Enabled, Inv, TypeOK, Job
  <2>2. CASE OpenConf(j)
    BY <2>2 DEF OpenConf, Goto, Table, Enabled, Inv, TypeOK, Job
  <2>3. CASE WriteConf(j)
    <3>1. conf' = Enabled /\ job[j].snap = Enabled
      BY <2>3 DEF WriteConf
    <3>2. Enabled' = Enabled
      BY <2>3 DEF WriteConf, Table, Enabled
    <3> QED BY <2>3, <3>1, <3>2 DEF WriteConf, Goto, Inv, TypeOK, Job
  <2>4. CASE WgQuickUp(j)
    BY <2>4 DEF WgQuickUp, Goto, Table, Enabled, Inv, TypeOK, Job
  <2>5. CASE SyncConf(j) \/ SyncFails(j)
    BY <1>2, <2>5 DEF SyncConf, SyncFails, Goto, Inv, TypeOK, Job
  <2> QED BY <1>6, <2>1, <2>2, <2>3, <2>4, <2>5 DEF Sync
<1>7. ASSUME NEW j \in Jobs, Outcome(j) PROVE SerialSound'
  <2>1. job'[j].at \in {"idle", "next"}
    BY <1>7 DEF Outcome, Return, Enqueue, Swallow, EnforcerNext, DrainAck, DrainNack,
       BootDone, NextRow, Goto, Finish, Idle, Inv, TypeOK, Job
  <2> QED BY <1>2, <2>1
<1>8. CASE Crash
  BY <1>8, IdleJob DEF Crash
<1>9. ASSUME NEW c \in Clients, Expire(c) PROVE SerialSound'
  <2>1. UNCHANGED <<db, conf, job>>
    BY <1>9 DEF Expire, Engine
  <2> QED BY <2>1 DEF Enabled
<1> QED BY <1>1, <1>3, <1>4, <1>5, <1>6, <1>7, <1>8, <1>9 DEF Next, Continue

\* Every step of a serial server edits the table, pushes it whole, or drops
\* the interface.
LEMMA SerialStep ==
    ASSUME NEW one, Jobs = {one}, Inv, SerialSound, [Next]_vars
    PROVE  [Mirrored!Next]_(Mirrored!vars)
<1> USE DEF Mirrored!Next, Mirrored!vars
<1>1. CASE UNCHANGED vars
  BY <1>1 DEF vars, Enabled
<1>2. Enabled' \in SUBSET Clients
  BY DEF Enabled
<1>3. CASE UNCHANGED live
  BY <1>2, <1>3 DEF Mirrored!Edit
<1>4. ASSUME NEW j \in Jobs, WgQuickUp(j) \/ SyncConf(j) PROVE Mirrored!Push
  BY <1>4 DEF Mirrored!Push, WgQuickUp, SyncConf, SyncedPeers, Table, Enabled, SerialSound
<1>5. CASE Crash
  BY <1>5 DEF Mirrored!Drop, Crash, Table, Enabled
<1>6. ASSUME NEW j \in Jobs, NEW c \in Clients, Request(j, c) PROVE UNCHANGED live
  BY <1>6 DEF Request, CreateRequest, EnableRequest, DisableRequest, DeleteRequest,
     UpdateRequest, Arrive, Engine
<1>7. ASSUME NEW j \in Jobs,
             \/ Timers(j) \/ Boot(j) \/ WriteRow(j) \/ ToggleOff(j) \/ EnforcerDone(j)
             \/ DrainNext(j)
      PROVE  UNCHANGED live
  BY <1>7 DEF Timers, StartEnforcer, StartCron, StartReconciler, StartDrain, Boot,
     WriteRow, ToggleOff, EnforcerDone, DrainNext, Engine
<1>8. ASSUME NEW j \in Jobs,
             ReadClients(j) \/ OpenConf(j) \/ WriteConf(j) \/ SyncFails(j) \/ Outcome(j)
      PROVE  UNCHANGED live
  BY <1>8 DEF ReadClients, OpenConf, WriteConf, SyncFails, Outcome, Return, Enqueue,
     Swallow, EnforcerNext, DrainAck, DrainNack, BootDone, Engine
<1>9. ASSUME NEW c \in Clients, Expire(c) PROVE UNCHANGED live
  BY <1>9 DEF Expire, Engine
<1> QED BY <1>1, <1>3, <1>4, <1>5, <1>6, <1>7, <1>8, <1>9 DEF Next, Continue, Sync

\* A server that never overlaps two call chains implements Mirror: each sync
\* is one atomic copy of the clients table, whatever fails or restarts between.
THEOREM SerialMirror ==
    ASSUME NEW one, Jobs = {one}
    PROVE  Spec => MirrorSpec
<1>1. Init => Mirrored!Init
  BY DEF Init, Mirrored!Init, Enabled
<1>2. Init => SerialSound
  BY IdleJob DEF Init, SerialSound
<1>3. Spec => [](Inv /\ SerialSound)
  <2>1. Inv /\ SerialSound /\ [Next]_vars => Inv' /\ SerialSound'
    BY NextInv, SerialNext
  <2> QED BY InitInv, <1>2, <2>1, PTL DEF Spec
<1>4. Inv /\ SerialSound /\ [Next]_vars => [Mirrored!Next]_(Mirrored!vars)
  BY SerialStep
<1> QED BY <1>1, <1>3, <1>4, PTL DEF Spec, MirrorSpec, Mirrored!Spec

-----------------------------------------------------------------------------
(* Repairs, where the server runs one call chain at a time.                *)

Settled == live = Enabled \/ queue # {} \/ lapse

\* Only a chain that has edited the table, and not yet heard of its sync, may
\* leave a difference nobody is owed: not the reconciler, the queue or the
\* enforcer between two clients.  A sync that was acknowledged has closed it,
\* and the rows a drain works on are still in the queue.
DebtKnown ==
    \A j \in Jobs :
        /\ job[j].op = "boot" <=> phase = "booting"
        /\ phase = "down" => job[j] = Idle
        /\ job[j].at = "ack" => live = Enabled
        /\ job[j].op = "drain" => job[j].due \subseteq queue
        /\ \/ job[j].op \in {"reconcile", "drain"}
           \/ job[j].op = "enforce" /\ job[j].at = "next"
           => phase = "down" \/ Settled

LEMMA IdleRecord ==
    /\ Idle.at = "idle" /\ Idle.op = "reconcile" /\ Idle.due = {}
    /\ \A q \in Job : q.op \in Ops
BY DEF Idle, Job

\* The state of the one job decides.
LEMMA OneDebt ==
    ASSUME NEW one, Jobs = {one}, TypeOK,
           job'[one].op = "boot" <=> phase' = "booting",
           phase' = "down" => job'[one] = Idle,
           job'[one].at = "ack" => live' = Enabled',
           job'[one].op = "drain" => job'[one].due \subseteq queue',
           \/ job'[one].op \in {"reconcile", "drain"}
           \/ job'[one].op = "enforce" /\ job'[one].at = "next"
           => phase' = "down" \/ Settled'
    PROVE  DebtKnown'
BY DEF DebtKnown

LEMMA DebtStarts ==
    ASSUME NEW one, Jobs = {one}, Inv, DebtKnown,
           \/ \E c \in Clients : Request(one, c)
           \/ Timers(one)
           \/ Boot(one)
    PROVE  DebtKnown'
<1> USE DEF Inv, Start, Table, Engine, Counters
<1>1. ASSUME NEW c \in Clients, Request(one, c) PROVE DebtKnown'
  <2>1. PICK op \in RequestOps : Arrive(one, op, c)
    BY <1>1 DEF Request, CreateRequest, EnableRequest, DisableRequest, DeleteRequest,
       UpdateRequest, RequestOps
  <2>2. phase # "down" /\ phase' = phase /\ job[one] = Idle
    BY <2>1 DEF Arrive
  <2>3. job'[one].op = op /\ job'[one].at = "write"
    BY <2>1 DEF Arrive, TypeOK, Idle
  <2> QED BY <2>2, <2>3, OneDebt, IdleRecord DEF DebtKnown, RequestOps
<1>2. CASE StartReconciler(one)
  BY <1>2, OneDebt DEF StartReconciler, Scheduled, DebtKnown, Settled, Enabled, TypeOK, Idle
<1>3. CASE StartEnforcer(one) \/ StartCron(one)
  <2>1. PICK op \in {"enforce", "cron"} :
           Start(one, [Idle EXCEPT !.at = "next", !.op = op, !.todo = Expiring])
    BY <1>3 DEF StartEnforcer, StartCron
  <2>2. job[one] = Idle /\ job'[one].op = op /\ job'[one].at = "next"
    BY <2>1 DEF TypeOK, Idle
  <2>3. phase # "down" /\ phase # "booting" /\ UNCHANGED <<phase, db, live, queue, lapse>>
    BY <1>3 DEF StartEnforcer, StartCron, Scheduled
  <2>4. Settled /\ Settled'
    BY <2>2, <2>3, IdleRecord DEF DebtKnown, Settled, Enabled
  <2> QED BY <2>2, <2>3, <2>4, OneDebt
<1>4. CASE StartDrain(one)
  <2>1. PICK due \in SUBSET queue \ {{}} :
           Start(one, [Idle EXCEPT !.at = "next", !.op = "drain", !.due = due])
    BY <1>4 DEF StartDrain
  <2>2. /\ job[one] = Idle
        /\ job'[one].op = "drain" /\ job'[one].at = "next" /\ job'[one].due = due
    BY <2>1 DEF TypeOK, Idle
  <2>3. phase # "down" /\ phase # "booting" /\ UNCHANGED <<phase, db, live, queue, lapse>>
    BY <1>4 DEF StartDrain, Scheduled
  <2>4. Settled'
    BY <2>2, <2>3, IdleRecord DEF DebtKnown, Settled, Enabled
  <2> QED BY <2>1, <2>2, <2>3, <2>4, OneDebt
<1>5. CASE Boot(one)
  <2>1. job'[one].op = "boot" /\ job'[one].at = "read" /\ phase' = "booting"
    BY <1>5 DEF Boot, TypeOK, Idle
  <2> QED BY <2>1, OneDebt
<1> QED BY <1>1, <1>2, <1>3, <1>4, <1>5 DEF Timers

\* Steps up to the outcome of a sync.  A chain that has not acknowledged keeps
\* its promise only if the table and the interface stay as they are.
LEMMA DebtWorks ==
    ASSUME NEW one, Jobs = {one}, Inv, SerialSound, DebtKnown,
           \/ WriteRow(one) \/ ToggleOff(one) \/ EnforcerDone(one) \/ DrainNext(one)
           \/ Sync(one)
    PROVE  DebtKnown'
<1> USE DEF Inv, Table, Engine, Counters
<1>0. job[one] \in Job /\ job \in [Jobs -> Job]
  BY DEF TypeOK
<1>1. CASE WriteRow(one)
  <2>1. /\ job[one].at = "write" /\ job[one].op \in RequestOps
        /\ job'[one].op \in RequestOps /\ job'[one].at \in {"write", "read"}
    BY <1>0, <1>1 DEF WriteRow, Goto, RequestOps, Job
  <2>2. UNCHANGED phase /\ phase # "down" /\ phase # "booting"
    BY <1>1, <2>1, IdleRecord DEF WriteRow, DebtKnown, RequestOps, TypeOK
  <2> QED BY <2>1, <2>2, OneDebt DEF RequestOps
<1>2. CASE ToggleOff(one)
  <2>1. /\ job[one].at = "next" /\ job[one].op \in {"enforce", "cron"}
        /\ job'[one].op = job[one].op /\ job'[one].at \in {"read", "next"}
        /\ job[one].op = "enforce" => job'[one].at = "read"
    <3>1. PICK c \in job[one].todo :
             job' = [job EXCEPT ![one].todo = @ \ {c}, ![one].client = c,
                                ![one].at = IF job[one].op = "enforce" \/ job[one].todo = {c}
                                            THEN "read" ELSE "next"]
      BY <1>2 DEF ToggleOff
    <3>2. job[one].at = "next" /\ job[one].op \in {"enforce", "cron"}
      BY <1>2 DEF ToggleOff
    <3> QED BY <1>0, <3>1, <3>2 DEF Job
  <2>2. UNCHANGED phase /\ phase # "down" /\ phase # "booting"
    BY <1>2, <2>1, IdleRecord DEF ToggleOff, DebtKnown, TypeOK
  <2> QED BY <2>1, <2>2, OneDebt
<1>3. CASE EnforcerDone(one)
  <2>1. job'[one] = Idle /\ UNCHANGED <<phase, db, live, queue, lapse>>
    BY <1>0, <1>3 DEF EnforcerDone, Finish
  <2>2. phase # "down" /\ phase # "booting" /\ Settled
    BY <1>3, IdleRecord DEF EnforcerDone, DebtKnown
  <2> QED BY <2>1, <2>2, OneDebt, IdleRecord DEF Settled, Enabled
<1>4. CASE DrainNext(one)
  <2>1. /\ job'[one] = Idle \/ /\ job'[one].op = "drain" /\ job'[one].at = "read"
                               /\ job'[one].due = job[one].due
        /\ UNCHANGED <<phase, db, live, queue, lapse>>
    BY <1>0, <1>4 DEF DrainNext, Finish, Goto, Job
  <2>2. phase # "down" /\ phase # "booting" /\ Settled /\ job[one].due \subseteq queue
    BY <1>4, IdleRecord DEF DrainNext, DebtKnown
  <2> QED BY <2>1, <2>2, OneDebt, IdleRecord DEF Settled, Enabled
<1>5. CASE ReadClients(one) \/ OpenConf(one) \/ WriteConf(one) \/ SyncFails(one)
  <2>1. /\ job[one].at \in {"read", "open", "file", "up", "sync"}
        /\ job'[one].op = job[one].op /\ job'[one].due = job[one].due
        /\ job'[one].at \in {"open", "file", "up", "sync", "nack"}
        /\ UNCHANGED <<phase, db, live, queue, lapse>>
    BY <1>0, <1>5 DEF ReadClients, OpenConf, WriteConf, SyncFails, Goto, Job
  <2>2. phase # "down"
    BY <2>1, IdleRecord DEF DebtKnown
  <2> QED BY <2>1, <2>2, OneDebt DEF DebtKnown, Settled, Enabled
<1>6. CASE WgQuickUp(one) \/ SyncConf(one)
  <2>1. /\ job[one].at \in {"up", "sync"}
        /\ job'[one].op = job[one].op /\ job'[one].due = job[one].due
        /\ job'[one].at \in {"sync", "ack", "nack"}
        /\ UNCHANGED <<phase, db, conf, queue>> /\ live' = conf
    BY <1>0, <1>6 DEF WgQuickUp, SyncConf, SyncedPeers, Goto, Job
  <2>2. phase # "down" /\ live' = Enabled'
    BY <2>1, IdleRecord DEF DebtKnown, SerialSound, Enabled
  <2> QED BY <2>1, <2>2, OneDebt DEF DebtKnown, Settled
<1> QED BY <1>1, <1>2, <1>3, <1>4, <1>5, <1>6 DEF Sync

\* The row a drain goes on to is still in the queue, for ids are unique.
LEMMA DueStays ==
    ASSUME Inv, QueueSound, NEW j \in Jobs, DrainAck(j) \/ DrainNack(j), job[j].due # {},
           job[j].due \subseteq queue
    PROVE  job[j].due \ {Current(j)} \subseteq queue'
<1>1. Current(j) \in queue
  BY CurrentDue DEF Inv
<1>2. \A r \in job[j].due \ {Current(j)} : r \in queue /\ r.id # Current(j).id
  BY <1>1 DEF QueueSound
<1>3. CASE DrainAck(j)
  BY <1>2, <1>3 DEF DrainAck
<1>4. CASE DrainNack(j)
  BY <1>2, <1>4 DEF DrainNack
<1> QED BY <1>3, <1>4

LEMMA DebtEnds ==
    ASSUME NEW one, Jobs = {one}, Inv, QueueSound, DebtKnown, Outcome(one)
    PROVE  DebtKnown'
<1> USE DEF Inv, Table, Engine, Counters
<1>0. job[one] \in Job /\ job \in [Jobs -> Job]
  BY DEF TypeOK
<1>1. job[one].at \in {"ack", "nack"} /\ phase # "down" /\ UNCHANGED <<db, live>>
  BY IdleRecord DEF Outcome, Return, Enqueue, Swallow, EnforcerNext, DrainAck, DrainNack,
     BootDone, DebtKnown
<1>2. ASSUME job'[one] = Idle, UNCHANGED phase, phase # "booting", Settled'
      PROVE  DebtKnown'
  BY <1>2, OneDebt, IdleRecord
<1>3. CASE Return(one)
  <2>1. job'[one] = Idle /\ UNCHANGED <<phase, queue, lapse>> /\ live = Enabled
    BY <1>0, <1>3 DEF Return, Finish, DebtKnown
  <2>2. phase # "booting"
    BY <1>3 DEF Return, DebtKnown, RequestOps
  <2> QED BY <1>1, <1>2, <2>1, <2>2 DEF Settled, Enabled
<1>4. CASE Enqueue(one)
  <2>1. job'[one] = Idle /\ UNCHANGED phase /\ phase # "booting"
    BY <1>0, <1>4 DEF Enqueue, Finish, DebtKnown, RequestOps
  <2>2. queue' # {} \/ lapse'
    BY <1>4 DEF Enqueue, StoreRow
  <2> QED BY <1>2, <2>1, <2>2 DEF Settled
<1>5. CASE Swallow(one)
  <2>1. UNCHANGED <<phase, queue>> /\ phase # "booting"
    BY <1>5 DEF Swallow, DebtKnown
  <2>2. job[one].op = "reconcile" => Settled
    BY <1>1 DEF DebtKnown
  <2>3. Settled'
    BY <1>1, <1>5, <2>1, <2>2 DEF Swallow, Settled, Enabled
  <2>4. CASE job[one].op = "enforce"
    <3>1. job'[one].op = "enforce" /\ job'[one].at = "next"
      BY <1>0, <1>5, <2>4 DEF Swallow, Goto, Job
    <3> QED BY <1>1, <2>1, <2>3, <3>1, OneDebt
  <2>5. CASE job[one].op # "enforce"
    BY <1>0, <1>2, <1>5, <2>1, <2>3, <2>5 DEF Swallow, Finish
  <2> QED BY <2>4, <2>5
<1>6. CASE EnforcerNext(one)
  <2>1. job'[one].op = "enforce" /\ job'[one].at = "next" /\ UNCHANGED <<phase, queue, lapse>>
    BY <1>0, <1>6 DEF EnforcerNext, Goto, Job
  <2>2. live = Enabled /\ phase # "booting"
    BY <1>6 DEF EnforcerNext, DebtKnown
  <2> QED BY <1>1, <2>1, <2>2, OneDebt DEF Settled, Enabled
<1>7. CASE DrainAck(one) \/ DrainNack(one)
  <2>1. /\ job[one].op = "drain" /\ job[one].due # {} /\ job[one].due \subseteq queue
        /\ phase # "booting" /\ UNCHANGED phase
    BY <1>7 DEF DrainAck, DrainNack, JobSound, DebtKnown
  <2>2. /\ job'[one].op = "drain" /\ job'[one].at = "next"
        /\ job'[one].due = job[one].due \ {Current(one)}
    BY <1>0, <1>7 DEF DrainAck, DrainNack, NextRow, Job
  <2>3. job'[one].due \subseteq queue'
    BY <1>7, <2>1, <2>2, DueStays
  <2>4. Settled'
    <3>1. CASE DrainAck(one)
      BY <1>1, <3>1 DEF DrainAck, DebtKnown, Settled, Enabled
    <3>2. CASE DrainNack(one)
      <4>1. queue # {}
        BY <2>1
      <4> QED BY <3>2, <4>1 DEF DrainNack, Settled
    <3> QED BY <1>7, <3>1, <3>2
  <2> QED BY <1>1, <2>1, <2>2, <2>3, <2>4, OneDebt
<1>8. CASE BootDone(one)
  <2>1. job'[one] = Idle /\ phase' \in {"running", "degraded"} /\ UNCHANGED queue
    BY <1>0, <1>8 DEF BootDone, Finish
  <2>2. Settled'
    BY <1>1, <1>8 DEF BootDone, DebtKnown, Settled, Enabled
  <2> QED BY <2>1, <2>2, OneDebt, IdleRecord
<1> QED BY <1>3, <1>4, <1>5, <1>6, <1>7, <1>8 DEF Outcome

LEMMA DebtNext ==
    ASSUME NEW one, Jobs = {one}, Inv, QueueSound, SerialSound, DebtKnown, [Next]_vars
    PROVE  DebtKnown'
<1>1. CASE UNCHANGED vars
  BY <1>1 DEF vars, DebtKnown, Settled, Enabled
<1>2. CASE Crash
  <2>1. job'[one] = Idle /\ phase' = "down"
    BY <1>2 DEF Crash
  <2> QED BY <2>1, OneDebt, IdleRecord DEF Inv
<1>3. ASSUME NEW c \in Clients, Expire(c) PROVE DebtKnown'
  BY <1>3 DEF Expire, Engine, DebtKnown, Settled, Enabled
<1> QED BY <1>1, <1>2, <1>3, DebtStarts, DebtWorks, DebtEnds DEF Next, Continue

\* A server that never overlaps two call chains loses no repair: when it is at
\* rest and the interface differs from the table, a row of the queue is there to
\* mend it, or a failure was swallowed (syncOrEnqueue, runMutationQueue).
THEOREM RepairIsOwed ==
    ASSUME NEW one, Jobs = {one}
    PROVE  Spec => []RepairOwed
<1>1. Init => SerialSound
  BY IdleJob DEF Init, SerialSound
<1>2. Init => DebtKnown
  BY IdleRecord, IdleJob DEF Init, DebtKnown, Settled
<1>3. Init => QueueSound
  BY DEF Init, QueueSound
<1>4. Inv /\ QueueSound /\ SerialSound /\ DebtKnown /\ [Next]_vars
        => Inv' /\ QueueSound' /\ SerialSound' /\ DebtKnown'
  BY NextInv, NextQueue, SerialNext, DebtNext
<1>5. DebtKnown => RepairOwed
  <2> SUFFICES ASSUME DebtKnown, Quiet, phase \in {"running", "degraded"}, live # Enabled
               PROVE  queue # {} \/ lapse
    BY DEF RepairOwed
  <2>1. job[one].op = "reconcile"
    BY IdleRecord DEF Quiet
  <2> QED BY <2>1 DEF DebtKnown, Settled
<1> QED BY InitInv, <1>1, <1>2, <1>3, <1>4, <1>5, PTL DEF Spec
=============================================================================
