---------------------------- MODULE MikrotikSync ----------------------------
(* The MikroTik engine: a sync prints the peers of the router, computes the  *)
(* commands that turn them into the clients of the database, and sends them  *)
(* one by one.  A command may fail before or after the router executed it;   *)
(* the sync then stops half way and a later one starts from a new print.     *)
(* The reconciler records each result on the router's row and announces when *)
(* a router is lost and when it is back.                                     *)
(*                                                                           *)
(* A client is the pair of its id and its name, which together are the       *)
(* comment that marks its peer.  `off' stands for all fields the diff        *)
(* compares (public key, addresses, preshared key, disabled).                *)
EXTENDS Integers, FiniteSets

CONSTANTS
  Clients,     \* ids of clients
  Names,       \* names a client may have
  Jobs,        \* call chains that may overlap
  Threshold,   \* failures in a row until a router is called unreachable
  MaxEdits,    \* bound on changes of the database
  MaxFails     \* bound on commands that fail and peers removed by others

VARIABLES
  table,       \* clients_table: the row of each client
  rows,        \* router: the peers of the interface
  nextId,      \* router: the next .id
  job,         \* the state of each call chain
  failures,    \* router.consecutiveFailures in the database
  announced,   \* audit log: the last of engine.unreachable / engine.recovered
  edits, fails

Health == <<failures, announced>>
Bounds == <<edits, fails>>
vars   == <<table, rows, nextId, job, Health, Bounds>>

None == "none"   \* no name, no client, no comment

ASSUME NoneAssumption == None \notin Clients /\ None \notin Names

ASSUME BoundsAssumption ==
  /\ Threshold \in Nat \ {0} /\ MaxEdits \in Nat /\ MaxFails \in Nat

\* A row of the table; a client without a name does not exist.
Row  == [name : Names \union {None}, off : BOOLEAN]
Gone == [name |-> None, off |-> TRUE]
Here(t) == {c \in Clients : t[c].name # None}

\* A peer on the router.  The comment is <id>:<name>; other peers of the
\* interface have none.
Peer == [id : Nat, who : Clients \union {None}, name : Names \union {None},
         off : BOOLEAN]

\* A command; an "add" has no id yet.
Command == [do : {"add", "set", "remove"}, id : Nat, who : Clients \union {None},
            name : Names \union {None}, off : BOOLEAN]

Kinds == {"reconcile", "request", "disable"}
Ats   == {"idle", "print", "send", "find", "off", "read", "write"}
Job   == [at : Ats, kind : Kinds, want : [Clients -> Row], todo : SUBSET Command,
          client : SUBSET Clients, id : Nat, ok : BOOLEAN, prev : Nat]
Idle  == [at |-> "idle", kind |-> "request", want |-> [c \in Clients |-> Gone],
          todo |-> {}, client |-> {}, id |-> 0, ok |-> FALSE, prev |-> 0]

Foreign == [id |-> 0, who |-> None, name |-> None, off |-> FALSE]

Init ==
  /\ table = [c \in Clients |-> Gone] /\ rows = {Foreign} /\ nextId = 1
  /\ job = [j \in Jobs |-> Idle] /\ failures = 0 /\ announced = "recovered"
  /\ edits = 0 /\ fails = 0

Goto(j, r) == job' = [job EXCEPT ![j] = r]

\* How a sync goes on when it is over: the reconciler records the result.
Over(j, good) ==
  IF job[j].kind = "reconcile" THEN [Idle EXCEPT !.at = "read", !.kind = "reconcile",
                                                 !.ok = good]
                               ELSE Idle

(***************************************************************************)
(* The database.                                                           *)
(***************************************************************************)

\* A client is created, renamed, switched on or off, or deleted.
Edit(c) ==
  /\ edits < MaxEdits /\ edits' = edits + 1
  /\ \E r \in Row : r # table[c] /\ (r.name = None => r = Gone)
                    /\ table' = [table EXCEPT ![c] = r]
  /\ UNCHANGED <<rows, nextId, job, Health, fails>>

(***************************************************************************)
(* syncInterface.                                                          *)
(***************************************************************************)

\* Database.clients.getAll in the reconciler or in a handler.
Begin(j, kind) ==
  /\ job[j].at = "idle" /\ kind \in {"reconcile", "request"}
  /\ Goto(j, [Idle EXCEPT !.at = "print", !.kind = kind, !.want = table])
  /\ UNCHANGED <<table, rows, nextId, Health, Bounds>>

\* A peer with a comment.
Marked(p) == p.name # None

\* existingByComment: of several peers with one comment the last one counts.
Existing(R) == {p \in R : Marked(p) /\ ~\E q \in R : q.who = p.who /\ q.name = p.name
                                                      /\ q.id > p.id}

Comment(c, t) == [who |-> c, name |-> t[c].name]
Named(p)      == [who |-> p.who, name |-> p.name]
Desired(t)    == {Comment(c, t) : c \in Here(t)}

\* The clients without a peer.
Missing(t, R) == {c \in Here(t) : \A p \in Existing(R) : Named(p) # Comment(c, t)}

Adds(t, R) ==
  {[do |-> "add", id |-> 0, who |-> c, name |-> t[c].name, off |-> t[c].off] :
     c \in Missing(t, R)}

\* Mutant: an existing peer is left as it is.
NoSets(t, R) == {}
Sets(t, R) ==
  {[do |-> "set", id |-> p.id, who |-> p.who, name |-> p.name, off |-> t[p.who].off] :
     p \in {q \in Existing(R) : Named(q) \in Desired(t) /\ q.off # t[q.who].off}}

Removes(t, R) ==
  {[do |-> "remove", id |-> p.id, who |-> None, name |-> None, off |-> FALSE] :
     p \in {q \in Existing(R) : Named(q) \notin Desired(t)}}

diffPeers(t, R) == Adds(t, R) \union Sets(t, R) \union Removes(t, R)

ListPeers(j) ==
  /\ job[j].at = "print"
  /\ Goto(j, [job[j] EXCEPT !.at = "send", !.todo = diffPeers(job[j].want, rows)])
  /\ UNCHANGED <<table, rows, nextId, Health, Bounds>>

\* Additions and changes come before the removals.  Mutant: any order.
AnyOrder(S) == S
Ready(S) == LET first == {o \in S : o.do # "remove"} IN
            IF first = {} THEN S ELSE first

\* What the router makes of a command.
Executed(o) ==
  CASE o.do = "add"    -> rows \union {[id |-> nextId, who |-> o.who, name |-> o.name,
                                        off |-> o.off]}
    [] o.do = "set"    -> {p \in rows : p.id # o.id}
                            \union {[id |-> o.id, who |-> o.who, name |-> o.name,
                                     off |-> o.off]}
    [] o.do = "remove" -> {p \in rows : p.id # o.id}

Known(o) == o.do = "add" \/ \E p \in rows : p.id = o.id

Effect(o) ==
  /\ rows' = Executed(o)
  /\ nextId' = IF o.do = "add" THEN nextId + 1 ELSE nextId

Send(j) ==
  /\ job[j].at = "send"
  /\ \E o \in Ready(job[j].todo) :
       /\ Known(o) /\ Effect(o)
       /\ Goto(j, [job[j] EXCEPT !.todo = @ \ {o}])
  /\ UNCHANGED <<table, Health, Bounds>>

Sent(j) ==
  /\ job[j].at = "send" /\ job[j].todo = {}
  /\ Goto(j, Over(j, TRUE))
  /\ UNCHANGED <<table, rows, nextId, Health, Bounds>>

\* Outside wg-easy: an operator removes a switched-off peer on the router.
Tidy ==
  /\ fails < MaxFails /\ fails' = fails + 1
  /\ \E p \in rows : p.who # None /\ p.off /\ rows' = rows \ {p}
  /\ UNCHANGED <<table, nextId, job, Health, edits>>

\* The peer of the command is not there any more: the router refuses it.
Refused(j) ==
  /\ job[j].at = "send"
  /\ \E o \in Ready(job[j].todo) : ~Known(o)
  /\ Goto(j, Over(j, FALSE))
  /\ UNCHANGED <<table, rows, nextId, Health, Bounds>>

\* The connection fails, before the command or with its answer.
Breaks(j) ==
  /\ job[j].at \in {"print", "send", "find", "off"}
  /\ fails < MaxFails /\ fails' = fails + 1
  /\ Goto(j, Over(j, FALSE))
  /\ \/ UNCHANGED <<rows, nextId>>
     \/ job[j].at = "send" /\ \E o \in Ready(job[j].todo) :
                                Known(o) /\ Effect(o)
  /\ UNCHANGED <<table, Health, edits>>

(***************************************************************************)
(* disablePeer, for the enforcer and the quota evaluator.                  *)
(***************************************************************************)

\* The row is switched off first.
BeginDisable(j, c) ==
  /\ job[j].at = "idle" /\ c \in Here(table) /\ ~table[c].off
  /\ edits < MaxEdits /\ edits' = edits + 1
  /\ table' = [table EXCEPT ![c].off = TRUE]
  /\ Goto(j, [Idle EXCEPT !.at = "find", !.kind = "disable", !.client = {c}])
  /\ UNCHANGED <<rows, nextId, Health, fails>>

\* The first peer with the client's public key; none is an error.
FindPeerId(j) ==
  LET R == {p \in rows : p.who \in job[j].client} IN
  /\ job[j].at = "find"
  /\ \/ R = {} /\ Goto(j, Idle)
     \/ \E p \in R : (\A q \in R : p.id <= q.id)
                     /\ Goto(j, [job[j] EXCEPT !.at = "off", !.id = p.id])
  /\ UNCHANGED <<table, rows, nextId, Health, Bounds>>

SetDisabled(j) ==
  /\ job[j].at = "off"
  /\ rows' = {IF p.id = job[j].id THEN [p EXCEPT !.off = TRUE] ELSE p : p \in rows}
  /\ Goto(j, Idle)
  /\ UNCHANGED <<table, nextId, Health, Bounds>>

(***************************************************************************)
(* recordHealth, and the announcement the reconciler makes of it.          *)
(***************************************************************************)

ReadHealth(j) ==
  /\ job[j].at = "read"
  /\ Goto(j, [job[j] EXCEPT !.at = "write", !.prev = failures])
  /\ UNCHANGED <<table, rows, nextId, Health, Bounds>>

Crossed(n) == n = Threshold

\* The counter stops one above the threshold here; in the code it goes on.
WriteHealth(j) ==
  LET next == job[j].prev + 1 IN
  /\ job[j].at = "write"
  /\ Goto(j, Idle)
  /\ \/ /\ job[j].ok /\ failures' = 0
        /\ announced' = IF job[j].prev >= Threshold THEN "recovered" ELSE announced
     \/ /\ ~job[j].ok
        /\ failures' = IF next > Threshold THEN Threshold + 1 ELSE next
        /\ announced' = IF Crossed(next) THEN "unreachable" ELSE announced
  /\ UNCHANGED <<table, rows, nextId, Bounds>>

Continue(j) ==
  \/ ListPeers(j) \/ Send(j) \/ Sent(j) \/ Refused(j) \/ FindPeerId(j) \/ SetDisabled(j)
  \/ ReadHealth(j) \/ WriteHealth(j)

Next ==
  \/ Tidy
  \/ \E c \in Clients : Edit(c) \/ \E j \in Jobs : BeginDisable(j, c)
  \/ \E j \in Jobs : Breaks(j) \/ Continue(j) \/ \E kind \in Kinds : Begin(j, kind)

Spec == Init /\ [][Next]_vars

\* The reconciler's timer fires, and a sync whose commands are answered ends.
Fairness == \A j \in Jobs : WF_vars(Begin(j, "reconcile")) /\ WF_vars(Continue(j))

FairSpec == Spec /\ Fairness

-----------------------------------------------------------------------------
(* Properties.                                                             *)

\* Shapes; the router's ids are unique, and a peer has a comment exactly when it
\* is a client's.
TypeOK ==
  /\ table \in [Clients -> Row] /\ rows \subseteq Peer /\ nextId \in Nat
  /\ \A p, q \in rows : p.id = q.id => p = q
  /\ \A p \in rows : p.id < nextId /\ (p.who = None <=> p.name = None)
  /\ job \in [Jobs -> Job] /\ failures \in Nat
  /\ announced \in {"unreachable", "recovered"} /\ edits \in Nat /\ fails \in Nat

\* A peer without a comment is not ours: no sync changes or removes it
\* (configgen.ts diffPeers).
ForeignUntouched == [][{p \in rows : p.name = None} = {p \in rows' : p.name = None}]_vars

\* A client that stays on has a peer that is on: a sync never takes it away,
\* not even to give it a new comment after a rename, and not when it breaks off
\* between two commands.  Calls with an older copy of the row are excepted.
Serves(R, c) == \E p \in R : p.who = c /\ ~p.off
Agreed(c) ==
  /\ c \in Here(table) /\ ~table[c].off
  /\ \A j \in Jobs : /\ job[j].at \in {"print", "send"} => job[j].want[c] = table[c]
                     /\ c \notin job[j].client
NeverDropped ==
  [][\A c \in Clients : Agreed(c) /\ Serves(rows, c) => Serves(rows', c)]_vars

\* The router holds exactly the clients of the database, besides peers that are
\* not ours, once the commands stop failing (mikrotik/index.ts syncInterface
\* "full reconciliation", PRD-10-01).
Exact ==
  /\ {Named(p) : p \in {q \in rows : q.name # None}} = Desired(table)
  /\ \A p \in rows : p.name # None => p.off = table[p.who].off
Converges == <>[](\A j \in Jobs : job[j].at # "send" => Exact)

\* An outage is announced once, when the threshold is reached, and its end once.
Debounced ==
  (\A j \in Jobs : job[j].at # "write")
     => (announced = "unreachable" <=> failures >= Threshold)
=============================================================================
