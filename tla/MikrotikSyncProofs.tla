------------------------- MODULE MikrotikSyncProofs -------------------------
(***************************************************************************)
(* For any clients, names and bounds: what the router holds stays well     *)
(* formed and its foreign peers stay untouched, however many syncs         *)
(* overlap; and with one sync at a time no client that stays on is ever    *)
(* disconnected, and an outage is announced once.                          *)
(***************************************************************************)
EXTENDS MikrotikSync, TLAPS

Router ==
    /\ \A p, q \in rows : p.id = q.id => p = q
    /\ \A p \in rows : p.id < nextId /\ (p.who = None <=> p.name = None)

\* A pending command is about a peer of a client.  An id is never used again,
\* so the id of a command never becomes the id of a foreign peer.
Own(o) ==
    /\ o.do # "remove" => o.who # None /\ o.name # None
    /\ o.do # "add" => o.id < nextId /\ \A p \in rows : p.id = o.id => p.who # None
    /\ o.do = "set" => \A p \in rows : p.id = o.id => p.who = o.who

\* Peers keep their client as long as they have their id.
SameOwners == \A p \in rows' : \/ nextId <= p.id
                               \/ \E q \in rows : q.id = p.id /\ q.who = p.who

Pending == \A j \in Jobs : \A o \in job[j].todo : Own(o)

\* The peer that disablePeer found is the client's.
Found ==
    \A j \in Jobs : job[j].at = "off" =>
        job[j].id < nextId /\ \A p \in rows : p.id = job[j].id => p.who \in job[j].client

Inv == TypeOK /\ Pending /\ Found

-----------------------------------------------------------------------------
(* Facts about the parts of a step.                                        *)

LEMMA IdleJob ==
    /\ Idle \in Job /\ Idle.at = "idle" /\ Idle.todo = {} /\ Idle.client = {}
BY DEF Idle, Job, Gone, Row, Ats, Kinds

LEMMA BeginJob ==
    ASSUME NEW j \in Jobs, NEW kind, Begin(j, kind), job \in [Jobs -> Job]
    PROVE  job'[j].at = "print"
<1> DEFINE r == [Idle EXCEPT !.at = "print", !.kind = kind, !.want = table]
<1>1. r.at = "print"
  BY DEF Idle
<1>2. job'[j] = r
  BY DEF Begin, Goto
<1> QED BY <1>1, <1>2

LEMMA FindJob ==
    ASSUME NEW j \in Jobs, FindPeerId(j), job \in [Jobs -> Job]
    PROVE  job'[j].at \in {"idle", "off"}
<1>1. ASSUME NEW i PROVE [job[j] EXCEPT !.at = "off", !.id = i].at = "off"
  BY DEF Job
<1>2. ASSUME NEW r, Goto(j, r) PROVE job'[j] = r
  BY <1>2 DEF Goto
<1>3. Goto(j, Idle) \/ \E i : Goto(j, [job[j] EXCEPT !.at = "off", !.id = i])
  BY Zenon DEF FindPeerId
<1> QED BY <1>1, <1>2, <1>3, IdleJob

LEMMA OverJob ==
    ASSUME NEW j \in Jobs, NEW good \in BOOLEAN
    PROVE  /\ Over(j, good) \in Job /\ Over(j, good).todo = {}
           /\ Over(j, good).at \in {"idle", "read"} /\ Over(j, good).client = {}
<1>1. [Idle EXCEPT !.at = "read", !.kind = "reconcile", !.ok = good] \in Job
  BY IdleJob DEF Job, Ats, Kinds
<1>2. LET r == [Idle EXCEPT !.at = "read", !.kind = "reconcile", !.ok = good]
      IN r.todo = {} /\ r.at = "read" /\ r.client = {}
  BY DEF Idle
<1> QED BY <1>1, <1>2, IdleJob DEF Over

\* A command about a peer of a client leaves the router well formed and its
\* foreign peers alone.
LEMMA EffectKeeps ==
    ASSUME rows \subseteq Peer, nextId \in Nat, Router,
           NEW o \in Command, Own(o), Known(o), Effect(o)
    PROVE  /\ rows' \subseteq Peer /\ nextId' \in Nat /\ Router' /\ nextId <= nextId'
           /\ {p \in rows : p.name = None} = {p \in rows' : p.name = None}
           /\ SameOwners
<1>1. CASE o.do = "add"
  <2> DEFINE new == [id |-> nextId, who |-> o.who, name |-> o.name, off |-> o.off]
  <2>1. rows' = rows \union {new} /\ nextId' = nextId + 1
    BY <1>1 DEF Effect, Executed
  <2>2. new \in Peer /\ new.id = nextId /\ new.who # None /\ new.name # None
    BY <1>1 DEF Own, Command, Peer
  <2> HIDE DEF new
  <2> QED BY <2>1, <2>2 DEF Router, Peer, SameOwners
<1>2. CASE o.do = "set"
  <2> DEFINE new == [id |-> o.id, who |-> o.who, name |-> o.name, off |-> o.off]
  <2>1. rows' = {p \in rows : p.id # o.id} \union {new} /\ nextId' = nextId
    BY <1>2 DEF Effect, Executed
  <2>2. new \in Peer /\ new.id = o.id /\ new.who # None /\ new.name # None /\ o.id < nextId
    BY <1>2 DEF Own, Command, Peer
  <2>3. \A p \in rows : p.id = o.id => p.name # None /\ p.who = new.who
    BY <1>2 DEF Own, Router
  <2>4. \E p \in rows : p.id = o.id
    BY <1>2 DEF Known
  <2> HIDE DEF new
  <2> QED BY <2>1, <2>2, <2>3, <2>4 DEF Router, Peer, SameOwners
<1>3. CASE o.do = "remove"
  <2>1. rows' = {p \in rows : p.id # o.id} /\ nextId' = nextId
    BY <1>3 DEF Effect, Executed
  <2>2. \A p \in rows : p.id = o.id => p.name # None
    BY <1>3 DEF Own, Router
  <2> QED BY <2>1, <2>2 DEF Router, Peer, SameOwners
<1> QED BY <1>1, <1>2, <1>3 DEF Command

\* Commands that were about a client's peer stay so.
LEMMA OwnStays ==
    ASSUME rows' \subseteq Peer, nextId \in Nat, nextId' \in Nat, nextId <= nextId',
           NEW o \in Command, Own(o), SameOwners
    PROVE  Own(o)'
BY DEF Own, Command, Peer, SameOwners

\* The commands of a diff are about the clients' peers.
LEMMA DiffOwn ==
    ASSUME rows \subseteq Peer, nextId \in Nat, Router,
           NEW t \in [Clients -> Row], NEW o \in diffPeers(t, rows)
    PROVE  o \in Command /\ Own(o)
<1> USE NoneAssumption
<1>1. CASE o \in Adds(t, rows)
  <2>1. PICK c \in Here(t) : o = [do |-> "add", id |-> 0, who |-> c, name |-> t[c].name,
                                 off |-> t[c].off]
    BY <1>1 DEF Adds, Missing
  <2>2. c \in Clients /\ t[c] \in Row /\ t[c].name # None
    BY DEF Here
  <2> QED BY <2>1, <2>2 DEF Command, Own, Row
<1>2. CASE o \in Sets(t, rows)
  <2>1. PICK p \in rows : /\ p.name # None /\ Named(p) \in Desired(t)
                          /\ o = [do |-> "set", id |-> p.id, who |-> p.who,
                                  name |-> p.name, off |-> t[p.who].off]
    BY <1>2 DEF Sets, Existing, Marked
  <2>2. p.who \in Clients
    BY <2>1 DEF Desired, Comment, Named, Here
  <2>3. p \in Peer /\ p.who # None /\ p.id < nextId /\ t[p.who].off \in BOOLEAN
    BY <2>1, <2>2 DEF Router, Row
  <2>4. o \in Command
    BY <2>1, <2>2, <2>3 DEF Command, Peer
  <2>5. \A q \in rows : q.id = o.id => q.who # None /\ q.who = o.who
    BY <2>1, <2>3 DEF Router
  <2> QED BY <2>1, <2>3, <2>4, <2>5 DEF Own
<1>3. CASE o \in Removes(t, rows)
  <2>1. PICK p \in rows : /\ p.name # None
                          /\ o = [do |-> "remove", id |-> p.id, who |-> None,
                                  name |-> None, off |-> FALSE]
    BY <1>3 DEF Removes, Existing, Marked
  <2>2. p \in Peer /\ p.who # None /\ p.id < nextId
    BY <2>1 DEF Router
  <2>3. \A q \in rows : q.id = o.id => q.who # None
    BY <2>1, <2>2 DEF Router
  <2> QED BY <2>1, <2>2, <2>3 DEF Own, Command, Peer
<1> QED BY <1>1, <1>2, <1>3 DEF diffPeers

LEMMA InitInv == Init => Inv
<1> SUFFICES ASSUME Init PROVE Inv
  OBVIOUS
<1> USE NoneAssumption
<1>1. \A j \in Jobs : job[j] = Idle
  BY DEF Init
<1>2. Foreign \in Peer /\ Foreign.id = 0 /\ Foreign.who = None /\ Foreign.name = None
  BY DEF Foreign, Peer
<1>3. table \in [Clients -> Row]
  BY DEF Init, Gone, Row
<1>4. job \in [Jobs -> Job]
  BY IdleJob DEF Init
<1>5. TypeOK
  BY <1>2, <1>3, <1>4 DEF Init, TypeOK
<1>6. Pending /\ Found
  BY <1>1, IdleJob DEF Pending, Found
<1> QED BY <1>5, <1>6 DEF Inv

\* A step that leaves the router alone and gives job j commands of its own.
LEMMA KeepsRouter ==
    ASSUME Inv, UNCHANGED <<rows, nextId>>, NEW j \in Jobs, NEW r \in Job, Goto(j, r),
           \A o \in r.todo : o \in job[j].todo \/ Own(o),
           r.at = "off" => /\ r.id < nextId
                           /\ \A p \in rows : p.id = r.id => p.who \in r.client
    PROVE  job' \in [Jobs -> Job] /\ Pending' /\ Found'
<1>1. job' \in [Jobs -> Job] /\ job'[j] = r /\ \A k \in Jobs : k # j => job'[k] = job[k]
  BY DEF Inv, TypeOK, Goto
<1>2. \A o : Own(o) => Own(o)'
  BY DEF Own
<1>3. Pending'
  BY <1>1, <1>2 DEF Inv, Pending
<1>4. Found'
  BY <1>1 DEF Inv, Found
<1> QED BY <1>1, <1>3, <1>4

\* A step that sends one pending command, and leaves j with fewer.
LEMMA Sends ==
    ASSUME Inv, NEW j \in Jobs, NEW o \in job[j].todo, Known(o), Effect(o),
           NEW r \in Job, Goto(j, r), r.todo \subseteq job[j].todo, r.at # "off"
    PROVE  /\ rows' \subseteq Peer /\ nextId' \in Nat /\ Router'
           /\ job' \in [Jobs -> Job] /\ Pending' /\ Found'
           /\ {p \in rows : p.name = None} = {p \in rows' : p.name = None}
<1>1. rows \subseteq Peer /\ nextId \in Nat /\ Router /\ job \in [Jobs -> Job]
  BY DEF Inv, TypeOK, Router
<1>2. \A k \in Jobs : job[k].todo \subseteq Command /\ job[k].id \in Nat
                      /\ job[k].client \subseteq Clients
  BY <1>1 DEF Job
<1>3. Own(o) /\ o \in Command
  BY <1>2 DEF Inv, Pending
<1>4. /\ rows' \subseteq Peer /\ nextId' \in Nat /\ Router' /\ nextId <= nextId'
      /\ {p \in rows : p.name = None} = {p \in rows' : p.name = None}
      /\ SameOwners
  BY <1>1, <1>3, EffectKeeps
<1>5. job' \in [Jobs -> Job] /\ job'[j] = r /\ \A k \in Jobs : k # j => job'[k] = job[k]
  BY <1>1 DEF Goto
<1>6. \A q \in Command : Own(q) => Own(q)'
  BY <1>1, <1>4, OwnStays DEF Router
<1>7. Pending'
  BY <1>2, <1>5, <1>6 DEF Inv, Pending
<1>8. Found'
  <2> SUFFICES ASSUME NEW k \in Jobs, job'[k].at = "off"
               PROVE  /\ job'[k].id < nextId'
                      /\ \A p \in rows' : p.id = job'[k].id => p.who \in job'[k].client
    BY DEF Found
  <2>1. job'[k] = job[k]
    BY <1>5
  <2>2. job[k].id < nextId /\ \A p \in rows : p.id = job[k].id => p.who \in job[k].client
    BY <2>1 DEF Inv, Found
  <2> QED BY <2>1, <2>2, <1>1, <1>2, <1>4 DEF SameOwners, Peer
<1> QED BY <1>4, <1>5, <1>7, <1>8

\* What is left to show of a step that the two lemmas above take care of.
Rest ==
    /\ table \in [Clients -> Row] /\ failures \in Nat
    /\ announced \in {"unreachable", "recovered"} /\ edits \in Nat /\ fails \in Nat

LEMMA Split ==
    ASSUME rows' \subseteq Peer, nextId' \in Nat, Router', job' \in [Jobs -> Job],
           Pending', Found', Rest'
    PROVE  Inv'
BY DEF Inv, TypeOK, Router, Rest

LEMMA SplitSame ==
    ASSUME Inv, UNCHANGED <<rows, nextId>>, job' \in [Jobs -> Job], Pending', Found', Rest'
    PROVE  Inv'
BY DEF Inv, TypeOK, Rest

LEMMA NextInv == Inv /\ [Next]_vars => Inv'
<1> SUFFICES ASSUME Inv, [Next]_vars PROVE Inv'
  OBVIOUS
<1> USE NoneAssumption, BoundsAssumption
<1>0. Rest /\ job \in [Jobs -> Job]
  BY DEF Inv, TypeOK, Rest
<1>1. CASE UNCHANGED vars
  <2>1. UNCHANGED <<table, rows, nextId, job, failures, announced, edits, fails>>
    BY <1>1 DEF vars, Health, Bounds
  <2> QED BY <2>1 DEF Inv, TypeOK, Pending, Found, Own
<1>2. CASE Tidy
  <2>1. rows' \subseteq rows /\ UNCHANGED <<nextId, job>>
    BY <1>2 DEF Tidy
  <2>2. Rest'
    BY <1>2, <1>0 DEF Tidy, Rest, Health
  <2>3. \A o : Own(o) => Own(o)'
    BY <2>1 DEF Own
  <2>4. Pending' /\ Found'
    BY <2>1, <2>3 DEF Inv, Pending, Found
  <2> QED BY <2>1, <2>2, <2>4 DEF Inv, TypeOK, Rest
<1>3. ASSUME NEW c \in Clients, Edit(c) PROVE Inv'
  <2>1. table' \in [Clients -> Row]
    BY <1>3, <1>0 DEF Edit, Rest
  <2>2. Rest'
    BY <1>3, <1>0, <2>1 DEF Edit, Rest, Health
  <2>3. UNCHANGED <<rows, nextId, job>>
    BY <1>3 DEF Edit
  <2>4. Pending' /\ Found'
    BY <2>3 DEF Inv, Pending, Found, Own
  <2> QED BY <1>0, <2>2, <2>3, <2>4, SplitSame
<1>4. ASSUME NEW c \in Clients, NEW j \in Jobs, BeginDisable(j, c) PROVE Inv'
  <2> DEFINE r == [Idle EXCEPT !.at = "find", !.kind = "disable", !.client = {c}]
  <2>1. r \in Job /\ r.todo = {} /\ r.at = "find"
    BY DEF Idle, Job, Gone, Row, Ats, Kinds
  <2>2. Goto(j, r) /\ UNCHANGED <<rows, nextId>>
    BY <1>4 DEF BeginDisable
  <2> HIDE DEF r
  <2>3. job' \in [Jobs -> Job] /\ Pending' /\ Found'
    BY <2>1, <2>2, KeepsRouter
  <2>4. table' \in [Clients -> Row]
    BY <1>4, <1>0 DEF BeginDisable, Rest, Row
  <2>5. Rest'
    BY <1>4, <1>0, <2>4 DEF BeginDisable, Rest, Health
  <2> QED BY <2>2, <2>3, <2>5, SplitSame
<1>5. ASSUME NEW j \in Jobs, NEW kind \in Kinds, Begin(j, kind) PROVE Inv'
  <2> DEFINE r == [Idle EXCEPT !.at = "print", !.kind = kind, !.want = table]
  <2>1. r \in Job /\ r.todo = {} /\ r.at = "print"
    BY <1>0 DEF Idle, Job, Gone, Row, Ats, Kinds, Rest
  <2>2. Goto(j, r) /\ UNCHANGED <<rows, nextId>>
    BY <1>5 DEF Begin
  <2> HIDE DEF r
  <2>3. job' \in [Jobs -> Job] /\ Pending' /\ Found'
    BY <2>1, <2>2, KeepsRouter
  <2>4. Rest'
    BY <1>5, <1>0 DEF Begin, Rest, Health, Bounds
  <2> QED BY <2>2, <2>3, <2>4, SplitSame
<1>6. ASSUME NEW j \in Jobs, ListPeers(j) PROVE Inv'
  <2> DEFINE r == [job[j] EXCEPT !.at = "send", !.todo = diffPeers(job[j].want, rows)]
  <2>1. \A o \in diffPeers(job[j].want, rows) : o \in Command /\ Own(o)
    <3>1. rows \subseteq Peer /\ nextId \in Nat /\ Router /\ job[j].want \in [Clients -> Row]
      BY <1>0 DEF Inv, TypeOK, Router, Job
    <3> QED BY <3>1, DiffOwn
  <2>2. r \in Job /\ r.at = "send" /\ r.todo = diffPeers(job[j].want, rows)
    BY <1>0, <2>1 DEF Job, Ats
  <2>3. Goto(j, r) /\ UNCHANGED <<rows, nextId>>
    BY <1>6 DEF ListPeers
  <2> HIDE DEF r
  <2>4. job' \in [Jobs -> Job] /\ Pending' /\ Found'
    BY <2>1, <2>2, <2>3, KeepsRouter
  <2>5. Rest'
    BY <1>6, <1>0 DEF ListPeers, Rest, Health, Bounds
  <2> QED BY <2>3, <2>4, <2>5, SplitSame
<1>7. ASSUME NEW j \in Jobs, Send(j) PROVE Inv'
  <2>1. PICK o \in job[j].todo : /\ Known(o) /\ Effect(o)
                                 /\ Goto(j, [job[j] EXCEPT !.todo = @ \ {o}])
    BY <1>7 DEF Send, Ready
  <2> DEFINE r == [job[j] EXCEPT !.todo = @ \ {o}]
  <2>2. r \in Job /\ r.todo \subseteq job[j].todo /\ r.at # "off" /\ Goto(j, r)
    BY <1>0, <1>7, <2>1 DEF Job, Send
  <2> HIDE DEF r
  <2>3. /\ rows' \subseteq Peer /\ nextId' \in Nat /\ Router'
        /\ job' \in [Jobs -> Job] /\ Pending' /\ Found'
    BY <2>1, <2>2, Sends
  <2>4. Rest'
    BY <1>7, <1>0 DEF Send, Rest, Health, Bounds
  <2> QED BY <2>3, <2>4, Split
<1>8. ASSUME NEW j \in Jobs, Sent(j) \/ Refused(j) PROVE Inv'
  <2>1. PICK good \in BOOLEAN : Goto(j, Over(j, good))
    BY <1>8, Zenon DEF Sent, Refused
  <2>2. UNCHANGED <<rows, nextId>> /\ Rest'
    BY <1>8, <1>0 DEF Sent, Refused, Rest, Health, Bounds
  <2>3. job' \in [Jobs -> Job] /\ Pending' /\ Found'
    BY <2>1, <2>2, OverJob, KeepsRouter
  <2> QED BY <2>2, <2>3, SplitSame
<1>9. ASSUME NEW j \in Jobs, Breaks(j) PROVE Inv'
  <2>a. /\ Goto(j, Over(j, FALSE)) /\ fails' = fails + 1
        /\ UNCHANGED <<table, failures, announced, edits>>
    BY <1>9 DEF Breaks, Health
  <2>b. Rest'
    BY <1>0, <2>a DEF Rest
  <2>1. Goto(j, Over(j, FALSE)) /\ Rest'
    BY <2>a, <2>b
  <2>2. CASE UNCHANGED <<rows, nextId>>
    <3>1. job' \in [Jobs -> Job] /\ Pending' /\ Found'
      BY <2>1, <2>2, OverJob, KeepsRouter
    <3> QED BY <2>1, <2>2, <3>1, SplitSame
  <2>3. ASSUME NEW o \in job[j].todo, Known(o), Effect(o) PROVE Inv'
    <3>1. /\ rows' \subseteq Peer /\ nextId' \in Nat /\ Router'
          /\ job' \in [Jobs -> Job] /\ Pending' /\ Found'
      BY <2>1, <2>3, OverJob, Sends
    <3> QED BY <2>1, <3>1, Split
  <2> QED BY <1>9, <2>2, <2>3 DEF Breaks, Ready
<1>10. ASSUME NEW j \in Jobs, FindPeerId(j) PROVE Inv'
  <2>1. UNCHANGED <<rows, nextId>> /\ Rest'
    BY <1>10, <1>0 DEF FindPeerId, Rest, Health, Bounds
  <2>2. CASE Goto(j, Idle)
    <3>1. job' \in [Jobs -> Job] /\ Pending' /\ Found'
      BY <2>1, <2>2, IdleJob, KeepsRouter
    <3> QED BY <2>1, <3>1, SplitSame
  <2>3. ASSUME NEW p \in rows, p.who \in job[j].client,
               Goto(j, [job[j] EXCEPT !.at = "off", !.id = p.id])
        PROVE  Inv'
    <3> DEFINE r == [job[j] EXCEPT !.at = "off", !.id = p.id]
    <3>1. p \in Peer /\ p.id < nextId /\ \A q \in rows : q.id = p.id => q = p
      BY DEF Inv, TypeOK
    <3>2. /\ r \in Job /\ r.id = p.id /\ r.client = job[j].client
          /\ r.todo = job[j].todo /\ Goto(j, r)
      BY <1>0, <2>3, <3>1 DEF Job, Ats, Peer
    <3> HIDE DEF r
    <3>3. job' \in [Jobs -> Job] /\ Pending' /\ Found'
      BY <2>1, <2>3, <3>1, <3>2, KeepsRouter
    <3> QED BY <2>1, <3>3, SplitSame
  <2> QED BY <1>10, <2>2, <2>3 DEF FindPeerId
<1>11. ASSUME NEW j \in Jobs, SetDisabled(j) PROVE Inv'
  <2>1. /\ rows' = {IF p.id = job[j].id THEN [p EXCEPT !.off = TRUE] ELSE p : p \in rows}
        /\ Goto(j, Idle) /\ nextId' = nextId /\ Rest'
    BY <1>11, <1>0 DEF SetDisabled, Rest, Health, Bounds
  <2> DEFINE f(q) == IF q.id = job[j].id THEN [q EXCEPT !.off = TRUE] ELSE q
  <2>a. \A q \in rows : f(q) \in Peer /\ f(q).id = q.id /\ f(q).who = q.who /\ f(q).name = q.name
    BY DEF Inv, TypeOK, Peer
  <2>b. \A p \in rows' : \E q \in rows : p = f(q)
    BY <2>1
  <2> HIDE DEF f
  <2>2. \A p \in rows' : \E q \in rows : p.id = q.id /\ p.who = q.who /\ p.name = q.name
    BY <2>a, <2>b
  <2>3. rows' \subseteq Peer /\ Router'
    <3>1. rows' \subseteq Peer
      BY <2>a, <2>b
    <3>2. \A p, q \in rows' : p.id = q.id => p = q
      BY <2>a, <2>b DEF Inv, TypeOK
    <3>3. \A p \in rows' : p.id < nextId' /\ (p.who = None <=> p.name = None)
      BY <2>1, <2>2 DEF Inv, TypeOK
    <3> QED BY <3>1, <3>2, <3>3 DEF Router
  <2>4. \A o : Own(o) => Own(o)'
    BY <2>1, <2>2 DEF Own
  <2>5. job' \in [Jobs -> Job] /\ job'[j] = Idle /\ \A k \in Jobs : k # j => job'[k] = job[k]
    BY <2>1, <1>0, IdleJob DEF Goto
  <2>6. Pending' /\ Found'
    <3>1. Pending'
      BY <2>4, <2>5, IdleJob DEF Inv, Pending
    <3>2. Found'
      BY <2>1, <2>2, <2>5, IdleJob DEF Inv, Found
    <3> QED BY <3>1, <3>2
  <2>7. nextId' \in Nat
    BY <2>1 DEF Inv, TypeOK
  <2> QED BY <2>1, <2>3, <2>5, <2>6, <2>7, Split
<1>12. ASSUME NEW j \in Jobs, ReadHealth(j) PROVE Inv'
  <2> DEFINE r == [job[j] EXCEPT !.at = "write", !.prev = failures]
  <2>1. r \in Job /\ r.todo = job[j].todo /\ r.at = "write"
    BY <1>0 DEF Job, Ats, Rest
  <2>2. Goto(j, r) /\ UNCHANGED <<rows, nextId>> /\ Rest'
    BY <1>12, <1>0 DEF ReadHealth, Rest, Health, Bounds
  <2> HIDE DEF r
  <2>3. job' \in [Jobs -> Job] /\ Pending' /\ Found'
    BY <2>1, <2>2, KeepsRouter
  <2> QED BY <2>2, <2>3, SplitSame
<1>13. ASSUME NEW j \in Jobs, WriteHealth(j) PROVE Inv'
  <2>1. job[j].prev \in Nat
    BY <1>0 DEF Job
  <2>2. failures' \in Nat /\ announced' \in {"unreachable", "recovered"}
    BY <1>13, <1>0, <2>1 DEF WriteHealth, Rest
  <2>3. Goto(j, Idle) /\ UNCHANGED <<rows, nextId>> /\ Rest'
    BY <1>13, <1>0, <2>2 DEF WriteHealth, Rest, Bounds
  <2>4. job' \in [Jobs -> Job] /\ Pending' /\ Found'
    BY <2>3, IdleJob, KeepsRouter
  <2> QED BY <2>3, <2>4, SplitSame
<1> QED BY <1>1, <1>2, <1>3, <1>4, <1>5, <1>6, <1>7, <1>8, <1>9, <1>10, <1>11, <1>12,
           <1>13 DEF Next, Continue

\* The engine keeps its bookkeeping and the router's peers well formed, however
\* many syncs of syncInterface and disablePeer overlap.
THEOREM TypeCorrect == Spec => []TypeOK
<1>1. Inv => TypeOK
  BY DEF Inv
<1> QED BY InitInv, NextInv, <1>1, PTL DEF Spec

-----------------------------------------------------------------------------
(* Foreign peers.                                                          *)

LEMMA NextForeign ==
    ASSUME Inv, [Next]_vars
    PROVE  {p \in rows : p.name = None} = {p \in rows' : p.name = None}
<1>0. rows \subseteq Peer /\ \A p \in rows : p.who = None <=> p.name = None
  BY DEF Inv, TypeOK
<1>1. CASE rows' = rows
  BY <1>1
<1>2. CASE Tidy
  BY <1>2, <1>0 DEF Tidy
<1>3. ASSUME NEW j \in Jobs, Send(j) \/ Breaks(j)
      PROVE  {p \in rows : p.name = None} = {p \in rows' : p.name = None}
  <2>1. ASSUME NEW o \in job[j].todo, Known(o), Effect(o)
        PROVE  {p \in rows : p.name = None} = {p \in rows' : p.name = None}
    <3>1. rows \subseteq Peer /\ nextId \in Nat /\ Router /\ o \in Command /\ Own(o)
      BY DEF Inv, TypeOK, Router, Pending, Job
    <3> QED BY <2>1, <3>1, EffectKeeps
  <2>2. \/ rows' = rows
        \/ \E o \in job[j].todo : Known(o) /\ Effect(o)
    BY <1>3 DEF Send, Breaks, Ready
  <2> QED BY <2>1, <2>2, <1>1
<1>4. ASSUME NEW j \in Jobs, SetDisabled(j)
      PROVE  {p \in rows : p.name = None} = {p \in rows' : p.name = None}
  <2> DEFINE f(q) == IF q.id = job[j].id THEN [q EXCEPT !.off = TRUE] ELSE q
  <2>1. rows' = {f(q) : q \in rows}
    BY <1>4 DEF SetDisabled
  <2>2. \A q \in rows : q.id = job[j].id => q.name # None
    <3>1. job[j].at = "off" /\ job[j].client \subseteq Clients
      BY <1>4 DEF SetDisabled, Inv, TypeOK, Job
    <3> QED BY <3>1, <1>0, NoneAssumption DEF Inv, Found
  <2>3. \A q \in rows : f(q).name = q.name /\ (q.name = None => f(q) = q)
    BY <1>0, <2>2 DEF Peer
  <2> HIDE DEF f
  <2> QED BY <2>1, <2>3
<1>5. \/ UNCHANGED rows \/ Tidy
      \/ \E j \in Jobs : Send(j) \/ Breaks(j) \/ SetDisabled(j)
  <2>1. CASE UNCHANGED vars
    BY <2>1 DEF vars
  <2>2. CASE Next
    BY <2>2 DEF Next, Continue, Edit, BeginDisable, Begin, ListPeers, Sent, Refused,
                FindPeerId, ReadHealth, WriteHealth
  <2> QED BY <2>1, <2>2
<1> QED BY <1>1, <1>2, <1>3, <1>4, <1>5

\* No overlap of syncs and disablePeer, with whatever stale prints, changes or
\* removes a peer without a comment (configgen.ts diffPeers).
THEOREM ForeignCorrect == Spec => ForeignUntouched
<1>1. Inv /\ [Next]_vars => [{p \in rows : p.name = None} = {p \in rows' : p.name = None}]_vars
  BY NextForeign
<1> QED BY InitInv, NextInv, <1>1, PTL DEF Spec, ForeignUntouched

-----------------------------------------------------------------------------
(* One sync at a time: a client that stays on stays served.                *)

Serial == \E one : Jobs = {one}

\* A client that is to be on has a command to come that serves it, or a peer
\* that serves it and is not to be removed.
SecuredBy(S, R, c) ==
    \/ \E o \in S : o.do # "remove" /\ o.who = c /\ ~o.off
    \/ \E p \in R : p.who = c /\ ~p.off /\ \A o \in S : o.do = "remove" => o.id # p.id

PlanOf(t, S, R) ==
    /\ \A o \in S : o.do # "remove" => o.who \in Here(t) /\ o.off = t[o.who].off
    /\ \A o, q \in S : o.do = "set" /\ q.do = "remove" => o.id # q.id
    /\ \A c \in Here(t) : ~t[c].off => SecuredBy(S, R, c)

Plan == \A j \in Jobs : job[j].at = "send" => PlanOf(job[j].want, job[j].todo, rows)

\* diffPeers makes such a plan: a client whose comment is missing gets an add,
\* and the peer that has its comment is not removed.
LEMMA DiffPlan ==
    ASSUME rows \subseteq Peer, Router, NEW t \in [Clients -> Row]
    PROVE  PlanOf(t, diffPeers(t, rows), rows)
<1> DEFINE S == diffPeers(t, rows)
<1>1. \A o \in S : o.do = "add" =>
        o.who \in Here(t) /\ o.off = t[o.who].off
  BY DEF diffPeers, Adds, Sets, Removes, Missing
<1>2. \A o \in S : o.do = "set" =>
        \E p \in Existing(rows) : /\ Named(p) \in Desired(t) /\ o.id = p.id
                                  /\ o.who = p.who /\ o.off = t[p.who].off
  BY DEF diffPeers, Adds, Sets, Removes
<1>3. \A o \in S : o.do = "remove" =>
        \E p \in Existing(rows) : Named(p) \notin Desired(t) /\ o.id = p.id
  BY DEF diffPeers, Adds, Sets, Removes
<1>4. \A o \in S : o.do \in {"add", "set", "remove"}
  BY DEF diffPeers, Adds, Sets, Removes
<1>5. \A p \in rows : Named(p) \in Desired(t) => p.who \in Here(t)
  BY DEF Named, Desired, Comment
<1>6. Existing(rows) \subseteq rows /\ \A p, q \in rows : p.id = q.id => p = q
  BY DEF Existing, Router
<1>7. ASSUME NEW c \in Here(t), ~t[c].off PROVE SecuredBy(S, rows, c)
  <2>1. CASE c \in Missing(t, rows)
    <3> DEFINE o == [do |-> "add", id |-> 0, who |-> c, name |-> t[c].name,
                     off |-> t[c].off]
    <3>1. o \in S
      BY <2>1 DEF diffPeers, Adds
    <3> QED BY <3>1, <1>7 DEF SecuredBy
  <2>2. ASSUME NEW p \in Existing(rows), Named(p) = Comment(c, t)
        PROVE  SecuredBy(S, rows, c)
    <3>1. p \in rows /\ p.who = c /\ Named(p) \in Desired(t) /\ p.off \in BOOLEAN
      BY <2>2, <1>6 DEF Named, Comment, Desired, Peer
    <3>2. CASE p.off
      <4> DEFINE o == [do |-> "set", id |-> p.id, who |-> p.who, name |-> p.name,
                       off |-> t[p.who].off]
      <4>1. p \in {q \in Existing(rows) : Named(q) \in Desired(t) /\ q.off # t[q.who].off}
        BY <2>2, <3>1, <3>2, <1>7
      <4>2. o \in Sets(t, rows)
        BY <4>1 DEF Sets
      <4>3. o \in S /\ o.do # "remove" /\ o.who = c /\ ~o.off
        BY <4>2, <3>1, <1>7 DEF diffPeers
      <4> QED BY <4>3 DEF SecuredBy
    <3>3. CASE ~p.off
      <4>1. \A o \in S : o.do = "remove" => o.id # p.id
        BY <1>3, <1>6, <3>1
      <4> QED BY <3>1, <3>3, <4>1 DEF SecuredBy
    <3> QED BY <3>1, <3>2, <3>3
  <2> QED BY <2>1, <2>2 DEF Missing
<1> HIDE DEF S
<1>8. \A o \in S : o.do # "remove" => o.who \in Here(t) /\ o.off = t[o.who].off
  BY <1>1, <1>2, <1>4, <1>5, <1>6
<1>9. \A o, q \in S : o.do = "set" /\ q.do = "remove" => o.id # q.id
  BY <1>2, <1>3, <1>6
<1> QED BY <1>7, <1>8, <1>9 DEF PlanOf, S

\* A command of the plan, sent in its turn, leaves each client that is to be on
\* served if it was, and the rest of the plan a plan.
LEMMA EffectPlan ==
    ASSUME rows \subseteq Peer, nextId \in Nat, Router, NEW t \in [Clients -> Row],
           NEW S \in SUBSET Command, \A q \in S : Own(q), PlanOf(t, S, rows),
           NEW o \in Ready(S), Known(o), Effect(o)
    PROVE  /\ PlanOf(t, S \ {o}, rows')
           /\ \A c \in Here(t) : ~t[c].off /\ Serves(rows, c) => Serves(rows', c)
<1>0. o \in S /\ Own(o) /\ o \in Command
  BY DEF Ready
<1> SUFFICES ASSUME NEW c \in Here(t), ~t[c].off
             PROVE  /\ SecuredBy(S \ {o}, rows', c)
                    /\ Serves(rows, c) => Serves(rows', c)
  BY DEF PlanOf
<1>1. SecuredBy(S, rows, c)
  BY DEF PlanOf
<1>2. CASE o.do = "remove"
  <2>1. \A q \in S : q.do = "remove"
    BY <1>2, <1>0 DEF Ready
  <2>2. PICK p \in rows : p.who = c /\ ~p.off /\ \A q \in S : q.do = "remove" => q.id # p.id
    BY <1>1, <2>1 DEF SecuredBy
  <2>3. p \in rows'
    BY <1>0, <1>2, <2>2 DEF Effect, Executed
  <2> QED BY <2>2, <2>3 DEF SecuredBy, Serves
<1>3. CASE o.do # "remove"
  <2> DEFINE new == [id |-> IF o.do = "add" THEN nextId ELSE o.id, who |-> o.who,
                     name |-> o.name, off |-> o.off]
  <2>1. new \in rows' /\ new.who = o.who /\ new.off = o.off
        /\ new.id = (IF o.do = "add" THEN nextId ELSE o.id)
    BY <1>0, <1>3 DEF Effect, Executed, Command
  <2>2. \A p \in rows : p \in rows' \/ (o.do = "set" /\ p.id = o.id)
    BY <1>0, <1>3 DEF Effect, Executed, Command
  <2> HIDE DEF new
  <2>3. o.off = t[o.who].off /\ \A p \in rows : o.do = "set" /\ p.id = o.id => p.who = o.who
    BY <1>0, <1>3 DEF PlanOf, Own
  <2>4. \A p \in rows : p.who = c /\ ~p.off =>
          \E r \in rows' : r.id = p.id /\ r.who = c /\ ~r.off
    BY <2>1, <2>2, <2>3
  <2>5. \A q \in S : q.do = "remove" => q.id # new.id
    BY <1>0, <1>3, <2>1 DEF PlanOf, Own, Command
  <2>6. SecuredBy(S \ {o}, rows', c)
    <3>1. CASE o.who = c
      BY <3>1, <2>1, <2>3, <2>5 DEF SecuredBy
    <3>2. CASE o.who # c
      BY <3>2, <1>1, <2>4 DEF SecuredBy
    <3> QED BY <3>1, <3>2
  <2> QED BY <2>4, <2>6 DEF Serves
<1> QED BY <1>2, <1>3

\* The only call chain is not sending after the step.
LEMMA PlanOver ==
    ASSUME Serial, NEW j \in Jobs, job'[j].at # "send"
    PROVE  Plan'
<1>1. \A k \in Jobs : k = j
  BY DEF Serial
<1> QED BY <1>1 DEF Plan

LEMMA SendPlan ==
    ASSUME Serial, Inv, Plan, NEW j \in Jobs, job[j].at = "send",
           NEW o \in Ready(job[j].todo), Known(o), Effect(o)
    PROVE  /\ PlanOf(job[j].want, job[j].todo \ {o}, rows')
           /\ \A c \in Here(job[j].want) :
                ~job[j].want[c].off /\ Serves(rows, c) => Serves(rows', c)
<1>1. /\ rows \subseteq Peer /\ nextId \in Nat /\ Router
      /\ job[j].want \in [Clients -> Row] /\ job[j].todo \in SUBSET Command
  BY DEF Inv, TypeOK, Router, Job
<1>2. (\A q \in job[j].todo : Own(q)) /\ PlanOf(job[j].want, job[j].todo, rows)
  BY DEF Inv, Pending, Plan
<1> QED BY <1>1, <1>2, EffectPlan

LEMMA NextPlan ==
    ASSUME Serial, Inv, Plan, [Next]_vars PROVE Plan'
<1>0. job \in [Jobs -> Job] /\ rows \subseteq Peer
  BY DEF Inv, TypeOK
<1>1. CASE UNCHANGED <<rows, job>>
  BY <1>1 DEF Plan
<1>2. CASE Tidy
  <2>1. PICK p \in rows : p.off /\ rows' = rows \ {p} /\ job' = job
    BY <1>2 DEF Tidy
  <2>2. \A t, S : PlanOf(t, S, rows) => PlanOf(t, S, rows')
    BY <2>1 DEF PlanOf, SecuredBy
  <2> QED BY <2>1, <2>2 DEF Plan
<1>3. ASSUME NEW j \in Jobs, ListPeers(j) PROVE Plan'
  <2>1. rows \subseteq Peer /\ Router /\ job[j].want \in [Clients -> Row]
    BY <1>0 DEF Inv, TypeOK, Router, Job
  <2>2. PlanOf(job[j].want, diffPeers(job[j].want, rows), rows)
    BY <2>1, DiffPlan
  <2>3. /\ job'[j].want = job[j].want /\ job'[j].todo = diffPeers(job[j].want, rows)
        /\ rows' = rows /\ \A k \in Jobs : k = j
    BY <1>3, <1>0 DEF ListPeers, Goto, Job, Serial
  <2> QED BY <2>2, <2>3 DEF Plan
<1>4. ASSUME NEW j \in Jobs, Send(j) PROVE Plan'
  <2>1. PICK o \in Ready(job[j].todo) : /\ Known(o) /\ Effect(o)
                                        /\ Goto(j, [job[j] EXCEPT !.todo = @ \ {o}])
    BY <1>4 DEF Send
  <2>2. PlanOf(job[j].want, job[j].todo \ {o}, rows')
    BY <1>4, <2>1, SendPlan DEF Send
  <2>3. /\ job'[j].want = job[j].want /\ job'[j].todo = job[j].todo \ {o}
        /\ \A k \in Jobs : k = j
    BY <1>0, <2>1 DEF Goto, Job, Serial
  <2> QED BY <2>2, <2>3 DEF Plan
<1>5. ASSUME NEW j \in Jobs, Sent(j) \/ Refused(j) \/ Breaks(j) PROVE Plan'
  <2>1. PICK good \in BOOLEAN : Goto(j, Over(j, good))
    BY <1>5, Zenon DEF Sent, Refused, Breaks
  <2>2. job'[j] = Over(j, good)
    BY <1>0, <2>1 DEF Goto
  <2> QED BY <2>2, OverJob, PlanOver
<1>6. ASSUME NEW j \in Jobs, SetDisabled(j) \/ WriteHealth(j) PROVE Plan'
  <2>1. Goto(j, Idle)
    BY <1>6 DEF SetDisabled, WriteHealth
  <2>2. job'[j] = Idle
    BY <1>0, <2>1 DEF Goto
  <2> QED BY <2>2, IdleJob, PlanOver
<1>7. ASSUME NEW j \in Jobs, FindPeerId(j) \/ ReadHealth(j) PROVE Plan'
  <2>1. job'[j].at # "send"
    <3>1. CASE FindPeerId(j)
      BY <3>1, <1>0, FindJob
    <3>2. CASE ReadHealth(j)
      BY <3>2, <1>0 DEF ReadHealth, Goto, Job
    <3> QED BY <1>7, <3>1, <3>2
  <2> QED BY <2>1, PlanOver
<1>8. ASSUME NEW j \in Jobs, NEW kind \in Kinds, Begin(j, kind) PROVE Plan'
  <2>1. job'[j].at # "send"
    BY <1>8, <1>0, BeginJob
  <2> QED BY <2>1, PlanOver
<1>9. ASSUME NEW j \in Jobs, NEW c \in Clients, BeginDisable(j, c) PROVE Plan'
  <2>1. job'[j].at # "send"
    BY <1>9, <1>0 DEF BeginDisable, Goto, Idle
  <2> QED BY <2>1, PlanOver
<1>10. ASSUME NEW c \in Clients, Edit(c) PROVE Plan'
  BY <1>10, <1>1 DEF Edit
<1>11. UNCHANGED vars => UNCHANGED <<rows, job>>
  BY DEF vars
<1> QED BY <1>1, <1>2, <1>3, <1>4, <1>5, <1>6, <1>7, <1>8, <1>9, <1>10, <1>11
        DEF Next, Continue

LEMMA NextServed ==
    ASSUME Serial, Inv, Plan, [Next]_vars, NEW c \in Clients, Agreed(c), Serves(rows, c)
    PROVE  Serves(rows', c)
<1>1. CASE rows' = rows
  BY <1>1
<1>2. CASE Tidy
  BY <1>2 DEF Tidy, Serves
<1>3. ASSUME NEW j \in Jobs, Send(j) \/ Breaks(j), rows' # rows PROVE Serves(rows', c)
  <2>1. PICK o \in Ready(job[j].todo) : job[j].at = "send" /\ Known(o) /\ Effect(o)
    BY <1>3 DEF Send, Breaks
  <2>2. job[j].want[c] = table[c]
    BY <2>1 DEF Agreed
  <2>3. c \in Here(job[j].want) /\ ~job[j].want[c].off
    BY <2>2 DEF Agreed, Here
  <2> QED BY <2>1, <2>3, SendPlan
<1>4. ASSUME NEW j \in Jobs, SetDisabled(j) PROVE Serves(rows', c)
  <2>1. PICK p \in rows : p.who = c /\ ~p.off
    BY DEF Serves
  <2>2. job[j].at = "off" /\ c \notin job[j].client
    BY <1>4 DEF SetDisabled, Agreed
  <2>3. p.id # job[j].id
    BY <2>1, <2>2 DEF Inv, Found
  <2>4. p \in rows'
    BY <1>4, <2>3 DEF SetDisabled
  <2> QED BY <2>1, <2>4 DEF Serves
<1>5. \/ UNCHANGED rows \/ Tidy
      \/ \E j \in Jobs : Send(j) \/ Breaks(j) \/ SetDisabled(j)
  <2>1. CASE UNCHANGED vars
    BY <2>1 DEF vars
  <2>2. CASE Next
    BY <2>2 DEF Next, Continue, Edit, BeginDisable, Begin, ListPeers, Sent, Refused,
                FindPeerId, ReadHealth, WriteHealth
  <2> QED BY <2>1, <2>2
<1> QED BY <1>1, <1>2, <1>3, <1>4, <1>5

\* With one sync at a time, a client that stays on is never disconnected: not by
\* the rename that replaces its peer, not by a sync that breaks off between two
\* commands or loses an answer (mikrotik/index.ts syncInterface, diffPeers).
THEOREM ServedCorrect == ASSUME Serial PROVE Spec => NeverDropped
<1>1. Init => Plan
  BY IdleJob DEF Init, Plan
<1>2. Plan /\ Inv /\ [Next]_vars => Plan'
  BY NextPlan
<1>3. Inv /\ Plan /\ [Next]_vars
        => [\A c \in Clients : Agreed(c) /\ Serves(rows, c) => Serves(rows', c)]_vars
  BY NextServed
<1> QED BY InitInv, NextInv, <1>1, <1>2, <1>3, PTL DEF Spec, NeverDropped

-----------------------------------------------------------------------------
(* One sync at a time: an outage is announced once.                        *)

\* The count that a reconciler read is still the one in the database.
Fresh == \A j \in Jobs : job[j].at = "write" => job[j].prev = failures

Announced == announced = "unreachable" <=> failures >= Threshold

LEMMA NextAnnounced ==
    ASSUME Serial, Inv, Fresh, Announced, [Next]_vars PROVE Fresh' /\ Announced'
<1>0. job \in [Jobs -> Job] /\ failures \in Nat /\ Threshold \in Nat \ {0}
  BY BoundsAssumption DEF Inv, TypeOK
<1>1. ASSUME UNCHANGED <<failures, announced>>,
             job' = job \/ \E j \in Jobs : job'[j].at # "write"
      PROVE  Fresh' /\ Announced'
  <2>1. \A j, k \in Jobs : j = k
    BY DEF Serial
  <2> QED BY <1>0, <1>1, <2>1 DEF Fresh, Announced
<1>2. ASSUME NEW j \in Jobs, ReadHealth(j) PROVE Fresh' /\ Announced'
  <2>1. /\ job' = [job EXCEPT ![j] = [job[j] EXCEPT !.at = "write", !.prev = failures]]
        /\ UNCHANGED <<failures, announced>>
    BY <1>2 DEF ReadHealth, Goto, Health
  <2>2. job'[j].prev = failures /\ \A k \in Jobs : k = j
    BY <1>0, <2>1 DEF Serial, Job
  <2> QED BY <2>1, <2>2 DEF Fresh, Announced
<1>3. ASSUME NEW j \in Jobs, WriteHealth(j) PROVE Fresh' /\ Announced'
  <2>1. job[j].prev = failures
    BY <1>3 DEF WriteHealth, Fresh
  <2>2. Announced'
    BY <1>3, <1>0, <2>1 DEF WriteHealth, Announced, Crossed
  <2>3. job'[j] = Idle /\ \A k \in Jobs : k = j
    BY <1>3, <1>0 DEF WriteHealth, Goto, Serial
  <2>4. Fresh'
    BY <2>3, IdleJob DEF Fresh
  <2> QED BY <2>2, <2>4
<1>4. ASSUME NEW j \in Jobs,
             \/ ListPeers(j) \/ Send(j) \/ Sent(j) \/ Refused(j) \/ Breaks(j)
             \/ FindPeerId(j) \/ SetDisabled(j) \/ \E kind \in Kinds : Begin(j, kind)
             \/ \E c \in Clients : BeginDisable(j, c)
      PROVE  /\ UNCHANGED <<failures, announced>>
             /\ job'[j].at # "write"
  <2>1. UNCHANGED <<failures, announced>>
    BY <1>4 DEF ListPeers, Send, Sent, Refused, Breaks, FindPeerId, SetDisabled, Begin,
                BeginDisable, Health
  <2>2. CASE ListPeers(j) \/ Send(j) \/ FindPeerId(j) \/ SetDisabled(j)
    <3>1. CASE FindPeerId(j)
      BY <2>1, <3>1, <1>0, FindJob
    <3>2. CASE SetDisabled(j)
      BY <2>1, <3>2, <1>0, IdleJob DEF SetDisabled, Goto
    <3>3. CASE ListPeers(j)
      BY <2>1, <3>3, <1>0 DEF ListPeers, Goto, Job
    <3>4. CASE Send(j)
      BY <2>1, <3>4, <1>0 DEF Send, Goto, Job
    <3> QED BY <2>2, <3>1, <3>2, <3>3, <3>4
  <2>3. CASE Sent(j) \/ Refused(j) \/ Breaks(j)
    <3>1. PICK good \in BOOLEAN : Goto(j, Over(j, good))
      BY <2>3, Zenon DEF Sent, Refused, Breaks
    <3>2. job'[j] = Over(j, good)
      BY <1>0, <3>1 DEF Goto
    <3> QED BY <2>1, <3>2, OverJob
  <2>4. CASE \E kind \in Kinds : Begin(j, kind)
    BY <1>0, <2>1, <2>4, BeginJob
  <2>5. CASE \E c \in Clients : BeginDisable(j, c)
    BY <1>0, <2>1, <2>5 DEF BeginDisable, Goto, Idle
  <2> QED BY <1>4, <2>1, <2>2, <2>3, <2>4, <2>5
<1>5. CASE UNCHANGED vars
  BY <1>1, <1>5 DEF vars, Health
<1>6. ASSUME Tidy \/ \E c \in Clients : Edit(c) PROVE Fresh' /\ Announced'
  BY <1>1, <1>6 DEF Tidy, Edit, Health
<1> QED BY <1>1, <1>2, <1>3, <1>4, <1>5, <1>6 DEF Next, Continue

\* With one reconciler tick at a time, the audit log says unreachable exactly
\* while the failures of a row have reached the threshold (recordHealth).
THEOREM DebouncedCorrect == ASSUME Serial PROVE Spec => []Debounced
<1>1. Init => Fresh /\ Announced
  BY IdleJob, BoundsAssumption DEF Init, Fresh, Announced
<1>2. Fresh /\ Announced /\ Inv /\ [Next]_vars => (Fresh /\ Announced)'
  BY NextAnnounced
<1>3. Announced => Debounced
  BY DEF Announced, Debounced
<1> QED BY InitInv, NextInv, <1>1, <1>2, <1>3, PTL DEF Spec
=============================================================================
