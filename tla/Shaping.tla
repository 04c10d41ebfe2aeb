------------------------------- MODULE Shaping -------------------------------
(* Speed limits of the engines that run on the host: a row of speed_limit    *)
(* per client and, in the kernel, a class of the client and filters that     *)
(* send the packets of an ADDRESS to it, one way on the interface itself and *)
(* the other way through an ifb device.  The module has every operation that *)
(* can pull rows and kernel apart: requests for one client that overlap at   *)
(* their awaits, clients that get another address, vanish or are disabled,   *)
(* a new range of the interface, an engine that throws, and restarts.        *)
(*                                                                           *)
(* missed is what makes the property exact: it names the clients for which   *)
(* one of the known holes of the code opened and was not closed since.       *)
EXTENDS Addresses

CONSTANTS
  Clients,     \* ids of clients, in the order they are given away
  Requests,    \* requests that may overlap
  Ranges,      \* ranges of the interface an administrator may choose
  Limits,      \* limits that may be asked for
  Slots,       \* class ids tc has room for
  MaxEvents,   \* bound on requests, failures and restarts together
  MaxFails     \* bound on failures and restarts

Dirs      == {"down", "up"}
Unlimited == [d \in Dirs |-> 0]

\* Assumed of the constants by the module that instantiates this one.
ShapingAssumption ==
  /\ Clients \subseteq Nat \ {0} /\ Ranges \subseteq Cidr
  /\ Limits \subseteq [Dirs -> Nat] /\ Unlimited \notin Limits
  /\ Slots \in Nat \ {0} /\ MaxEvents \in Nat /\ MaxFails \in Nat

VARIABLES
  range,     \* interfaces_table: the range
  rows,      \* clients_table: the clients that exist
  addr,      \* clients_table: their addresses
  enabled,   \* clients_table: those with enabled = true
  limit,     \* speed_limit: the row of a client, Unlimited without one
  class,     \* kernel: the rate of each class and direction, 0 without one
  filters,   \* kernel: the filters of both devices
  req,       \* the requests under way
  again,     \* the start of the engine, which applies the limits again
  missed,    \* history: the clients one of the holes is open for
  spent, fails

table  == <<range, rows, addr, enabled>>
kernel == <<class, filters>>
vars   == <<table, limit, kernel, req, again, missed, spent, fails>>

\* A filter on the interface (downloads), the redirection of uploads to the
\* ifb device, which has no class, and the filter there.
Filter == [on : {"wg0", "ingress", "ifb"}, addr : Nat, to : 0 .. Slots]
device(d) == IF d = "down" THEN "wg0" ELSE "ifb"

\* Ids grow for ever, class ids do not.
classIdFor(c) == (c % Slots) + 1

Ats     == {"idle", "read", "find", "clearDown", "clearUp", "drop", "upsert",
            "applyDown", "applyUp"}
Kinds   == {"put", "clear", "move"}
Request == [at : Ats, kind : Kinds, c : Clients \union {0}, lim : [Dirs -> Nat],
            addr : Nat, clean : BOOLEAN]
Idle    == [at |-> "idle", kind |-> "put", c |-> 0, lim |-> Unlimited, addr |-> 0,
            clean |-> TRUE]

Again   == [todo : SUBSET Clients, lim : [Clients -> [Dirs -> Nat]],
            addr : [Clients -> Nat], clean : SUBSET Clients]
Nobody  == [todo |-> {}, lim |-> [c \in Clients |-> Unlimited],
            addr |-> [c \in Clients |-> 0], clean |-> {}]

Init ==
  /\ range \in Ranges /\ rows = {} /\ enabled = {}
  /\ addr = [c \in Clients |-> 0] /\ limit = [c \in Clients |-> Unlimited]
  /\ class = [d \in Dirs |-> [k \in 1 .. Slots |-> 0]] /\ filters = {}
  /\ req = [q \in Requests |-> Idle] /\ again = Nobody
  /\ missed = {} /\ spent = 0 /\ fails = 0

Busy(c)  == (\E q \in Requests : req[q].c = c) \/ c \in again.todo
Starts   == spent + fails < MaxEvents /\ spent' = spent + 1
Happens  == fails < MaxFails /\ spent + fails < MaxEvents /\ fails' = fails + 1
Limited  == {c \in rows : limit[c] # Unlimited}

\* A filter that c itself left behind at the address a.
Leftover(c, a) == \E f \in filters : f.addr = a /\ f.to = classIdFor(c)

\* The requests under way on the clients of C no longer run alone.
Disturbed(C) == [q \in Requests |-> [req[q] EXCEPT !.clean = @ /\ req[q].c \notin C]]

\* A request on c begins; alone: nothing else is under way on c, and the request
\* is none of those the code carries out by halves.
Begin(q, r, alone) ==
  /\ Starts /\ req[q].at = "idle"
  /\ req' = [Disturbed({r.c}) EXCEPT ![q] = [r EXCEPT !.clean = alone /\ ~Busy(r.c)]]
  /\ again' = [again EXCEPT !.clean = @ \ {r.c}]

Go(q, r) == req' = [req EXCEPT ![q] = r]

(***************************************************************************)
(* setSpeedLimit and clearSpeedLimit of the service.                       *)
(***************************************************************************)

\* The row first, then the kernel.  A direction that becomes unlimited while the
\* other is not keeps its class: the first hole.
PutRequest(q, c, l) ==
  /\ c \in rows
  /\ Begin(q, [Idle EXCEPT !.at = "find", !.c = c, !.lim = l],
           \A d \in Dirs : limit[c][d] > 0 => l[d] > 0)
  /\ limit' = [limit EXCEPT ![c] = l]
  /\ UNCHANGED <<table, kernel, missed, fails>>

\* The kernel first, then the row; also a PUT of two zeros.
ClearRequest(q, c) ==
  /\ c \in rows
  /\ Begin(q, [Idle EXCEPT !.at = "find", !.kind = "clear", !.c = c], TRUE)
  /\ UNCHANGED <<table, limit, kernel, missed, fails>>

\* The engine looks the peer up by its key and takes its address.  A client that
\* is gone makes applySpeedLimit throw and clearSpeedLimit return.
Find(q) ==
  LET r == req[q]
      next == IF r.kind = "put" THEN "applyDown" ELSE "clearDown"
      gone == IF r.kind = "put" THEN Idle ELSE [r EXCEPT !.at = "drop"]
  IN /\ r.at = "find"
     /\ Go(q, IF r.c \in rows THEN [r EXCEPT !.at = next, !.addr = addr[r.c]] ELSE gone)
     /\ UNCHANGED <<table, limit, kernel, again, missed, spent, fails>>

(***************************************************************************)
(* The commands of engines/wireguard/speedlimit.ts.                        *)
(***************************************************************************)

\* add, or change when the class exists; a direction without limit is skipped.
\* Mutant: only add.
AddedOnly(d, k, rate)  == IF class[d][k] = 0 THEN [class EXCEPT ![d][k] = rate] ELSE class
WithClass(d, k, rate)  == IF rate = 0 THEN class ELSE [class EXCEPT ![d][k] = rate]

WithFilters(d, a, k, rate) ==
  filters \union
    {f \in [on : {device(d)}, addr : {a}, to : {k}]
           \union [on : {"ingress"}, addr : {a}, to : {0}] :
       rate > 0 /\ (f.on = "ingress" => d = "up")}

Shape(d, c, a, rate) ==
  /\ class'   = WithClass(d, classIdFor(c), rate)
  /\ filters' = WithFilters(d, a, classIdFor(c), rate)

\* Filters go by address; a class that a filter still uses cannot be deleted, and
\* the error is ignored.  Mutant: the class alone.
KeptAll(d, a) == filters
Kept(d, a) ==
  {f \in filters : f.addr # a \/ f.on \notin {device(d)} \union
                                   (IF d = "up" THEN {"ingress"} ELSE {})}

Unshape(d, c, a) ==
  /\ filters' = Kept(d, a)
  /\ class' = IF \E f \in Kept(d, a) : f.on = device(d) /\ f.to = classIdFor(c)
              THEN class ELSE [class EXCEPT ![d][classIdFor(c)] = 0]

\* The address that is cleared was read some steps ago: whoever has it by now
\* loses the filters, and its limit with them (a hole).
Robbed(r) == {c \in Limited \ {r.c} : addr[c] = r.addr}

Cleared(q, r) ==
  /\ req' = [Disturbed(Robbed(r)) EXCEPT ![q] = r]
  /\ missed' = missed \union Robbed(r)

ApplyDown(q) ==
  LET r == req[q] IN
  /\ r.at = "applyDown"
  /\ Shape("down", r.c, r.addr, r.lim["down"])
  /\ Go(q, [r EXCEPT !.at = "applyUp"])
  /\ UNCHANGED <<table, limit, again, missed, spent, fails>>

\* What is known of the client when a request on it ends: only a limit set in
\* both directions, or a clear, puts right what was wrong before.
Known(r, whole) ==
  IF ~r.clean THEN missed \union {r.c} ELSE IF whole THEN missed \ {r.c} ELSE missed

ApplyUp(q) ==
  LET r == req[q] IN
  /\ r.at = "applyUp"
  /\ Shape("up", r.c, r.addr, r.lim["up"])
  /\ missed' = Known(r, \A d \in Dirs : r.lim[d] > 0)
  /\ Go(q, Idle)
  /\ UNCHANGED <<table, limit, again, spent, fails>>

\* A command throws: the row stays.
ApplyFails(q) ==
  /\ req[q].at \in {"applyDown", "applyUp"} /\ Happens
  /\ missed' = missed \union {req[q].c}
  /\ Go(q, Idle)
  /\ UNCHANGED <<table, limit, kernel, again, spent>>

ClearDown(q) ==
  LET r == req[q] IN
  /\ r.at = "clearDown"
  /\ Unshape("down", r.c, r.addr)
  /\ Cleared(q, [r EXCEPT !.at = "clearUp"])
  /\ UNCHANGED <<table, limit, again, spent, fails>>

ClearUp(q) ==
  LET r == req[q] IN
  /\ r.at = "clearUp"
  /\ Unshape("up", r.c, r.addr)
  /\ Cleared(q, [r EXCEPT !.at = IF r.kind = "clear" THEN "drop" ELSE "upsert"])
  /\ UNCHANGED <<table, limit, again, spent, fails>>

Drop(q) ==
  LET r == req[q] IN
  /\ r.at = "drop"
  /\ limit' = [limit EXCEPT ![r.c] = IF r.kind = "clear" THEN Unlimited ELSE @]
  /\ missed' = Known(r, TRUE)
  /\ Go(q, Idle)
  /\ UNCHANGED <<table, kernel, again, spent, fails>>

(***************************************************************************)
(* Clients.                                                                *)
(***************************************************************************)

\* Ids are never given away again.
CreateRequest(c) ==
  /\ Starts /\ c \notin rows /\ addr[c] = 0
  /\ \A d \in Clients : d < c => addr[d] # 0
  /\ Free(range, {addr[d] : d \in rows}) # {}
  /\ rows' = rows \union {c} /\ enabled' = enabled \union {c}
  /\ addr' = [addr EXCEPT ![c] = nextIP(range, {addr[d] : d \in rows})]
  /\ UNCHANGED <<range, limit, kernel, req, again, missed, fails>>

\* The row of the limit goes with the client; nobody tells the kernel.
DeleteRequest(c) ==
  /\ Starts /\ c \in rows
  /\ rows' = rows \ {c} /\ enabled' = enabled \ {c}
  /\ limit' = [limit EXCEPT ![c] = Unlimited]
  /\ UNCHANGED <<range, addr, kernel, req, again, missed, fails>>

Toggle(c) ==
  /\ Starts /\ c \in rows
  /\ enabled' = IF c \in enabled THEN enabled \ {c} ELSE enabled \union {c}
  /\ UNCHANGED <<range, rows, addr, limit, kernel, req, again, missed, fails>>

\* Another address within the range, the server's and the broadcast address
\* included; it is free or the row is refused.
UpdateRequest(q, c, a) ==
  /\ c \in rows /\ a \in Within(range) \ {addr[d] : d \in rows}
  /\ Begin(q, [Idle EXCEPT !.at = "read", !.kind = "move", !.c = c], TRUE)
  /\ addr' = [addr EXCEPT ![c] = a]
  /\ UNCHANGED <<range, rows, enabled, limit, kernel, missed, fails>>

\* The limit the client has after the sync of the interface.  Mutant: the
\* limit is not applied again.
NotAgain(r) == Idle
Reapplied(r) ==
  IF limit[r.c] = Unlimited THEN Idle
  ELSE [r EXCEPT !.at = "find", !.lim = limit[r.c]]

Reread(q) ==
  /\ req[q].at = "read"
  /\ Go(q, Reapplied(req[q]))
  /\ missed' = IF /\ Reapplied(req[q]) = Idle
                  /\ ~req[q].clean \/ Leftover(req[q].c, addr[req[q].c])
               THEN missed \union {req[q].c} ELSE missed
  /\ UNCHANGED <<table, limit, kernel, again, spent, fails>>

\* setSpeedLimit with the limit that was read: it goes back into its row.
Upsert(q) ==
  LET r == req[q] IN
  /\ r.at = "upsert"
  /\ IF r.c \in rows
     THEN /\ limit' = [limit EXCEPT ![r.c] = r.lim]
          /\ Go(q, [r EXCEPT !.at = "find", !.kind = "put"])
     ELSE limit' = limit /\ Go(q, Idle)
  /\ UNCHANGED <<table, kernel, again, missed, spent, fails>>

\* Every client moves at once.  No limit follows its client: another hole.
Renumber(r, new) ==
  /\ Starts /\ r # range /\ new \in Moves(r, rows, addr) /\ Unique(rows, new)
  /\ range' = r
  /\ addr' = [c \in Clients |-> IF c \in rows THEN new[c] ELSE addr[c]]
  /\ req' = Disturbed(rows) /\ again' = [again EXCEPT !.clean = {}]
  /\ missed' = missed \union Limited \union {c \in rows : Leftover(c, new[c])}
  /\ UNCHANGED <<rows, enabled, limit, kernel, fails>>

(***************************************************************************)
(* The start of the engine.                                                *)
(***************************************************************************)

\* Limits of enabled clients only: one enabled later goes without (a hole).
\* Mutant: nothing is applied again.
NoneAgain == {}
ReapplyTo == Limited \intersect enabled

Reload ==
  /\ again' = [todo |-> ReapplyTo, lim |-> limit,
               addr |-> addr, clean |-> {c \in ReapplyTo : ~Busy(c)}]
  /\ missed' = missed \union (Limited \ enabled)
  /\ UNCHANGED <<table, limit, spent>>

\* The interface is made anew, and with it its classes and filters; the ifb
\* device stays.
Restart ==
  /\ Happens /\ again.todo = {}
  /\ filters' = {f \in filters : f.on = "ifb"}
  /\ class' = [class EXCEPT !["down"] = [k \in 1 .. Slots |-> 0]]
  /\ req' = Disturbed(Clients)
  /\ Reload

\* The process ends, the container starts again: nothing stays in the kernel.
Crash ==
  /\ Happens
  /\ filters' = {} /\ class' = [d \in Dirs |-> [k \in 1 .. Slots |-> 0]]
  /\ req' = [q \in Requests |-> Idle]
  /\ again' = [todo |-> ReapplyTo, lim |-> limit, addr |-> addr, clean |-> ReapplyTo]
  /\ missed' = Limited \ enabled
  /\ UNCHANGED <<table, limit, spent>>

\* One client of the loop; both directions are one step here.
ReapplyOne(c) ==
  LET k == classIdFor(c)  a == again.addr[c]  l == again.lim[c] IN
  /\ c \in again.todo
  /\ class' = [d \in Dirs |-> WithClass(d, k, l[d])[d]]
  /\ filters' = UNION {WithFilters(d, a, k, l[d]) : d \in Dirs}
  /\ missed' = IF c \in again.clean THEN missed ELSE missed \union {c}
  /\ again' = [again EXCEPT !.todo = @ \ {c}]
  /\ UNCHANGED <<table, limit, req, spent, fails>>

\* It throws; the loop logs the client and goes on.
ReapplyFails(c) ==
  /\ c \in again.todo /\ Happens
  /\ missed' = missed \union {c}
  /\ again' = [again EXCEPT !.todo = @ \ {c}]
  /\ UNCHANGED <<table, limit, kernel, req, spent>>

-----------------------------------------------------------------------------
Service(q) ==
  \/ Find(q) \/ ApplyDown(q) \/ ApplyUp(q) \/ ApplyFails(q)
  \/ ClearDown(q) \/ ClearUp(q) \/ Drop(q) \/ Reread(q) \/ Upsert(q)

Arrives(q, c) ==
  \/ \E l \in Limits : PutRequest(q, c, l)
  \/ ClearRequest(q, c)
  \/ \E a \in Within(range) : UpdateRequest(q, c, a)

Table(c) == CreateRequest(c) \/ DeleteRequest(c) \/ Toggle(c)

Next ==
  \/ \E q \in Requests : Service(q) \/ \E c \in Clients : Arrives(q, c)
  \/ \E c \in Clients : Table(c) \/ ReapplyOne(c) \/ ReapplyFails(c)
  \/ \E r \in Ranges : \E new \in Moves(r, rows, addr) : Renumber(r, new)
  \/ Restart \/ Crash

Spec == Init /\ [][Next]_vars

-----------------------------------------------------------------------------
(* Properties.                                                             *)

TypeOK ==
  /\ range \in Ranges /\ rows \subseteq Clients /\ enabled \subseteq rows
  /\ addr \in [Clients -> Nat] /\ limit \in [Clients -> [Dirs -> Nat]]
  /\ class \in [Dirs -> [1 .. Slots -> Nat]] /\ filters \subseteq Filter
  /\ req \in [Requests -> Request] /\ again \in Again
  /\ missed \subseteq Clients /\ spent \in Nat /\ fails \in Nat

\* What the kernel may do with the packets of an address: the rates of the classes
\* that the filters of the address send them to, none without a filter.
sentTo(d, a) == {f.to : f \in {g \in filters : g.on = device(d) /\ g.addr = a}}
ratesOf(d, a) ==
  IF \/ sentTo(d, a) = {}
     \/ d = "up" /\ [on |-> "ingress", addr |-> a, to |-> 0] \notin filters
  THEN {0} ELSE {class[d][k] : k \in sentTo(d, a)}

\* A filter that another client left behind when it moved or was deleted.
Inherited(c) ==
  \E f \in filters : f.addr = addr[c] /\ f.to \notin {0, classIdFor(c)}

\* A client nothing is under way for is shaped as its row says, in both
\* directions, unless one of the holes is open for it (missed) or it was given
\* an address whose filter the last holder left behind (speedLimitService.ts,
\* speedlimit.ts, the update handler and #reapplySpeedLimits).
Shaped ==
  \A c \in rows \ missed : ~Busy(c) /\ ~Inherited(c) =>
    \A d \in Dirs : ratesOf(d, addr[c]) = {limit[c][d]}

\* Clients have addresses of their own, within the range: an administrator who
\* sets one or changes the range cannot make two peers claim the same packets
\* (nextIP, update, updateCidr).
OwnAddresses ==
  /\ Unique(rows, addr)
  /\ \A c \in rows : addr[c] \in Within(range)

\* updateCidr never refuses a range that is apart from the addresses in use and
\* has room for the clients, although it moves them one by one.
RangeFits ==
  \A r \in Ranges :
    /\ \A c \in rows : addr[c] \notin Gives(r)
    /\ Cardinality(rows) <= Cardinality(Gives(r))
    => \E new \in Moves(r, rows, addr) : Unique(rows, new)
=============================================================================
