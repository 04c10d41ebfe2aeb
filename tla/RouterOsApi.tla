----------------------------- MODULE RouterOsApi -----------------------------
(* The connections to a router: the pool of the MikroTik engine, the         *)
(* transport it keeps there, and the protocol below it, which numbers the    *)
(* commands it sends with tags and hands the sentences that come back to the *)
(* caller that waits for their tag.  Calls of the engine overlap and share   *)
(* the connection; the router answers in any order; connections fail.        *)
EXTENDS Integers, FiniteSets

CONSTANTS
  Callers,      \* calls of the engine that may overlap
  Transports,   \* RouterOsApiTransport objects
  MaxTag,       \* bound on the commands of one connection
  MaxFails      \* bound on connections that fail

None == "none"

\* Assumed of the constants by the module that instantiates this one.
ApiAssumption ==
  /\ None \notin Callers /\ None \notin Transports
  /\ MaxTag \in Nat /\ MaxFails \in Nat

VARIABLES
  pool,      \* #pool of the engine: the transport of the router
  tr,        \* the transports, each with the protocol object it made
  call,      \* the callers
  asked,     \* commands on their way to the router
  answers,   \* sentences on their way back
  made,      \* history: what the router made of a caller's last command
  fails

vars == <<pool, tr, call, asked, answers, made, fails>>

\* protocol: the field of the transport is set; socket: that of its protocol
\* object, or of the one that is logging in.
Pending   == [tag : Nat, who : Callers, seen : SUBSET {"re", "trap"}]
Transport == [protocol : BOOLEAN, connecting : BOOLEAN,
              socket : {"none", "opening", "open"}, tag : Nat, pending : SUBSET Pending]
Fresh     == [protocol |-> FALSE, connecting |-> FALSE, socket |-> "none", tag |-> 0,
              pending |-> {}]

Ats    == {"idle", "close", "ready", "dial", "login", "wait", "done"}
Holds  == Ats \ {"idle", "close"}
Caller == [at : Ats, t : Transports \union {None}, got : Callers \union {None},
           rows : BOOLEAN]
Idle   == [at |-> "idle", t |-> None, got |-> None, rows |-> FALSE]

Asked   == [tag : Nat, of : Callers, login : BOOLEAN]
Answer  == [tag : Nat, of : Callers, next : {"re", "trap", "done"}]
Made    == [times : Nat, rows : BOOLEAN]
Nothing == [times |-> 0, rows |-> FALSE]

Init ==
  /\ pool = None /\ tr = [t \in Transports |-> Fresh]
  /\ call = [c \in Callers |-> Idle]
  /\ asked = [t \in Transports |-> {}] /\ answers = [t \in Transports |-> {}]
  /\ made = [c \in Callers |-> Nothing] /\ fails = 0

Wire == <<asked, answers, made>>

(***************************************************************************)
(* #getApi of the engine.                                                  *)
(***************************************************************************)

\* isConnected: the field is set, whatever its socket does.
isConnected(t) == tr[t].protocol

Holding(c, t) == call[c].at \in Holds /\ call[c].t = t
Held(t)       == \E c \in Callers : Holding(c, t)
\* An object that is garbage stands for a new one.
Unused(t) == ~Held(t) /\ tr[t].socket = "none" /\ (t = pool => ~tr[t].protocol)

NewTransport(c) ==
  \E t \in Transports :
    /\ Unused(t)
    /\ pool' = t /\ tr' = [tr EXCEPT ![t] = Fresh]
    /\ call' = [call EXCEPT ![c] = [Idle EXCEPT !.at = "ready", !.t = t]]

getApi(c) ==
  /\ call[c].at = "idle"
  /\ \/ pool = None /\ NewTransport(c)
     \/ /\ pool # None /\ isConnected(pool)
        /\ call' = [call EXCEPT ![c] = [Idle EXCEPT !.at = "ready", !.t = pool]]
        /\ UNCHANGED <<pool, tr>>
     \/ /\ pool # None /\ ~isConnected(pool)
        /\ call' = [call EXCEPT ![c] = [Idle EXCEPT !.at = "close"]]
        /\ UNCHANGED <<pool, tr>>
  /\ UNCHANGED <<Wire, fails>>

\* After close() of the stale entry, which has no protocol to close; another
\* caller may have put a new one in its place meanwhile.
Replace(c) ==
  /\ call[c].at = "close"
  /\ NewTransport(c)
  /\ UNCHANGED <<Wire, fails>>

(***************************************************************************)
(* write, print, set, remove and exec of the transport.                    *)
(***************************************************************************)

\* Mutant: the counter is not advanced.
SameTag(t) == tr[t].tag
NextTag(t) == tr[t].tag + 1

\* A tag that is already waited for loses its caller: pendingReplies is a map.
Await(t, c, k) ==
  {p \in tr[t].pending : p.tag # k} \union {[tag |-> k, who |-> c, seen |-> {}]}

send(t, c, isLogin) ==
  /\ tr' = [tr EXCEPT ![t].tag = NextTag(t), ![t].pending = Await(t, c, NextTag(t)),
                      ![t].socket = "open"]
  /\ asked' = [asked EXCEPT ![t] = @ \union {[tag |-> NextTag(t), of |-> c,
                                              login |-> isLogin]}]
  /\ call' = [call EXCEPT ![c] = [@ EXCEPT !.at = IF isLogin THEN "login" ELSE "wait",
                                           !.got = None, !.rows = FALSE]]
  /\ made' = [made EXCEPT ![c] = Nothing]

Command(c) ==
  LET t == call[c].t IN
  /\ call[c].at \in {"ready", "done"} /\ tr[t].protocol
  /\ tr[t].socket = "open" /\ tr[t].tag < MaxTag
  /\ send(t, c, FALSE)
  /\ UNCHANGED <<pool, answers, fails>>

\* send throws "Not connected"; the transport keeps its protocol.
NotConnected(c) ==
  LET t == call[c].t IN
  /\ call[c].at \in {"ready", "done"} /\ tr[t].protocol /\ tr[t].socket = "none"
  /\ call' = [call EXCEPT ![c] = Idle]
  /\ UNCHANGED <<pool, tr, Wire, fails>>

connect(c) ==
  LET t == call[c].t IN
  /\ call[c].at = "ready" /\ ~tr[t].protocol /\ ~tr[t].connecting
  /\ tr' = [tr EXCEPT ![t].connecting = TRUE, ![t].socket = "opening"]
  /\ call' = [call EXCEPT ![c].at = "dial"]
  /\ UNCHANGED <<pool, Wire, fails>>

login(c) ==
  /\ call[c].at = "dial"
  /\ send(call[c].t, c, TRUE)
  /\ UNCHANGED <<pool, answers, fails>>

DialFails(c) ==
  /\ call[c].at = "dial" /\ fails < MaxFails /\ fails' = fails + 1
  /\ tr' = [tr EXCEPT ![call[c].t].connecting = FALSE, ![call[c].t].socket = "none"]
  /\ call' = [call EXCEPT ![c] = Idle]
  /\ UNCHANGED <<pool, Wire>>

\* The engine's call needs no other command, or its connection is at the bound.
Return(c) ==
  /\ \/ call[c].at = "done"
     \/ call[c].at = "ready" /\ tr[call[c].t].tag = MaxTag
  /\ call' = [call EXCEPT ![c] = Idle]
  /\ UNCHANGED <<pool, tr, Wire, fails>>

(***************************************************************************)
(* The router and the connection.                                          *)
(***************************************************************************)

\* The router executes a command and answers with rows, with none, or with an
\* error; it takes no order among the commands.
Execute(t) ==
  /\ tr[t].socket = "open"
  /\ \E a \in asked[t], next \in {"re", "trap", "done"} :
       /\ next = "trap" /\ a.login => fails < MaxFails
       /\ fails' = IF next = "trap" /\ a.login THEN fails + 1 ELSE fails
       /\ asked' = [asked EXCEPT ![t] = @ \ {a}]
       /\ answers' = [answers EXCEPT ![t] =
                        @ \union {[tag |-> a.tag, of |-> a.of, next |-> next]}]
       /\ made' = [made EXCEPT ![a.of] =
                     [times |-> @.times + 1, rows |-> (next = "re")]]
  /\ UNCHANGED <<pool, tr, call>>

\* The connection is closed: the protocol forgets its socket and nothing else.
Close(t) ==
  /\ tr[t].socket = "open"
  /\ tr' = [tr EXCEPT ![t].socket = "none"]
  /\ asked' = [asked EXCEPT ![t] = {}] /\ answers' = [answers EXCEPT ![t] = {}]
  /\ UNCHANGED <<pool, call, made>>

Drop(t) == fails < MaxFails /\ fails' = fails + 1 /\ Close(t)

\* The router closes a connection on which the login failed.
Expel(t) == ~tr[t].protocol /\ ~tr[t].connecting /\ UNCHANGED fails /\ Close(t)

(***************************************************************************)
(* handleSentence of the protocol.                                         *)
(***************************************************************************)

\* The sentence that completes an answer; an error is followed by one too.
Final(next) == next = "done"

\* What comes after a sentence of an answer.  Mutant: the buffer still starts
\* with the same sentence.
SameAgain(a) == {a}
Later(a) == IF a.next = "done" THEN {} ELSE {[a EXCEPT !.next = "done"]}

\* The finally block of connect.  Mutant: without it.
NoFinally(p, was)  == was
Connecting(p, was) == was /\ call[p.who].at # "login"

\* How the caller goes on with a complete answer of the router.
Resumed(p, a) ==
  CASE call[p.who].at = "login" /\ "trap" \notin p.seen ->
         [call[p.who] EXCEPT !.at = "ready"]
    [] call[p.who].at = "wait" /\ "trap" \notin p.seen ->
         [call[p.who] EXCEPT !.at = "done", !.got = a.of, !.rows = "re" \in p.seen]
    [] OTHER -> Idle

\* A sentence whose tag is not pending would be dropped; nothing gives up a tag
\* before its last sentence, so there is none.
handleSentence(t) ==
  /\ tr[t].socket = "open"
  /\ \E a \in answers[t] :
       /\ answers' = [answers EXCEPT ![t] = (@ \ {a}) \union Later(a)]
       /\ \/ \E p \in tr[t].pending :
               /\ p.tag = a.tag /\ ~Final(a.next)
               /\ tr' = [tr EXCEPT ![t].pending =
                    (@ \ {p}) \union {[p EXCEPT !.seen = @ \union ({a.next} \ {"done"})]}]
               /\ UNCHANGED call
          \/ \E p \in tr[t].pending :
               /\ p.tag = a.tag /\ Final(a.next)
               /\ tr' = [tr EXCEPT
                    ![t].pending = @ \ {p},
                    ![t].connecting = Connecting(p, @),
                    ![t].protocol = @ \/ (call[p.who].at = "login" /\ "trap" \notin p.seen)]
               /\ call' = [call EXCEPT ![p.who] = Resumed(p, a)]
  /\ UNCHANGED <<pool, asked, made, fails>>

\* No timer and no close event ends a wait: the call hangs, and its caller
\* stands for the next call from here on.
Hang(c) ==
  /\ call[c].at \in {"login", "wait"} /\ tr[call[c].t].socket = "none"
  /\ call' = [call EXCEPT ![c] = Idle]
  /\ UNCHANGED <<pool, tr, Wire, fails>>

Go(c) ==
  \/ getApi(c) \/ Replace(c) \/ Command(c) \/ NotConnected(c) \/ connect(c) \/ login(c)
  \/ Return(c) \/ Hang(c)

Net(t) == Execute(t) \/ handleSentence(t)

Next ==
  \/ \E c \in Callers : Go(c) \/ DialFails(c)
  \/ \E t \in Transports : Net(t) \/ Drop(t) \/ Expel(t)

Spec == Init /\ [][Next]_vars

\* The engine goes on calling, the router answers, and the event loop delivers.
Fairness ==
  /\ \A c \in Callers : WF_vars(Go(c))
  /\ \A t \in Transports : WF_vars(Net(t))

FairSpec == Spec /\ Fairness

-----------------------------------------------------------------------------
(* Properties.                                                             *)

\* Shapes; a transport connects only before it has a protocol, and waits for no
\* tag it has not used.
TypeOK ==
  /\ \A t \in Transports :
       /\ tr[t].protocol => ~tr[t].connecting
       /\ \A p \in tr[t].pending : p.tag <= tr[t].tag
  /\ pool \in Transports \union {None} /\ tr \in [Transports -> Transport]
  /\ call \in [Callers -> Caller] /\ asked \in [Transports -> SUBSET Asked]
  /\ answers \in [Transports -> SUBSET Answer] /\ made \in [Callers -> Made]
  /\ fails \in Nat

\* A call that returns has the whole answer to its own command, which the router
\* executed once, however many calls share the connection (protocol send,
\* handleSentence).
OwnAnswer ==
  \A c \in Callers : call[c].at = "done" =>
    call[c].got = c /\ made[c].times = 1 /\ call[c].rows = made[c].rows

\* A command is answered as long as its connection lives: no sentence is lost
\* and no answer is left incomplete.
Waits(c)  == call[c].at \in {"login", "wait"} /\ tr[call[c].t].socket = "open"
Answered  == \A c \in Callers : Waits(c) ~> ~Waits(c)
=============================================================================
