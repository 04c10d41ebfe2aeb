-------------------------- MODULE RouterSetupProofs --------------------------
(***************************************************************************)
(* For any number of routers and of overlapping requests: the interface    *)
(* never refers to a router that is gone nor is bound to one that a wizard *)
(* provisioned by half; and, if the administrator does not overlap the     *)
(* requests that change routers, no router gets two objects of a kind and  *)
(* every obfuscator is accounted for, whatever fails and wherever requests *)
(* are cut short.                                                          *)
(***************************************************************************)
EXTENDS RouterSetup, SequenceTheorems, TLAPS

\* Commands of any request, and of those that do not add or remove objects.
Made    == Things \ {"service", "key"}
Clean   == {c \in Command : c[1] \in {"ensure", "remove"} => c[2] \in Made}
Passive == {c \in Command : c[1] \in {"run", "db"}}

-----------------------------------------------------------------------------
(* The sequences of commands.                                              *)

LEMMA CleanSteps ==
    /\ \A t \in Made : <<"ensure", t>> \in Clean /\ <<"remove", t>> \in Clean
    /\ \A w \in Things \union Others : <<"run", w>> \in Clean /\ <<"db", w>> \in Clean
    /\ \A w \in Things \union Others : <<"run", w>> \in Passive /\ <<"db", w>> \in Passive
BY DEF Clean, Passive, Command, Made

LEMMA EachSteps ==
    ASSUME NEW do \in {"ensure", "remove"}, NEW things \in Seq(Made)
    PROVE  /\ Each(do, things) \in Seq(Clean)
           /\ Len(things) > 0 => Each(do, things) # <<>>
<1> DEFINE n == Len(things)
<1>1. DOMAIN things = 1..n /\ n \in Nat /\ \A i \in 1..n : things[i] \in Made
  OBVIOUS
<1>2. Each(do, things) = [i \in 1..n |-> <<do, things[i]>>]
  BY <1>1 DEF Each
<1>3. \A i \in 1..n : <<do, things[i]>> \in Clean
  BY <1>1, CleanSteps
<1>4. Each(do, things) \in [1..n -> Clean]
  BY <1>2, <1>3
<1>5. Each(do, things) \in Seq(Clean)
  BY <1>1, <1>4
<1>6. Len(Each(do, things)) = n
  BY <1>1, <1>2
<1>7. Len(<<>>) = 0
  OBVIOUS
<1>8. n > 0 => Each(do, things) # <<>>
  BY <1>1, <1>6, <1>7
<1> QED BY <1>5, <1>8

LEMMA Joined ==
    ASSUME NEW s \in Seq(Clean), NEW t \in Seq(Clean)
    PROVE  s \o t \in Seq(Clean) /\ (s # <<>> \/ t # <<>> => s \o t # <<>>)
BY ConcatProperties, ConcatEqualIffEmpty

LEMMA Names ==
    /\ {"interface", "address", "input", "masquerade", "user", "ca", "server"} \subseteq Made
    /\ {"veth", "vethAddress", "mount", "container", "file", "dstnat"} \subseteq Made
BY DEF Made, Things, Sidecar

LEMMA OtherNames ==
    {"sign", "start", "test", "persist", "activate", "writeHost", "storeHost",
     "storeRouter", "removeHost", "deleteRow", "deleteRouter", "service", "key"}
      \subseteq Things \union Others
BY DEF Things, Others

LEMMA SomeSteps ==
    /\ ClosingSteps \in Seq(Clean) /\ ClosingSteps # <<>>
    /\ ServerSteps \in Seq(Clean) /\ ServerSteps # <<>>
    /\ BootstrapSteps \in Seq(Clean) /\ BootstrapSteps # <<>>
    /\ DeploySteps \in Seq(Clean) /\ DeploySteps # <<>>
    /\ RemoveSteps \in Seq(Clean) /\ RemoveSteps # <<>>
<1> DEFINE objects == <<"interface", "address", "input", "masquerade", "user", "ca">>
           parts   == <<"veth", "vethAddress", "mount", "container", "file">>
           back    == <<"container", "mount", "dstnat", "veth", "vethAddress", "file">>
           sign    == <<<<"run", "sign">>>>
           server  == <<<<"ensure", "server">>, <<"run", "sign">>>>
           last    == <<<<"run", "start">>, <<"ensure", "dstnat">>>>
<1>1. /\ objects \in Seq(Made) /\ Len(objects) = 6
      /\ parts \in Seq(Made) /\ Len(parts) = 5
      /\ back \in Seq(Made) /\ Len(back) = 6
  BY Names
<1>2. /\ <<"run", "sign">> \in Clean /\ <<"run", "service">> \in Clean
      /\ <<"db", "persist">> \in Clean /\ <<"run", "test">> \in Clean
      /\ <<"db", "activate">> \in Clean /\ <<"ensure", "server">> \in Clean
      /\ <<"run", "start">> \in Clean /\ <<"ensure", "dstnat">> \in Clean
  BY CleanSteps, Names, OtherNames
<1>3. ClosingSteps \in Seq(Clean) /\ ClosingSteps # <<>>
  BY <1>2 DEF ClosingSteps
<1>4. sign \in Seq(Clean) /\ server \in Seq(Clean) /\ last \in Seq(Clean) /\ server # <<>>
  BY <1>2
<1>5. /\ ServerSteps = server \o ClosingSteps
      /\ BootstrapSteps = (Each("ensure", objects) \o sign) \o ServerSteps
      /\ DeploySteps = Each("ensure", parts) \o last
      /\ RemoveSteps = Each("remove", back)
  BY DEF ServerSteps, BootstrapSteps, DeploySteps, RemoveSteps
<1> HIDE DEF objects, parts, back, sign, server, last
<1>6. /\ Each("ensure", objects) \in Seq(Clean) /\ Each("ensure", objects) # <<>>
      /\ Each("ensure", parts) \in Seq(Clean) /\ Each("ensure", parts) # <<>>
      /\ Each("remove", back) \in Seq(Clean) /\ Each("remove", back) # <<>>
  <2>1. 6 > 0 /\ 5 > 0
    OBVIOUS
  <2>2. Each("ensure", objects) \in Seq(Clean) /\ Each("ensure", objects) # <<>>
    BY <1>1, <2>1, EachSteps
  <2>3. Each("ensure", parts) \in Seq(Clean) /\ Each("ensure", parts) # <<>>
    BY <1>1, <2>1, EachSteps
  <2>4. Each("remove", back) \in Seq(Clean) /\ Each("remove", back) # <<>>
    BY <1>1, <2>1, EachSteps
  <2> QED BY <2>2, <2>3, <2>4
<1>7. ServerSteps \in Seq(Clean) /\ ServerSteps # <<>>
  BY <1>3, <1>4, <1>5, Joined
<1>8. Each("ensure", objects) \o sign \in Seq(Clean)
  BY <1>4, <1>6, Joined
<1>9. BootstrapSteps \in Seq(Clean) /\ BootstrapSteps # <<>>
  BY <1>5, <1>7, <1>8, Joined
<1>10. DeploySteps \in Seq(Clean) /\ DeploySteps # <<>>
  BY <1>4, <1>5, <1>6, Joined
<1> QED BY <1>3, <1>5, <1>6, <1>7, <1>9, <1>10

LEMMA DbStep ==
    ASSUME NEW w \in Things \union Others
    PROVE  <<<<"db", w>>>> \in Seq(Clean) /\ <<<<"db", w>>>> \in Seq(Passive)
<1>1. <<"db", w>> \in Clean /\ <<"db", w>> \in Passive
  BY CleanSteps
<1> QED BY <1>1

LEMMA CleanCommands ==
    /\ Seq(Clean) \subseteq Seq(Command)
    /\ \A c \in Clean : c \in Command /\ (c[1] \in {"ensure", "remove"} => c[2] \in Made)
    /\ \A c \in Passive : c \in Command /\ c[1] \notin {"ensure", "remove"}
<1>1. Clean \subseteq Command
  BY DEF Clean
<1>2. Seq(Clean) \subseteq Seq(Command)
  BY <1>1
<1> QED BY <1>2 DEF Clean, Passive

-----------------------------------------------------------------------------
(* Requests: one that is over has no commands; one that may add or remove  *)
(* objects is about a router, and one that may not has passive commands.   *)
Kinds == Changing \union {None, "activate", "delete", "restart"}
Works == [kind : Kinds, router : Routers \union {Self}, todo : Seq(Clean),
          seen : BOOLEAN, found : Nat, old : Modes, key : BOOLEAN]
Sound == {q \in Works : /\ q.todo = <<>> <=> q.kind = None
                        /\ q.kind \notin Changing => q.todo \in Seq(Passive)
                        /\ q.kind \in Changing => q.router \in Routers}

Typed ==
  /\ row \in [Routers -> Row] /\ bound \in Routers \union {Self}
  /\ config \in Modes /\ hostFile \in BOOLEAN
  /\ device \in [Routers -> [Things -> Nat]]
  /\ forgotten \subseteq Routers \union {Host}
  /\ {requests, fails, crashes} \subseteq Nat

Shape == Typed /\ job \in [Jobs -> Sound]

LEMMA IdleSound == Idle \in Sound
<1>1. <<>> \in Seq(Clean) /\ <<>> \in Seq(Passive)
  OBVIOUS
<1>2. Idle \in Works
  BY <1>1 DEF Idle, Works, Kinds, Modes
<1> QED BY <1>1, <1>2 DEF Idle, Sound, None, Changing

LEMMA RequestSound ==
    ASSUME NEW kind \in Kinds \ {None}, NEW r \in Routers \union {Self},
           NEW todo \in Seq(Clean), todo # <<>>, config \in Modes,
           kind \notin Changing => todo \in Seq(Passive),
           kind \in Changing => r \in Routers, NEW k \in BOOLEAN
    PROVE  Request(kind, r, todo) \in Sound /\ [Request(kind, r, todo) EXCEPT !.key = k] \in Sound
<1>1. Request(kind, r, todo) \in Works
  BY DEF Request, Works
<1>2. [Request(kind, r, todo) EXCEPT !.key = k] \in Works
  BY DEF Request, Works
<1>3. Request(kind, r, todo) \in Sound
  BY <1>1 DEF Request, Sound
<1>4. [Request(kind, r, todo) EXCEPT !.key = k] \in Sound
  BY <1>2 DEF Request, Sound
<1> QED BY <1>3, <1>4

LEMMA SoundIsTyped == Shape => TypeOK
<1> SUFFICES ASSUME Shape PROVE TypeOK
  OBVIOUS
<1>1. \A q \in Sound : q.todo = <<>> <=> q.kind = None
  BY DEF Sound
<1>2. Sound \subseteq [kind : Kinds, router : Routers \union {Self}, todo : Seq(Command),
                       seen : BOOLEAN, found : Nat, old : Modes, key : BOOLEAN]
  BY CleanCommands DEF Sound, Works
<1> QED BY <1>1, <1>2 DEF Shape, Typed, TypeOK, Kinds

LEMMA Rest ==
    ASSUME Shape, NEW j \in Jobs, job[j].todo # <<>>
    PROVE  /\ Tail(job[j].todo) \in Seq(Clean) /\ Current(j) \in Clean
           /\ job[j].kind \notin Changing =>
                Tail(job[j].todo) \in Seq(Passive) /\ Current(j) \in Passive
<1>1. job[j].todo \in Seq(Clean)
  BY DEF Shape, Sound, Works
<1>2. job[j].kind \notin Changing => job[j].todo \in Seq(Passive)
  BY DEF Shape, Sound
<1>3. Tail(job[j].todo) \in Seq(Clean) /\ job[j].todo[1] \in Clean
  BY <1>1, HeadTailProperties
<1>4. job[j].kind \notin Changing =>
        Tail(job[j].todo) \in Seq(Passive) /\ job[j].todo[1] \in Passive
  BY <1>2, HeadTailProperties
<1> QED BY <1>3, <1>4 DEF Current

LEMMA Advanced ==
    ASSUME Shape, NEW j \in Jobs, NEW todo \in Seq(Clean), Advance(j, todo), Running(j),
           job[j].kind \notin Changing => todo \in Seq(Passive)
    PROVE  job' \in [Jobs -> Sound]
<1> DEFINE q == [job[j] EXCEPT !.todo = todo, !.seen = FALSE, !.found = 0]
<1>1. job[j] \in Works /\ job[j].kind # None
  BY DEF Shape, Sound, Running
<1>2. q \in Works /\ q.kind = job[j].kind /\ q.todo = todo
      /\ q.router = job[j].router
  BY <1>1 DEF Works
<1>3. todo # <<>> => q \in Sound
  <2>1. job[j].kind \in Changing => job[j].router \in Routers
    BY DEF Shape, Sound
  <2> HIDE DEF q
  <2> QED BY <1>1, <1>2, <2>1 DEF Sound
<1>4. job' = [job EXCEPT ![j] = IF todo = <<>> THEN Idle ELSE q]
  BY DEF Advance
<1> HIDE DEF q
<1>5. (IF todo = <<>> THEN Idle ELSE q) \in Sound
  BY <1>3, IdleSound
<1> QED BY <1>4, <1>5 DEF Shape

\* The request goes on, or stops.
LEMMA GoesOnOrStops ==
    ASSUME Shape, NEW j \in Jobs, Running(j)
    PROVE  /\ Advance(j, <<>>) => job' \in [Jobs -> Sound]
           /\ job[j].todo # <<>> /\ Advance(j, Tail(job[j].todo)) => job' \in [Jobs -> Sound]
<1>1. <<>> \in Seq(Clean) /\ <<>> \in Seq(Passive)
  OBVIOUS
<1>2. ASSUME Advance(j, <<>>) PROVE job' \in [Jobs -> Sound]
  BY <1>1, <1>2, Advanced
<1>3. ASSUME job[j].todo # <<>>, Advance(j, Tail(job[j].todo)) PROVE job' \in [Jobs -> Sound]
  BY <1>3, Rest, Advanced
<1> QED BY <1>2, <1>3

LEMMA Busy ==
    ASSUME Shape, NEW j \in Jobs, job[j].todo # <<>>
    PROVE  Running(j)
BY DEF Shape, Sound, Running

-----------------------------------------------------------------------------
(* What a command does to the objects of a router.                         *)
LEMMA CountBounds ==
    ASSUME NEW j \in Jobs, NEW t \in Things, NEW n \in Nat
    PROVE  /\ Count(j, t, n) \in Nat
           /\ n <= 1 /\ (At(j, "ensure") /\ job[j].found = 0 => n = 0) => Count(j, t, n) <= 1
           /\ ~At(j, "ensure") /\ ~At(j, "remove") /\ t \in Made => Count(j, t, n) = n
<1>1. CASE At(j, "ensure")
  BY <1>1 DEF Count
<1>2. CASE ~At(j, "ensure") /\ At(j, "remove")
  BY <1>2 DEF Count
<1>3. CASE ~At(j, "ensure") /\ ~At(j, "remove")
  BY <1>3 DEF Count, Made
<1> QED BY <1>1, <1>2, <1>3

LEMMA EffectIs ==
    ASSUME Shape, NEW j \in Jobs
    PROVE  /\ Effect(j) \in [Routers -> [Things -> Nat]]
           /\ \A r \in Routers, t \in Things :
                \/ Effect(j)[r][t] = device[r][t]
                \/ /\ r = job[j].router /\ t = Current(j)[2]
                   /\ Effect(j)[r][t] = Count(j, t, device[r][t])
<1>1. CASE Effect(j) = device
  BY <1>1 DEF Shape, Typed
<1>2. CASE Effect(j) # device
  <2> DEFINE r0 == job[j].router
             t0 == Current(j)[2]
  <2>1. Effect(j) = [device EXCEPT ![r0][t0] = Count(j, t0, @)] /\ t0 \in Things
    BY <1>2 DEF Effect
  <2>2. device \in [Routers -> [Things -> Nat]]
    BY DEF Shape, Typed
  <2>3. \A r \in Routers, t \in Things : Count(j, t, device[r][t]) \in Nat
    BY <2>2, CountBounds
  <2> HIDE DEF r0, t0
  <2> DEFINE C(t, n) == Count(j, t, n)
  <2>4. Effect(j) = [device EXCEPT ![r0][t0] = C(t0, device[r0][t0])]
    BY <2>1
  <2>5. \A r \in Routers, t \in Things : C(t, device[r][t]) \in Nat
    BY <2>3
  <2> HIDE DEF C
  <2>6. Effect(j) \in [Routers -> [Things -> Nat]]
    <3>1. CASE r0 \in Routers
      <4> DEFINE f == [device[r0] EXCEPT ![t0] = C(t0, device[r0][t0])]
      <4>1. f \in [Things -> Nat]
        BY <3>1, <2>1, <2>2, <2>5
      <4>2. Effect(j) = [device EXCEPT ![r0] = f]
        BY <2>4
      <4> HIDE DEF f
      <4> QED BY <4>1, <4>2, <2>2
    <3>2. CASE r0 \notin Routers
      BY <3>2, <2>2, <2>4
    <3> QED BY <3>1, <3>2
  <2>7. \A r \in Routers, t \in Things :
          \/ Effect(j)[r][t] = device[r][t]
          \/ r = r0 /\ t = t0 /\ Effect(j)[r][t] = C(t, device[r][t])
    BY <2>1, <2>2, <2>4
  <2> QED BY <2>6, <2>7 DEF r0, t0, C
<1> QED BY <1>1, <1>2

-----------------------------------------------------------------------------
(* Shape is an invariant.                                                  *)
LEMMA ShapeInit == Init => Shape
<1> SUFFICES ASSUME Init PROVE Shape
  OBVIOUS
<1>1. job \in [Jobs -> Sound]
  BY IdleSound DEF Init
<1>2. row \in [Routers -> Row]
  <2>1. [present |-> TRUE, opens |-> TRUE] \in Row
    BY DEF Row
  <2> QED BY <2>1 DEF Init
<1>3. device \in [Routers -> [Things -> Nat]]
  BY DEF Init
<1>4. hostFile \in BOOLEAN
  BY Zenon DEF Init
<1>5. {requests, fails, crashes} \subseteq Nat
  BY DEF Init
<1>6. Typed
  BY <1>2, <1>3, <1>4, <1>5 DEF Init, Typed, Modes
<1> QED BY <1>1, <1>6 DEF Shape

\* A request that is accepted.
LEMMA Started ==
    ASSUME Shape, NEW j \in Jobs, NEW q \in Sound, Start(j, q)
    PROVE  Shape'
<1>1. job' \in [Jobs -> Sound]
  BY DEF Start, Shape
<1>2. Typed'
  BY DEF Start, Shape, Typed, Tables
<1> QED BY <1>1, <1>2 DEF Shape

LEMMA RequestsKeepShape ==
    ASSUME Shape, NEW j \in Jobs
    PROVE  /\ Bootstrap(j) => Shape'
           /\ HostMode(j) => Shape'
           /\ RouterMode(j) => Shape'
           /\ Disable(j) => Shape'
           /\ ActivateRequest(j) => Shape'
           /\ DeleteRequest(j) => Shape'
           /\ RestartRequest(j) => Shape'
<1>1. config \in Modes /\ bound \in Routers \union {Self}
  BY DEF Shape, Typed
<1>2. /\ {"bootstrap", "host", "router", "disable"} \subseteq Changing
      /\ {"bootstrap", "host", "router", "disable", "activate", "delete", "restart"}
           \subseteq Kinds \ {None}
      /\ {"activate", "delete", "restart"} \intersect Changing = {}
  BY DEF Kinds, Changing, None
<1>3. \A w \in {"writeHost", "storeHost", "storeRouter", "removeHost", "deleteRow",
                "activate", "deleteRouter"} :
        <<<<"db", w>>>> \in Seq(Clean) /\ <<<<"db", w>>>> \in Seq(Passive)
  BY DbStep, OtherNames
<1>4. <<>> \in Seq(Clean)
  OBVIOUS
<1>5. ASSUME Bootstrap(j) PROVE Shape'
  <2>1. PICK r \in Routers, key \in BOOLEAN :
          Start(j, [Request("bootstrap", r, BootstrapSteps) EXCEPT !.key = key])
    BY <1>5 DEF Bootstrap
  <2>2. [Request("bootstrap", r, BootstrapSteps) EXCEPT !.key = key] \in Sound
    BY <1>1, <1>2, SomeSteps, RequestSound
  <2> QED BY <2>1, <2>2, Started
<1>6. ASSUME HostMode(j) PROVE Shape'
  <2> DEFINE rest == IF config = "router" THEN RemoveSteps ELSE <<>>
             todo == <<<<"db", "writeHost">>, <<"db", "storeHost">>>> \o rest
  <2>1. <<"db", "writeHost">> \in Clean /\ <<"db", "storeHost">> \in Clean
    BY CleanSteps, OtherNames
  <2>2. /\ <<<<"db", "writeHost">>, <<"db", "storeHost">>>> \in Seq(Clean)
        /\ <<<<"db", "writeHost">>, <<"db", "storeHost">>>> # <<>>
    BY <2>1
  <2>3. todo \in Seq(Clean) /\ todo # <<>>
    BY <2>2, <1>4, SomeSteps, Joined
  <2>4. Start(j, Request("host", bound, todo)) /\ bound \in Routers
    BY <1>6 DEF HostMode
  <2> HIDE DEF todo
  <2>5. Request("host", bound, todo) \in Sound
    BY <1>1, <1>2, <2>3, <2>4, RequestSound
  <2> QED BY <2>4, <2>5, Started
<1>7. ASSUME RouterMode(j) PROVE Shape'
  <2> DEFINE rest == IF config = Host THEN <<<<"db", "removeHost">>>> ELSE <<>>
             todo(deploy) == deploy \o <<<<"db", "storeRouter">>>> \o rest
  <2>1. PICK deploy \in {DeploySteps, <<>>} : 
          Start(j, Request("router", bound, todo(deploy))) /\ bound \in Routers
    BY <1>7 DEF RouterMode
  <2>2. deploy \in Seq(Clean) /\ rest \in Seq(Clean)
    BY <1>3, <1>4, SomeSteps
  <2>3. <<<<"db", "storeRouter">>>> \in Seq(Clean) /\ <<<<"db", "storeRouter">>>> # <<>>
    BY <1>3
  <2>4. /\ deploy \o <<<<"db", "storeRouter">>>> \in Seq(Clean)
        /\ deploy \o <<<<"db", "storeRouter">>>> # <<>>
    BY <2>2, <2>3, Joined
  <2>5. todo(deploy) \in Seq(Clean) /\ todo(deploy) # <<>>
    BY <2>2, <2>4, Joined
  <2> HIDE DEF todo
  <2>6. Request("router", bound, todo(deploy)) \in Sound
    BY <1>1, <1>2, <2>1, <2>5, RequestSound
  <2> QED BY <2>1, <2>6, Started
<1>8. ASSUME Disable(j) PROVE Shape'
  <2> DEFINE todo == IF config = Host THEN <<<<"db", "removeHost">>, <<"db", "deleteRow">>>>
                                      ELSE RouterGone
  <2>1. <<"db", "removeHost">> \in Clean /\ <<"db", "deleteRow">> \in Clean
    BY CleanSteps, OtherNames
  <2>2. RouterGone \in Seq(Clean) /\ RouterGone # <<>>
    BY <1>3, SomeSteps, Joined DEF RouterGone
  <2>3. todo \in Seq(Clean) /\ todo # <<>>
    BY <2>1, <2>2
  <2>4. Start(j, Request("disable", bound, todo)) /\ bound \in Routers
    BY <1>8 DEF Disable
  <2> HIDE DEF todo
  <2>5. Request("disable", bound, todo) \in Sound
    BY <1>1, <1>2, <2>3, <2>4, RequestSound
  <2> QED BY <2>4, <2>5, Started
<1>9. ASSUME ActivateRequest(j) PROVE Shape'
  <2>1. PICK r \in Routers \union {Self} :
          Start(j, Request("activate", r, <<<<"db", "activate">>>>))
    BY <1>9 DEF ActivateRequest
  <2>2. <<<<"db", "activate">>>> # <<>>
    OBVIOUS
  <2>3. Request("activate", r, <<<<"db", "activate">>>>) \in Sound
    BY <1>1, <1>2, <1>3, <2>2, RequestSound
  <2> QED BY <2>1, <2>3, Started
<1>10. ASSUME DeleteRequest(j) PROVE Shape'
  <2>1. PICK r \in Routers : Start(j, Request("delete", r, <<<<"db", "deleteRouter">>>>))
    BY <1>10 DEF DeleteRequest
  <2>2. <<<<"db", "deleteRouter">>>> # <<>>
    OBVIOUS
  <2>3. Request("delete", r, <<<<"db", "deleteRouter">>>>) \in Sound
    BY <1>1, <1>2, <1>3, <2>2, RequestSound
  <2> QED BY <2>1, <2>3, Started
<1>11. ASSUME RestartRequest(j) PROVE Shape'
  <2>1. <<"run", "key">> \in Clean /\ <<"run", "key">> \in Passive
    BY CleanSteps DEF Things
  <2>2. /\ <<<<"run", "key">>>> \in Seq(Clean) /\ <<<<"run", "key">>>> \in Seq(Passive)
        /\ <<<<"run", "key">>>> # <<>>
    BY <2>1
  <2>3. Request("restart", bound, <<<<"run", "key">>>>) \in Sound
    BY <1>1, <1>2, <2>2, RequestSound
  <2>4. Start(j, Request("restart", bound, <<<<"run", "key">>>>))
    BY <1>11 DEF RestartRequest
  <2> QED BY <2>3, <2>4, Started
<1> QED BY <1>5, <1>6, <1>7, <1>8, <1>9, <1>10, <1>11

LEMMA CommandsKeepShape ==
    ASSUME Shape, NEW j \in Jobs
    PROVE  /\ Look(j) => Shape'
           /\ Execute(j) => Shape'
           /\ Fail(j) => Shape'
           /\ Persist(j) => Shape'
           /\ Bind(j) => Shape'
           /\ DeleteRouter(j) => Shape'
           /\ WriteHost(j) => Shape'
           /\ StoreMode(j) => Shape'
           /\ RemoveHost(j) => Shape'
           /\ DeleteRow(j) => Shape'
<1>1. ASSUME NEW do, At(j, do)
      PROVE  job[j].todo # <<>> /\ Running(j)
  BY <1>1, Busy DEF At
<1>2. job[j] \in Sound /\ job[j] \in Works
  BY DEF Shape, Sound
<1>3. Aborts(j) \subseteq Routers \union {Host}
  BY <1>2 DEF Aborts, Sound, Changing, Host
<1>4. Effect(j) \in [Routers -> [Things -> Nat]]
  BY EffectIs
<1>5. ASSUME Look(j) PROVE Shape'
  <2>1. (At(j, "ensure") \/ At(j, "remove")) /\ job[j].todo # <<>> /\ Running(j)
    BY <1>5, <1>1 DEF Look
  <2>2. job[j].kind \in Changing
    BY <2>1, Rest, CleanCommands DEF At
  <2>3. SkipTo(j) \in Seq(Clean)
    BY <2>1, SomeSteps, Rest DEF SkipTo
  <2>4. ASSUME Advance(j, SkipTo(j)) PROVE job' \in [Jobs -> Sound]
    BY <2>1, <2>2, <2>3, <2>4, Advanced
  <2> DEFINE n == Found(job[j].router, Current(j)[2])
  <2>5. ASSUME job' = [job EXCEPT ![j].seen = TRUE, ![j].found = n]
        PROVE  job' \in [Jobs -> Sound]
    <3> DEFINE q == [job[j] EXCEPT !.seen = TRUE, !.found = n]
    <3>1. job[j].router \in Routers
      BY <1>2, <2>2 DEF Sound
    <3>2. Current(j)[2] \in Things
      BY <2>1, Rest, CleanCommands DEF At, Made
    <3>3. n \in Nat
      BY <3>1, <3>2 DEF Found, Shape, Typed
    <3>4. /\ q \in Works /\ q.kind = job[j].kind /\ q.todo = job[j].todo
          /\ q.router = job[j].router
      BY <1>2, <3>3 DEF Works
    <3>5. q \in Sound
      BY <1>2, <3>4 DEF Sound
    <3>6. job' = [job EXCEPT ![j] = q]
      BY <2>5 DEF Shape
    <3> HIDE DEF q
    <3> QED BY <3>5, <3>6 DEF Shape
  <2>6. job' \in [Jobs -> Sound]
    BY <1>5, <2>4, <2>5 DEF Look
  <2>7. Typed'
    BY <1>5 DEF Look, Shape, Typed, Tables, Bounds
  <2> QED BY <2>6, <2>7 DEF Shape
<1>6. ASSUME Execute(j) PROVE Shape'
  <2>1. job' \in [Jobs -> Sound]
    BY <1>6, GoesOnOrStops DEF Execute
  <2>2. Typed'
    BY <1>4, <1>6 DEF Execute, Shape, Typed, Tables, Bounds
  <2> QED BY <2>1, <2>2 DEF Shape
<1>7. ASSUME Fail(j) PROVE Shape'
  <2>1. job[j].todo # <<>> /\ Running(j)
    BY <1>7, <1>1 DEF Fail
  <2>2. job' \in [Jobs -> Sound]
    BY <1>7, <2>1, GoesOnOrStops DEF Fail, StopsHere
  <2>3. device' \in [Routers -> [Things -> Nat]]
    BY <1>4, <1>7 DEF Fail, Shape, Typed
  <2>4. fails' \in Nat
    BY <1>7 DEF Fail, Shape, Typed
  <2>5. Typed'
    BY <1>3, <1>7, <2>3, <2>4 DEF Fail, Shape, Typed, Tables
  <2> QED BY <2>2, <2>5 DEF Shape
<1>8. ASSUME Persist(j) PROVE Shape'
  <2>1. job' \in [Jobs -> Sound]
    BY <1>8, <1>1, GoesOnOrStops DEF Persist, Is
  <2> DEFINE r0 == job[j].router
             v  == IF row[r0].present THEN job[j].key ELSE row[r0].opens
  <2>2. row' \in [Routers -> Row]
    <3>1. row' = [row EXCEPT ![r0] = [@ EXCEPT !.opens = v]]
      BY <1>8 DEF Persist
    <3>2. row \in [Routers -> Row] /\ job[j].key \in BOOLEAN
      BY <1>2 DEF Shape, Typed, Works
    <3>3. ASSUME r0 \in Routers PROVE [row[r0] EXCEPT !.opens = v] \in Row
      BY <3>2, <3>3 DEF Row
    <3> HIDE DEF v, r0
    <3> QED BY <3>1, <3>2, <3>3
  <2>3. Typed'
    BY <1>8, <2>2 DEF Persist, Shape, Typed, Bounds
  <2> QED BY <2>1, <2>3 DEF Shape
<1>9. ASSUME Bind(j) PROVE Shape'
  <2>1. job' \in [Jobs -> Sound]
    BY <1>9, <1>1, GoesOnOrStops DEF Bind, Is
  <2>2. bound' \in Routers \union {Self} /\ forgotten' \subseteq Routers \union {Host}
    BY <1>2, <1>9 DEF Bind, Shape, Typed, Works
  <2>3. Typed'
    BY <1>9, <2>2 DEF Bind, Shape, Typed, Bounds
  <2> QED BY <2>1, <2>3 DEF Shape
<1>10. ASSUME DeleteRouter(j) PROVE Shape'
  <2>1. job' \in [Jobs -> Sound]
    BY <1>10, <1>1, GoesOnOrStops DEF DeleteRouter, Is
  <2> DEFINE r0 == job[j].router
             v  == ~Free(r0)
  <2>2. row' \in [Routers -> Row]
    <3>1. row' = [row EXCEPT ![r0] = [@ EXCEPT !.present = v]]
      BY <1>10 DEF DeleteRouter
    <3>2. row \in [Routers -> Row]
      BY DEF Shape, Typed
    <3>3. v \in BOOLEAN
      BY Zenon
    <3> HIDE DEF v, r0
    <3>4. ASSUME r0 \in Routers PROVE [row[r0] EXCEPT !.present = v] \in Row
      BY <3>2, <3>3, <3>4 DEF Row
    <3> QED BY <3>1, <3>2, <3>4
  <2>3. Typed'
    BY <1>10, <2>2 DEF DeleteRouter, Shape, Typed, Bounds
  <2> QED BY <2>1, <2>3 DEF Shape
<1>11. ASSUME WriteHost(j) PROVE Shape'
  <2>1. job' \in [Jobs -> Sound]
    BY <1>11, <1>1, GoesOnOrStops DEF WriteHost, Is
  <2>2. Typed'
    BY <1>11 DEF WriteHost, Shape, Typed, Tables, Bounds
  <2> QED BY <2>1, <2>2 DEF Shape
<1>12. ASSUME StoreMode(j) PROVE Shape'
  <2>1. job' \in [Jobs -> Sound]
    BY <1>12, <1>1, GoesOnOrStops DEF StoreMode, Is
  <2>2. config' \in Modes
    BY <1>12 DEF StoreMode, Modes
  <2>3. Typed'
    BY <1>12, <2>2 DEF StoreMode, Shape, Typed, Bounds
  <2> QED BY <2>1, <2>3 DEF Shape
<1>13. ASSUME RemoveHost(j) PROVE Shape'
  <2>1. job' \in [Jobs -> Sound]
    BY <1>13, <1>1, GoesOnOrStops DEF RemoveHost, Is
  <2>2. hostFile' \in BOOLEAN
    BY <1>13, Zenon DEF RemoveHost, Shape, Typed
  <2>3. fails' \in Nat
    BY <1>13 DEF RemoveHost, Shape, Typed
  <2>4. forgotten' \subseteq Routers \union {Host}
    BY <1>13 DEF RemoveHost, Shape, Typed
  <2>5. Typed'
    BY <1>13, <2>2, <2>3, <2>4 DEF RemoveHost, Shape, Typed, Tables
  <2> QED BY <2>1, <2>5 DEF Shape
<1>14. ASSUME DeleteRow(j) PROVE Shape'
  <2>1. job' \in [Jobs -> Sound]
    BY <1>14, <1>1, GoesOnOrStops DEF DeleteRow, Is
  <2>2. Typed'
    BY <1>14 DEF DeleteRow, Shape, Typed, Bounds, Modes
  <2> QED BY <2>1, <2>2 DEF Shape
<1> QED BY <1>5, <1>6, <1>7, <1>8, <1>9, <1>10, <1>11, <1>12, <1>13, <1>14

LEMMA OthersKeepShape ==
    ASSUME Shape
    PROVE  /\ \A r \in Routers : Create(r) \/ Update(r) => Shape'
           /\ Crash => Shape'
           /\ UNCHANGED vars => Shape'
<1>1. ASSUME NEW r \in Routers, Edit(r) PROVE Shape'
  <2>1. [present |-> TRUE, opens |-> TRUE] \in Row
    BY DEF Row
  <2>2. row' \in [Routers -> Row]
    BY <1>1, <2>1 DEF Edit, Shape, Typed
  <2> QED BY <1>1, <2>2 DEF Edit, Shape, Typed
<1>2. ASSUME Crash PROVE Shape'
  <2>1. job' \in [Jobs -> Sound]
    BY <1>2, IdleSound DEF Crash
  <2>2. ASSUME NEW j \in Jobs PROVE Aborts(j) \subseteq Routers \union {Host}
    BY DEF Aborts, Sound, Changing, Host, Shape
  <2>3. Typed'
    BY <1>2, <2>2 DEF Crash, Shape, Typed, Tables
  <2> QED BY <2>1, <2>3 DEF Shape
<1>3. ASSUME UNCHANGED vars PROVE Shape'
  BY <1>3 DEF vars, Tables, Shape, Typed
<1> QED BY <1>1, <1>2, <1>3 DEF Create, Update

LEMMA ShapeNext == Shape /\ [Next]_vars => Shape'
BY RequestsKeepShape, CommandsKeepShape, OthersKeepShape DEF Next

\* Every variable keeps its type, whatever overlaps, fails or crashes.
THEOREM TypeCorrect == Spec => []TypeOK
<1>1. Shape /\ [Next]_vars => Shape'
  BY ShapeNext
<1> QED BY <1>1, ShapeInit, SoundIsTyped, PTL DEF Spec

-----------------------------------------------------------------------------
(* The interface refers to a router that is there.                         *)

LEMMA BoundInit == Init => BoundExists
<1> SUFFICES ASSUME Init PROVE BoundExists
  OBVIOUS
<1>1. bound = Self
  BY DEF Init
<1> QED BY <1>1 DEF BoundExists, Registered

\* An activation checks the row in the same step, a deletion the interface.
LEMMA BoundNext ==
    ASSUME Shape, BoundExists, [Next]_vars
    PROVE  BoundExists'
<1>1. row \in [Routers -> Row] /\ bound \in Routers \union {Self}
  BY DEF Shape, Typed
<1>2. bound # Self => row[bound].present
  BY DEF BoundExists, Registered
<1>3. ASSUME UNCHANGED <<row, bound>> PROVE BoundExists'
  BY <1>3 DEF BoundExists, Registered
<1>4. ASSUME NEW j \in Jobs, Persist(j) PROVE BoundExists'
  <2>1. \A r \in Routers : row'[r].present = row[r].present
    BY <1>1, <1>4 DEF Persist, Row
  <2> QED BY <1>1, <1>2, <1>4, <2>1 DEF Persist, BoundExists, Registered
<1>5. ASSUME NEW j \in Jobs, Bind(j) PROVE BoundExists'
  <2>1. row' = row
    BY <1>5 DEF Bind
  <2>2. CASE Referable(job[j].router)
    BY <1>5, <2>1, <2>2 DEF Bind, Referable, BoundExists, Registered
  <2>3. CASE ~Referable(job[j].router)
    BY <1>5, <2>1, <2>3 DEF Bind, BoundExists, Registered
  <2> QED BY <2>2, <2>3
<1>6. ASSUME NEW j \in Jobs, DeleteRouter(j) PROVE BoundExists'
  <2>1. row' = [row EXCEPT ![job[j].router].present = bound = job[j].router] /\ bound' = bound
    BY <1>6 DEF DeleteRouter, Free
  <2>2. ASSUME bound \in Routers, row[bound].present PROVE row'[bound].present
    BY <1>1, <2>1, <2>2 DEF Row
  <2> QED BY <1>1, <1>2, <2>1, <2>2 DEF BoundExists, Registered
<1>7. ASSUME NEW r \in Routers, Edit(r) PROVE BoundExists'
  <2>1. row' = [row EXCEPT ![r] = [present |-> TRUE, opens |-> TRUE]] /\ bound' = bound
    BY <1>7 DEF Edit
  <2>2. ASSUME bound \in Routers, row[bound].present PROVE row'[bound].present
    BY <1>1, <2>1, <2>2
  <2> QED BY <1>1, <1>2, <2>1, <2>2 DEF BoundExists, Registered
<1>8. ASSUME NEW j \in Jobs, NEW q, Start(j, q) PROVE BoundExists'
  BY <1>3, <1>8 DEF Start, Tables
<1>9. ASSUME NEW j \in Jobs
      PROVE  /\ Bootstrap(j) \/ HostMode(j) \/ RouterMode(j) \/ Disable(j) => BoundExists'
             /\ ActivateRequest(j) \/ DeleteRequest(j) \/ RestartRequest(j) => BoundExists'
  BY <1>8 DEF Bootstrap, HostMode, RouterMode, Disable, ActivateRequest, DeleteRequest,
              RestartRequest
<1>10. ASSUME NEW j \in Jobs
       PROVE  /\ Look(j) \/ Execute(j) \/ Fail(j) => BoundExists'
              /\ WriteHost(j) \/ StoreMode(j) \/ RemoveHost(j) \/ DeleteRow(j) => BoundExists'
  BY <1>3 DEF Look, Execute, Fail, WriteHost, StoreMode, RemoveHost, DeleteRow, Tables
<1>11. Crash \/ UNCHANGED vars => BoundExists'
  BY <1>3 DEF Crash, vars, Tables
<1> QED BY <1>4, <1>5, <1>6, <1>7, <1>9, <1>10, <1>11 DEF Next, Create, Update

\* However a deletion and an activation interleave, the interface never
\* refers to a router row that is gone.
THEOREM NeverDangles == Spec => []BoundExists
<1> DEFINE Inv == Shape /\ BoundExists
<1>1. Init => Inv
  BY ShapeInit, BoundInit
<1>2. Inv /\ [Next]_vars => Inv'
  BY ShapeNext, BoundNext
<1> QED BY <1>1, <1>2, PTL DEF Spec

-----------------------------------------------------------------------------
(* No duplicates.  Alone, a request that has found nothing still has found *)
(* the truth when its command runs: nobody else adds objects meanwhile.    *)
OneChanger ==
  \A i, j \in Jobs : job[i].kind \in Changing /\ job[j].kind \in Changing => i = j
Adding(j) == At(j, "ensure") /\ job[j].seen /\ job[j].found = 0
Fresh == \A j \in Jobs : Adding(j) => device[job[j].router][Current(j)[2]] = 0
Once  == \A r \in Routers, t \in Things : device[r][t] <= 1

Single == OneChanger /\ Fresh /\ Once

LEMMA SingleInit == Init => Single
<1> SUFFICES ASSUME Init PROVE Single
  OBVIOUS
<1>1. \A j \in Jobs : job[j].kind = None /\ job[j].seen = FALSE
  BY DEF Init, Idle
<1>2. OneChanger
  BY <1>1 DEF OneChanger, Changing, None
<1>3. Fresh
  BY <1>1 DEF Fresh, Adding
<1>4. Once
  BY DEF Init, Once
<1> QED BY <1>2, <1>3, <1>4 DEF Single

LEMMA AddingIsChanging ==
    ASSUME Shape, NEW j \in Jobs, At(j, "ensure") \/ At(j, "remove")
    PROVE  /\ job[j].kind \in Changing /\ job[j].router \in Routers
           /\ Current(j)[2] \in Made /\ Current(j)[2] \in Things
<1>1. job[j].todo # <<>> /\ Current(j)[1] \in {"ensure", "remove"}
  BY DEF At
<1>2. job[j].kind \in Changing
  BY <1>1, Rest, CleanCommands
<1>3. job[j].router \in Routers
  BY <1>2 DEF Shape, Sound
<1>4. Current(j)[2] \in Made
  BY <1>1, Rest, CleanCommands
<1> QED BY <1>2, <1>3, <1>4 DEF Made

\* A step that changes one request, to one of the same kind that is at the
\* start of a command, or to none, and no object.
LEMMA OneMoves ==
    ASSUME Shape, Shape', Single, NEW j \in Jobs, Advance(j, <<>>) \/ Advance(j, Tail(job[j].todo)) \/ Advance(j, SkipTo(j))
    PROVE  /\ \A i \in Jobs \ {j} : job'[i] = job[i]
           /\ job'[j].kind \in {job[j].kind, None}
           /\ job'[j].seen = FALSE
           /\ OneChanger'
<1>1. PICK todo : Advance(j, todo)
  OBVIOUS
<1>2. job \in [Jobs -> Sound] /\ job[j] \in Works
  BY DEF Shape, Sound
<1>3. \A i \in Jobs \ {j} : job'[i] = job[i]
  BY <1>1, <1>2 DEF Advance
<1>4. job'[j] = Idle \/ job'[j] = [job[j] EXCEPT !.todo = todo, !.seen = FALSE, !.found = 0]
  BY <1>1, <1>2 DEF Advance
<1>5. job'[j].kind \in {job[j].kind, None} /\ job'[j].seen = FALSE
  <2> DEFINE q == [job[j] EXCEPT !.todo = todo, !.seen = FALSE, !.found = 0]
  <2>1. q.kind = job[j].kind /\ q.seen = FALSE
    BY <1>2 DEF Works
  <2>2. Idle.kind = None /\ Idle.seen = FALSE
    BY DEF Idle
  <2> QED BY <1>4, <2>1, <2>2
<1>6. None \notin Changing
  BY DEF None, Changing
<1>7. OneChanger'
  BY <1>3, <1>5, <1>6 DEF Single, OneChanger
<1> QED BY <1>3, <1>5, <1>7

LEMMA SingleStays ==
    ASSUME Shape, Shape', Single, NEW j \in Jobs, device' = device,
           Advance(j, <<>>) \/ Advance(j, Tail(job[j].todo)) \/ Advance(j, SkipTo(j))
    PROVE  Single'
<1>1. ASSUME NEW i \in Jobs, Adding(i)' PROVE device'[job'[i].router][Current(i)'[2]] = 0
  <2>1. i # j
    BY <1>1, OneMoves DEF Adding
  <2>2. job'[i] = job[i]
    BY <2>1, OneMoves
  <2> QED BY <1>1, <2>2 DEF Single, Fresh, Adding, At, Current
<1>2. Fresh'
  BY <1>1 DEF Fresh
<1>3. Once'
  BY DEF Single, Once
<1> QED BY <1>2, <1>3, OneMoves DEF Single

\* The same, and the command of the request has its effect.
LEMMA SingleWorks ==
    ASSUME Shape, Shape', Single, NEW j \in Jobs, device' = Effect(j), Ready(j),
           Advance(j, <<>>) \/ Advance(j, Tail(job[j].todo))
    PROVE  Single'
<1>1. \A r \in Routers, t \in Things : device[r][t] \in Nat /\ device[r][t] <= 1
  BY DEF Shape, Typed, Single, Once
<1>2. ASSUME NEW r \in Routers, NEW t \in Things, r = job[j].router, t = Current(j)[2]
      PROVE  Count(j, t, device[r][t]) <= 1
  <2>1. At(j, "ensure") /\ job[j].found = 0 => device[r][t] = 0
    BY <1>2 DEF Ready, Single, Fresh, Adding, At
  <2> QED BY <1>1, <2>1, CountBounds
<1>3. Once'
  BY <1>1, <1>2, EffectIs DEF Once
<1>4. ASSUME NEW i \in Jobs, Adding(i)' PROVE device'[job'[i].router][Current(i)'[2]] = 0
  <2>1. i # j
    BY <1>4, OneMoves DEF Adding
  <2>2. job'[i] = job[i]
    BY <2>1, OneMoves
  <2>3. Adding(i) /\ Current(i)' = Current(i)
    BY <1>4, <2>2 DEF Adding, At, Current
  <2>4. /\ job[i].kind \in Changing /\ job[i].router \in Routers
        /\ Current(i)[2] \in Made /\ Current(i)[2] \in Things
    BY <2>3, AddingIsChanging DEF Adding
  <2>5. job[j].kind \notin Changing
    BY <2>1, <2>4 DEF Single, OneChanger
  <2>6. ~At(j, "ensure") /\ ~At(j, "remove")
    BY <2>5, AddingIsChanging
  <2> DEFINE r == job[i].router
             t == Current(i)[2]
  <2>7. Count(j, t, device[r][t]) = device[r][t]
    BY <1>1, <2>4, <2>6, CountBounds
  <2>8. device'[r][t] = device[r][t]
    BY <2>4, <2>7, EffectIs
  <2>9. device[r][t] = 0
    BY <2>3 DEF Single, Fresh
  <2> QED BY <2>2, <2>3, <2>8, <2>9
<1>5. Fresh'
  BY <1>4 DEF Fresh
<1> QED BY <1>3, <1>5, OneMoves DEF Single

LEMMA SingleNext ==
    ASSUME Alone, Shape, Shape', Single, [Next]_vars
    PROVE  Single'
<1>1. ASSUME NEW j \in Jobs, NEW q, Start(j, q), q.seen = FALSE PROVE Single'
  <2>1. job' = [job EXCEPT ![j] = q] /\ device' = device /\ MayStart(q.kind)
    BY <1>1 DEF Start
  <2>2. job'[j] = q /\ \A i \in Jobs \ {j} : job'[i] = job[i]
    BY <2>1 DEF Shape
  <2>3. OneChanger'
    BY <2>1, <2>2 DEF MayStart, Single, OneChanger
  <2>4. ASSUME NEW i \in Jobs, Adding(i)' PROVE device'[job'[i].router][Current(i)'[2]] = 0
    BY <1>1, <2>1, <2>2, <2>4 DEF Single, Fresh, Adding, At, Current
  <2>5. Fresh'
    BY <2>4 DEF Fresh
  <2>6. Once'
    BY <2>1 DEF Single, Once
  <2> QED BY <2>3, <2>5, <2>6 DEF Single
<1>2. ASSUME NEW j \in Jobs, Look(j) PROVE Single'
  <2>1. (At(j, "ensure") \/ At(j, "remove")) /\ device' = device
    BY <1>2 DEF Look
  <2>2. job[j].kind \in Changing /\ job[j].router \in Routers /\ Current(j)[2] \in Things
    BY <2>1, AddingIsChanging
  <2> DEFINE n == Found(job[j].router, Current(j)[2])
  <2>3. ASSUME job' = [job EXCEPT ![j].seen = TRUE, ![j].found = n] PROVE Single'
    <3>1. job[j] \in Works /\ job \in [Jobs -> Sound]
      BY DEF Shape, Sound
    <3>2. /\ job'[j].kind = job[j].kind /\ job'[j].todo = job[j].todo
          /\ job'[j].router = job[j].router /\ job'[j].found = n
          /\ \A i \in Jobs \ {j} : job'[i] = job[i]
      BY <2>3, <3>1 DEF Works
    <3>3. OneChanger'
      BY <3>2 DEF Single, OneChanger
    <3>4. ASSUME NEW i \in Jobs, Adding(i)' PROVE device'[job'[i].router][Current(i)'[2]] = 0
      <4>1. CASE i = j
        <5>1. n = 0 /\ Current(j)' = Current(j)
          BY <3>2, <3>4, <4>1 DEF Adding, Current
        <5> QED BY <2>1, <3>2, <4>1, <5>1 DEF Found
      <4>2. CASE i # j
        BY <2>1, <3>2, <3>4, <4>2 DEF Single, Fresh, Adding, At, Current
      <4> QED BY <4>1, <4>2
    <3>5. Fresh'
      BY <3>4 DEF Fresh
    <3>6. Once'
      BY <2>1 DEF Single, Once
    <3> QED BY <3>3, <3>5, <3>6 DEF Single
  <2>4. ASSUME Advance(j, SkipTo(j)) PROVE Single'
    BY <2>1, <2>4, SingleStays
  <2> QED BY <1>2, <2>3, <2>4 DEF Look
<1>3. ASSUME NEW j \in Jobs, Execute(j) PROVE Single'
  BY <1>3, SingleWorks DEF Execute
<1>4. ASSUME NEW j \in Jobs, Fail(j) PROVE Single'
  <2>1. Advance(j, <<>>)
    BY <1>4 DEF Fail, StopsHere
  <2>2. device' = device \/ (Ready(j) /\ device' = Effect(j))
    BY <1>4 DEF Fail
  <2> QED BY <2>1, <2>2, SingleStays, SingleWorks
<1>5. ASSUME NEW j \in Jobs,
             Persist(j) \/ Bind(j) \/ DeleteRouter(j) \/ WriteHost(j) \/ StoreMode(j)
               \/ RemoveHost(j) \/ DeleteRow(j)
      PROVE  Single'
  <2>1. device' = device /\ (Advance(j, <<>>) \/ Advance(j, Tail(job[j].todo)))
    BY <1>5 DEF Persist, Bind, DeleteRouter, WriteHost, StoreMode, RemoveHost, DeleteRow, Tables
  <2> QED BY <2>1, SingleStays
<1>6. ASSUME UNCHANGED <<device, job>> PROVE Single'
  BY <1>6 DEF Single, OneChanger, Fresh, Once, Adding, At, Current
<1>7. ASSUME Crash PROVE Single'
  <2>1. device' = device /\ \A j \in Jobs : job'[j] = Idle
    BY <1>7 DEF Crash
  <2>2. OneChanger'
    BY <2>1 DEF OneChanger, Idle, None, Changing
  <2>3. Fresh'
    BY <2>1 DEF Fresh, Adding, Idle
  <2>4. Once'
    BY <2>1 DEF Single, Once
  <2> QED BY <2>2, <2>3, <2>4 DEF Single
<1>8. ASSUME NEW kind, NEW r, NEW todo PROVE Request(kind, r, todo).seen = FALSE
  BY DEF Request
<1>9. ASSUME NEW j \in Jobs
      PROVE  /\ Bootstrap(j) \/ HostMode(j) \/ RouterMode(j) \/ Disable(j) => Single'
             /\ ActivateRequest(j) \/ DeleteRequest(j) \/ RestartRequest(j) => Single'
  <2>1. ASSUME NEW kind, NEW r, NEW todo, Start(j, Request(kind, r, todo)) PROVE Single'
    BY <1>1, <1>8, <2>1
  <2>2. ASSUME Bootstrap(j) PROVE Single'
    <3>1. PICK r \in Routers, key \in BOOLEAN :
            Start(j, [Request("bootstrap", r, BootstrapSteps) EXCEPT !.key = key])
      BY <2>2 DEF Bootstrap
    <3> DEFINE q == [Request("bootstrap", r, BootstrapSteps) EXCEPT !.key = key]
    <3>2. q.seen = FALSE
      BY DEF Request
    <3>3. Start(j, q)
      BY <3>1
    <3> HIDE DEF q
    <3> QED BY <1>1, <3>2, <3>3
  <2>3. HostMode(j) => Single'
    BY <2>1 DEF HostMode
  <2>4. RouterMode(j) => Single'
    BY <2>1 DEF RouterMode
  <2>5. Disable(j) => Single'
    BY <2>1 DEF Disable
  <2>6. ActivateRequest(j) \/ DeleteRequest(j) \/ RestartRequest(j) => Single'
    BY <2>1 DEF ActivateRequest, DeleteRequest, RestartRequest
  <2> QED BY <2>2, <2>3, <2>4, <2>5, <2>6
<1>10. ASSUME NEW r \in Routers, Create(r) \/ Update(r) PROVE Single'
  BY <1>6, <1>10 DEF Create, Update, Edit
<1>11. UNCHANGED vars => Single'
  BY <1>6 DEF vars
<1> QED BY <1>2, <1>3, <1>4, <1>5, <1>7, <1>9, <1>10, <1>11 DEF Next

LEMMA SingleIsOnce == Single => \A r \in Routers, t \in Things : device[r][t] <= 1
BY DEF Single, Once

\* Wherever the wizard, a deployment or a removal stops or is cut short, and
\* however often it is repeated, no router gets a second object of a kind,
\* if the administrator does not overlap the requests that change routers.
THEOREM Idempotent == Spec => []NoDuplicates
<1> DEFINE Inv == Shape /\ (Alone => Single)
<1>1. Init => Inv
  BY ShapeInit, SingleInit
<1>2. Inv /\ [Next]_vars => Inv'
  BY ShapeNext, SingleNext
<1>3. Inv => NoDuplicates
  BY SingleIsOnce DEF NoDuplicates
<1> QED BY <1>1, <1>2, <1>3, PTL DEF Spec

-----------------------------------------------------------------------------
(* Which commands the requests of each kind have.  Only those that switch  *)
(* the obfuscator touch its objects, its row or its file.                  *)
Switching == {"host", "router", "disable"}
Removals  == {"remove"} \X Sidecar
HostCommands    == Removals \union {<<"db", "writeHost">>, <<"db", "storeHost">>}
RouterCommands  == ({"ensure"} \X Sidecar)
                     \union {<<"run", "start">>, <<"db", "storeRouter">>, <<"db", "removeHost">>}
DisableCommands == Removals \union {<<"db", "removeHost">>, <<"db", "deleteRow">>}
Bystander ==
  {c \in Command : /\ c[1] = "ensure" => c[2] \in Made \ Sidecar
                   /\ c[1] # "remove" /\ (c[1] = "run" => c[2] \notin Sidecar)
                   /\ c[1] = "db" => c[2] \in {"persist", "activate", "deleteRouter"}}

CommandsOf(kind) ==
  IF kind = "host" THEN HostCommands
  ELSE IF kind = "router" THEN RouterCommands
  ELSE IF kind = "disable" THEN DisableCommands ELSE Bystander

TodosOf(kind) == Seq(CommandsOf(kind))

Conform == \A j \in Jobs : job[j].todo \in TodosOf(job[j].kind)

LEMMA TailIs ==
    ASSUME NEW S, NEW s \in Seq(S), s # <<>>
    PROVE  /\ Tail(s) \in Seq(S) /\ s[1] \in S /\ Len(s) \in Nat /\ Len(s) > 0
           /\ DOMAIN s = 1..Len(s) /\ Len(Tail(s)) = Len(s) - 1
           /\ DOMAIN Tail(s) = 1..Len(Tail(s))
           /\ \A i \in 1..Len(Tail(s)) : Tail(s)[i] = s[i + 1]
BY HeadTailProperties

LEMMA JoinedIs ==
    ASSUME NEW S, NEW s \in Seq(S), NEW t \in Seq(S)
    PROVE  /\ s \o t \in Seq(S) /\ Len(s \o t) = Len(s) + Len(t)
           /\ \A i \in 1..Len(s) : (s \o t)[i] = s[i]
           /\ \A i \in 1..Len(t) : (s \o t)[Len(s) + i] = t[i]
OBVIOUS

LEMMA RemoveIs ==
    RemoveSteps = <<<<"remove", "container">>, <<"remove", "mount">>, <<"remove", "dstnat">>,
                    <<"remove", "veth">>, <<"remove", "vethAddress">>, <<"remove", "file">>>>
BY DEF RemoveSteps, Each

LEMMA EachIs ==
    ASSUME NEW T, NEW things \in Seq(T), NEW S, NEW do, \A t \in T : <<do, t>> \in S
    PROVE  /\ Each(do, things) \in Seq(S) /\ Len(Each(do, things)) = Len(things)
           /\ \A i \in 1..Len(things) : Each(do, things)[i] = <<do, things[i]>>
<1> DEFINE n == Len(things)
<1>1. DOMAIN things = 1..n /\ n \in Nat /\ \A i \in 1..n : things[i] \in T
  OBVIOUS
<1>2. Each(do, things) = [i \in 1..n |-> <<do, things[i]>>]
  BY <1>1 DEF Each
<1>3. Each(do, things) \in [1..n -> S]
  BY <1>1, <1>2
<1> QED BY <1>1, <1>2, <1>3

LEMMA BystanderSteps ==
    /\ \A t \in {"interface", "address", "input", "masquerade", "user", "ca", "server"} :
         <<"ensure", t>> \in Bystander
    /\ \A w \in {"sign", "service", "test", "key"} : <<"run", w>> \in Bystander
    /\ \A w \in {"persist", "activate", "deleteRouter"} : <<"db", w>> \in Bystander
BY DEF Bystander, Command, Made, Things, Others, Sidecar

LEMMA PlannedCommands ==
    /\ ClosingSteps \in Seq(Bystander) /\ BootstrapSteps \in Seq(Bystander)
    /\ DeploySteps \in Seq(RouterCommands)
    /\ RemoveSteps \in Seq(Removals)
<1> DEFINE sign   == <<<<"run", "sign">>>>
           server == <<<<"ensure", "server">>, <<"run", "sign">>>>
           first  == Each("ensure", <<"interface", "address", "input", "masquerade", "user", "ca">>)
           parts  == Each("ensure", <<"veth", "vethAddress", "mount", "container", "file">>)
           last   == <<<<"run", "start">>, <<"ensure", "dstnat">>>>
<1>1. /\ <<"run", "sign">> \in Bystander /\ <<"run", "service">> \in Bystander
      /\ <<"db", "persist">> \in Bystander /\ <<"run", "test">> \in Bystander
      /\ <<"db", "activate">> \in Bystander /\ <<"ensure", "server">> \in Bystander
      /\ <<"ensure", "interface">> \in Bystander /\ <<"ensure", "address">> \in Bystander
      /\ <<"ensure", "input">> \in Bystander /\ <<"ensure", "masquerade">> \in Bystander
      /\ <<"ensure", "user">> \in Bystander /\ <<"ensure", "ca">> \in Bystander
  BY BystanderSteps
<1>2. /\ sign \in Seq(Bystander) /\ server \in Seq(Bystander)
      /\ ClosingSteps \in Seq(Bystander) /\ first \in Seq(Bystander)
  <2>1. sign \in Seq(Bystander) /\ server \in Seq(Bystander)
    BY <1>1
  <2>2. ClosingSteps \in Seq(Bystander)
    BY <1>1 DEF ClosingSteps
  <2>3. first \in Seq(Bystander)
    <3> DEFINE things == <<"interface", "address", "input", "masquerade", "user", "ca">>
               T == {"interface", "address", "input", "masquerade", "user", "ca"}
    <3>1. things \in Seq(T)
      OBVIOUS
    <3>2. \A t \in T : <<"ensure", t>> \in Bystander
      BY <1>1
    <3> HIDE DEF things, T
    <3>3. Each("ensure", things) \in Seq(Bystander)
      BY <3>1, <3>2, EachIs
    <3> QED BY <3>3 DEF things
  <2> QED BY <2>1, <2>2, <2>3
<1>3. /\ <<"ensure", "veth">> \in RouterCommands /\ <<"ensure", "vethAddress">> \in RouterCommands
      /\ <<"ensure", "mount">> \in RouterCommands /\ <<"ensure", "container">> \in RouterCommands
      /\ <<"ensure", "file">> \in RouterCommands /\ <<"ensure", "dstnat">> \in RouterCommands
      /\ <<"run", "start">> \in RouterCommands
  BY DEF RouterCommands, Sidecar
<1>4. parts \in Seq(RouterCommands) /\ last \in Seq(RouterCommands)
  <2>1. parts \in Seq(RouterCommands)
    <3> DEFINE things == <<"veth", "vethAddress", "mount", "container", "file">>
               T == {"veth", "vethAddress", "mount", "container", "file"}
    <3>1. things \in Seq(T)
      OBVIOUS
    <3>2. \A t \in T : <<"ensure", t>> \in RouterCommands
      BY <1>3
    <3> HIDE DEF things, T
    <3>3. Each("ensure", things) \in Seq(RouterCommands)
      BY <3>1, <3>2, EachIs
    <3> QED BY <3>3 DEF things
  <2>2. last \in Seq(RouterCommands)
    BY <1>3
  <2> QED BY <2>1, <2>2
<1>9. /\ <<"remove", "veth">> \in Removals /\ <<"remove", "vethAddress">> \in Removals
      /\ <<"remove", "mount">> \in Removals /\ <<"remove", "container">> \in Removals
      /\ <<"remove", "file">> \in Removals /\ <<"remove", "dstnat">> \in Removals
  BY DEF Removals, Sidecar
<1>10. RemoveSteps \in Seq(Removals)
  BY <1>9, RemoveIs
<1>5. /\ BootstrapSteps = (first \o sign) \o (server \o ClosingSteps)
      /\ DeploySteps = parts \o last
  BY DEF ServerSteps, BootstrapSteps, DeploySteps
<1> HIDE DEF first, sign, server, parts, last
<1>6. first \o sign \in Seq(Bystander) /\ server \o ClosingSteps \in Seq(Bystander)
  BY <1>2, JoinedIs
<1>7. BootstrapSteps \in Seq(Bystander)
  BY <1>5, <1>6, JoinedIs
<1>8. DeploySteps \in Seq(RouterCommands)
  BY <1>4, <1>5, JoinedIs
<1> QED BY <1>2, <1>7, <1>8, <1>10

LEMMA KindCommands ==
    /\ \A kind \in Kinds : CommandsOf(kind) \subseteq Command
    /\ \A kind \in Kinds \ Switching : CommandsOf(kind) = Bystander
    /\ CommandsOf("host") = HostCommands /\ CommandsOf("router") = RouterCommands
    /\ CommandsOf("disable") = DisableCommands
<1>1. HostCommands \subseteq Command /\ RouterCommands \subseteq Command
      /\ DisableCommands \subseteq Command /\ Bystander \subseteq Command
  BY DEF HostCommands, RouterCommands, DisableCommands, Bystander, Command, Removals,
         Things, Others
<1> QED BY <1>1 DEF CommandsOf, Switching

\* What a command can be, by its form.
LEMMA Forms ==
    ASSUME NEW kind \in Kinds, NEW c \in CommandsOf(kind)
    PROVE  /\ c[1] = "remove" => kind \in {"host", "disable"} /\ c[2] \in Sidecar
           /\ c[1] = "ensure" => IF kind = "router" THEN c[2] \in Sidecar
                                 ELSE c[2] \notin Sidecar /\ kind \notin Switching
           /\ c[1] = "run" => c[2] \notin Sidecar
           /\ c[1] = "db" => c[2] \notin Things
           /\ c = <<"db", "storeHost">> \/ c = <<"db", "writeHost">> => kind = "host"
           /\ c = <<"db", "storeRouter">> => kind = "router"
           /\ c = <<"db", "removeHost">> => kind \in {"router", "disable"}
           /\ c = <<"db", "deleteRow">> => kind = "disable"
           /\ c \in {<<"db", "persist">>, <<"db", "activate">>, <<"db", "deleteRouter">>} =>
                kind \notin Switching
           /\ c = <<c[1], c[2]>>
<1>1. CASE kind = "host"
  BY <1>1, KindCommands DEF HostCommands, Removals, Sidecar, Things, Switching
<1>2. CASE kind = "router"
  BY <1>2, KindCommands DEF RouterCommands, Sidecar, Things, Switching
<1>3. CASE kind = "disable"
  BY <1>3, KindCommands DEF DisableCommands, Removals, Sidecar, Things, Switching
<1>4. CASE kind \notin Switching
  <2>1. c \in Bystander
    BY <1>4, KindCommands
  <2>2. c \in Command /\ c = <<c[1], c[2]>>
    BY <2>1 DEF Bystander, Command
  <2>3. /\ c[1] # "remove" /\ (c[1] = "ensure" => c[2] \in Made \ Sidecar)
        /\ c[1] = "run" => c[2] \notin Sidecar
        /\ c[1] = "db" => c[2] \in {"persist", "activate", "deleteRouter"}
    BY <2>1 DEF Bystander
  <2> QED BY <1>4, <2>2, <2>3 DEF Switching, Things, Sidecar
<1> QED BY <1>1, <1>2, <1>3, <1>4 DEF Switching

-----------------------------------------------------------------------------
(* What a step does to the requests.                                       *)
\* The same request, further on, or none.
LEMMA MovedOn ==
    ASSUME Shape, NEW j \in Jobs, NEW todo, Advance(j, todo)
    PROVE  /\ todo = <<>> => job'[j] = Idle
           /\ todo # <<>> => /\ job'[j].kind = job[j].kind /\ job'[j].router = job[j].router
                             /\ job'[j].todo = todo /\ job'[j].old = job[j].old
                             /\ job'[j].seen = FALSE /\ job'[j].found = 0
<1>1. job \in [Jobs -> Sound] /\ job[j] \in Works
  BY DEF Shape, Sound
<1>2. job' = [job EXCEPT ![j] = IF todo = <<>> THEN Idle
                ELSE [job[j] EXCEPT !.todo = todo, !.seen = FALSE, !.found = 0]]
  BY DEF Advance
<1>3. todo # <<>> => job'[j] = [job[j] EXCEPT !.todo = todo, !.seen = FALSE, !.found = 0]
  BY <1>1, <1>2
<1> QED BY <1>1, <1>2, <1>3 DEF Works

LEMMA OthersStay ==
    ASSUME Shape, NEW j \in Jobs, NEW todo, Advance(j, todo)
    PROVE  \A i \in Jobs : i # j => job'[i] = job[i]
BY DEF Shape, Advance

\* A print has answered: the request knows what is there.
Sees(j) ==
  /\ At(j, "ensure") \/ At(j, "remove")
  /\ job' = [job EXCEPT ![j].seen = TRUE, ![j].found = device[job[j].router][Current(j)[2]]]
  /\ Needed(j, device[job[j].router][Current(j)[2]])
Skips(j) ==
  /\ At(j, "ensure") \/ At(j, "remove")
  /\ ~Needed(j, device[job[j].router][Current(j)[2]]) /\ Advance(j, SkipTo(j))

LEMMA LookIs ==
    ASSUME NEW j \in Jobs, Look(j)
    PROVE  (Sees(j) \/ Skips(j)) /\ UNCHANGED <<row, bound, config, hostFile, device, forgotten>>
BY DEF Look, Sees, Skips, Found, Tables

LEMMA SeesIs ==
    ASSUME Shape, NEW j \in Jobs, Sees(j)
    PROVE  /\ \A i \in Jobs \ {j} : job'[i] = job[i]
           /\ job'[j].kind = job[j].kind /\ job'[j].router = job[j].router
           /\ job'[j].todo = job[j].todo /\ job'[j].old = job[j].old
           /\ job'[j].seen = TRUE /\ job'[j].found = device[job[j].router][Current(j)[2]]
<1>1. job \in [Jobs -> Sound] /\ job[j] \in Works
  BY DEF Shape, Sound
<1>2. job' = [job EXCEPT ![j].seen = TRUE, ![j].found = device[job[j].router][Current(j)[2]]]
  BY DEF Sees
<1> QED BY <1>1, <1>2 DEF Works

\* The commands that read and write the database and the file of the sidecar.
Writes(j) == \/ Persist(j) \/ Bind(j) \/ DeleteRouter(j) \/ WriteHost(j) \/ StoreMode(j)
             \/ RemoveHost(j) \/ DeleteRow(j)

LEMMA WritesIs ==
    ASSUME Shape, NEW j \in Jobs, Writes(j)
    PROVE  /\ At(j, "db") /\ job[j].todo # <<>> /\ device' = device
           /\ Advance(j, <<>>) \/ Advance(j, Tail(job[j].todo))
<1>1. /\ Persist(j) => At(j, "db") /\ device' = device /\ Advance(j, Tail(job[j].todo))
      /\ Bind(j) => At(j, "db") /\ device' = device /\ Advance(j, <<>>)
      /\ DeleteRouter(j) => At(j, "db") /\ device' = device /\ Advance(j, <<>>)
      /\ WriteHost(j) => At(j, "db") /\ device' = device /\ Advance(j, Tail(job[j].todo))
      /\ StoreMode(j) => At(j, "db") /\ device' = device /\ Advance(j, Tail(job[j].todo))
      /\ RemoveHost(j) => At(j, "db") /\ device' = device /\ Advance(j, Tail(job[j].todo))
      /\ DeleteRow(j) => At(j, "db") /\ device' = device /\ Advance(j, Tail(job[j].todo))
  BY DEF Persist, Bind, DeleteRouter, WriteHost, StoreMode, RemoveHost, DeleteRow, Is
<1> QED BY <1>1 DEF Writes, At

HostTodo == <<<<"db", "writeHost">>, <<"db", "storeHost">>>>
              \o (IF config = "router" THEN RemoveSteps ELSE <<>>)
RouterTodo(deploy) == deploy \o <<<<"db", "storeRouter">>>>
                        \o (IF config = Host THEN <<<<"db", "removeHost">>>> ELSE <<>>)
DisableTodo == IF config = Host THEN <<<<"db", "removeHost">>, <<"db", "deleteRow">>>>
               ELSE RouterGone

LEMMA HostTodoIs ==
    /\ HostTodo \in Seq(HostCommands) /\ HostTodo[1] = <<"db", "writeHost">>
    /\ Len(HostTodo) >= 2 /\ HostTodo[2] = <<"db", "storeHost">>
    /\ config = "router" =>
         Len(HostTodo) = 8 /\ \A i \in 1..6 : HostTodo[2 + i] = RemoveSteps[i]
<1> DEFINE first == <<<<"db", "writeHost">>, <<"db", "storeHost">>>>
           rest  == IF config = "router" THEN RemoveSteps ELSE <<>>
<1>1. Removals \subseteq HostCommands
  BY DEF HostCommands
<1>2. rest \in Seq(HostCommands) /\ Len(RemoveSteps) = 6
  BY <1>1, PlannedCommands, RemoveIs
<1>3. <<"db", "writeHost">> \in HostCommands /\ <<"db", "storeHost">> \in HostCommands
  BY DEF HostCommands
<1>4. first \in Seq(HostCommands) /\ Len(first) = 2
      /\ first[1] = <<"db", "writeHost">> /\ first[2] = <<"db", "storeHost">>
  BY <1>3
<1>5. config = "router" => rest = RemoveSteps
  OBVIOUS
<1>6. HostTodo = first \o rest
  BY DEF HostTodo
<1> HIDE DEF first, rest
<1>7. /\ HostTodo \in Seq(HostCommands) /\ Len(HostTodo) = 2 + Len(rest) /\ Len(rest) \in Nat
      /\ HostTodo[1] = first[1] /\ HostTodo[2] = first[2]
      /\ \A i \in 1..Len(rest) : HostTodo[2 + i] = rest[i]
  <2>1. /\ HostTodo \in Seq(HostCommands) /\ Len(HostTodo) = Len(first) + Len(rest)
        /\ \A i \in 1..Len(first) : HostTodo[i] = first[i]
        /\ \A i \in 1..Len(rest) : HostTodo[Len(first) + i] = rest[i]
    <3>1. first \in Seq(HostCommands) /\ rest \in Seq(HostCommands)
      BY <1>2, <1>4
    <3> HIDE <1>2, <1>4, <1>5
    <3>2. /\ first \o rest \in Seq(HostCommands)
          /\ Len(first \o rest) = Len(first) + Len(rest)
          /\ \A i \in 1..Len(first) : (first \o rest)[i] = first[i]
          /\ \A i \in 1..Len(rest) : (first \o rest)[Len(first) + i] = rest[i]
      BY <3>1, JoinedIs
    <3> QED BY <1>6, <3>2
  <2>2. Len(rest) \in Nat /\ Len(first) = 2
    BY <1>2, <1>4, LenProperties
  <2> QED BY <2>1, <2>2
<1>8. HostTodo[1] = <<"db", "writeHost">> /\ HostTodo[2] = <<"db", "storeHost">>
  BY <1>4, <1>7
<1>9. Len(HostTodo) >= 2
  BY <1>7
<1>10. ASSUME config = "router"
       PROVE  Len(HostTodo) = 8 /\ \A i \in 1..6 : HostTodo[2 + i] = RemoveSteps[i]
  <2>1. Len(rest) = 6 /\ rest = RemoveSteps
    BY <1>2, <1>5, <1>10
  <2> QED BY <1>7, <2>1
<1> QED BY <1>7, <1>8, <1>9, <1>10

LEMMA RouterTodoIs ==
    ASSUME NEW deploy \in {DeploySteps, <<>>}
    PROVE  /\ RouterTodo(deploy) \in Seq(RouterCommands)
           /\ \E i \in DOMAIN RouterTodo(deploy) : RouterTodo(deploy)[i] = <<"db", "storeRouter">>
           /\ config = Host =>
                \E i \in DOMAIN RouterTodo(deploy) : RouterTodo(deploy)[i] = <<"db", "removeHost">>
<1> DEFINE store == <<<<"db", "storeRouter">>>>
           back  == <<<<"db", "removeHost">>>>
           rest  == IF config = Host THEN back ELSE <<>>
<1>1. deploy \in Seq(RouterCommands)
  <2>1. <<>> \in Seq(RouterCommands)
    OBVIOUS
  <2> QED BY <2>1, PlannedCommands
<1>2. <<"db", "storeRouter">> \in RouterCommands /\ <<"db", "removeHost">> \in RouterCommands
  BY DEF RouterCommands
<1>3. /\ store \in Seq(RouterCommands) /\ Len(store) = 1 /\ store[1] = <<"db", "storeRouter">>
      /\ back \in Seq(RouterCommands) /\ Len(back) = 1 /\ back[1] = <<"db", "removeHost">>
  BY <1>2
<1>4. rest \in Seq(RouterCommands) /\ (config = Host => rest = back)
  BY <1>3
<1>5. RouterTodo(deploy) = (deploy \o store) \o rest
  BY DEF RouterTodo
<1> HIDE DEF store, back, rest
<1> DEFINE s == deploy \o store
           n == Len(deploy)
<1>6. n \in Nat /\ s \in Seq(RouterCommands) /\ Len(s) = n + 1 /\ s[n + 1] = <<"db", "storeRouter">>
  BY <1>1, <1>3, JoinedIs
<1> HIDE DEF s, n
<1>7. /\ s \o rest \in Seq(RouterCommands) /\ Len(s \o rest) = n + 1 + Len(rest)
      /\ (s \o rest)[n + 1] = s[n + 1] /\ Len(rest) \in Nat
      /\ \A i \in 1..Len(rest) : (s \o rest)[n + 1 + i] = rest[i]
  <2>1. /\ s \o rest \in Seq(RouterCommands) /\ Len(s \o rest) = Len(s) + Len(rest)
        /\ \A i \in 1..Len(s) : (s \o rest)[i] = s[i]
        /\ \A i \in 1..Len(rest) : (s \o rest)[Len(s) + i] = rest[i]
    <3>1. s \in Seq(RouterCommands) /\ rest \in Seq(RouterCommands)
      BY <1>4, <1>6
    <3> QED BY <3>1, JoinedIs
  <2>2. n + 1 \in 1..Len(s) /\ Len(rest) \in Nat
    BY <1>4, <1>6
  <2> QED BY <1>6, <2>1, <2>2
<1>8. RouterTodo(deploy) = s \o rest
  BY <1>5 DEF s
<1> DEFINE t == s \o rest
<1>9. t \in Seq(RouterCommands) /\ DOMAIN t = 1..(n + 1 + Len(rest))
  BY <1>7
<1>10. n + 1 \in DOMAIN t /\ t[n + 1] = <<"db", "storeRouter">>
  BY <1>6, <1>7, <1>9
<1>11. config = Host => n + 2 \in DOMAIN t /\ t[n + 2] = <<"db", "removeHost">>
  BY <1>3, <1>4, <1>6, <1>7, <1>9
<1> HIDE DEF t
<1> QED BY <1>8, <1>9, <1>10, <1>11 DEF t

LEMMA DisableTodoIs ==
    /\ DisableTodo \in Seq(DisableCommands) /\ DOMAIN DisableTodo = 1..Len(DisableTodo)
    /\ \A i \in DOMAIN DisableTodo : DisableTodo[i] = <<"db", "deleteRow">> <=> i = Len(DisableTodo)
    /\ config = Host => DisableTodo = <<<<"db", "removeHost">>, <<"db", "deleteRow">>>>
    /\ config # Host => Len(DisableTodo) = 7 /\ \A i \in 1..6 : DisableTodo[i] = RemoveSteps[i]
<1> DEFINE off  == <<<<"db", "removeHost">>, <<"db", "deleteRow">>>>
           last == <<<<"db", "deleteRow">>>>
<1>1. <<"db", "removeHost">> \in DisableCommands /\ <<"db", "deleteRow">> \in DisableCommands
      /\ Removals \subseteq DisableCommands
  BY DEF DisableCommands
<1>2. /\ off \in Seq(DisableCommands) /\ Len(off) = 2 /\ DOMAIN off = 1..2
      /\ off[1] = <<"db", "removeHost">> /\ off[2] = <<"db", "deleteRow">>
      /\ last \in Seq(DisableCommands) /\ Len(last) = 1 /\ last[1] = <<"db", "deleteRow">>
  BY <1>1
<1>3. RemoveSteps \in Seq(DisableCommands) /\ Len(RemoveSteps) = 6
      /\ \A i \in 1..6 : RemoveSteps[i] # <<"db", "deleteRow">>
  BY <1>1, PlannedCommands, RemoveIs
<1>4. RouterGone = RemoveSteps \o last
  BY DEF RouterGone
<1>5. DisableTodo = IF config = Host THEN off ELSE RemoveSteps \o last
  BY <1>4 DEF DisableTodo
<1> HIDE DEF off, last
<1> DEFINE s == RemoveSteps \o last
<1>6. /\ s \in Seq(DisableCommands) /\ Len(s) = 7 /\ s[7] = <<"db", "deleteRow">>
      /\ \A i \in 1..6 : s[i] = RemoveSteps[i]
  <2>1. /\ s \in Seq(DisableCommands) /\ Len(s) = Len(RemoveSteps) + Len(last)
        /\ \A i \in 1..Len(RemoveSteps) : s[i] = RemoveSteps[i]
        /\ \A i \in 1..Len(last) : s[Len(RemoveSteps) + i] = last[i]
    <3>1. RemoveSteps \in Seq(DisableCommands) /\ last \in Seq(DisableCommands)
      BY <1>2, <1>3
    <3> QED BY <3>1, JoinedIs
  <2> QED BY <1>2, <1>3, <2>1
<1> HIDE DEF s
<1>7. CASE config = Host
  <2>1. \A i \in DOMAIN off : off[i] = <<"db", "deleteRow">> <=> i = Len(off)
    BY <1>2
  <2> QED BY <1>2, <1>5, <1>7, <2>1 DEF off
<1>8. CASE config # Host
  <2>1. DisableTodo = s
    BY <1>5, <1>8 DEF s
  <2>2. DOMAIN s = 1..7
    BY <1>6
  <2>3. \A i \in 1..7 : s[i] = <<"db", "deleteRow">> <=> i = 7
    <3>1. \A i \in 1..6 : s[i] # <<"db", "deleteRow">>
      BY <1>3, <1>6
    <3>2. \A i \in 1..7 : i \in 1..6 \/ i = 7
      OBVIOUS
    <3> QED BY <1>6, <3>1, <3>2
  <2> QED BY <1>6, <1>8, <2>1, <2>2, <2>3
<1> QED BY <1>7, <1>8

\* A request that switches, with the commands it begins with.
Switches(q) ==
  /\ bound \in Routers
  /\ \/ q = Request("host", bound, HostTodo)
     \/ \E deploy \in {DeploySteps, <<>>} : q = Request("router", bound, RouterTodo(deploy))
     \/ config # None /\ q = Request("disable", bound, DisableTodo)

Standing == {"activate", "delete", "restart"}
Stands(q) ==
  \E kind \in Standing, r \in Routers \union {Self} :
    \E todo \in {<<<<"db", "activate">>>>, <<<<"db", "deleteRouter">>>>, <<<<"run", "key">>>>} :
      q = Request(kind, r, todo)
Provisions(q) ==
  \E r \in Routers, key \in BOOLEAN :
    q = [Request("bootstrap", r, BootstrapSteps) EXCEPT !.key = key]

LEMMA RequestsAsk ==
    ASSUME NEW j \in Jobs,
           \/ Bootstrap(j) \/ HostMode(j) \/ RouterMode(j) \/ Disable(j)
           \/ ActivateRequest(j) \/ DeleteRequest(j) \/ RestartRequest(j)
    PROVE  \E q : Start(j, q) /\ (Switches(q) \/ Stands(q) \/ Provisions(q))
<1>1. CASE Bootstrap(j)
  BY <1>1 DEF Bootstrap, Provisions
<1>2. CASE HostMode(j)
  BY <1>2 DEF HostMode, Switches, HostTodo
<1>3. CASE RouterMode(j)
  BY <1>3 DEF RouterMode, Switches, RouterTodo
<1>4. CASE Disable(j)
  BY <1>4 DEF Disable, Switches, DisableTodo
<1>5. CASE ActivateRequest(j)
  BY <1>5 DEF ActivateRequest, Stands, Standing
<1>6. CASE DeleteRequest(j)
  BY <1>6 DEF DeleteRequest, Stands, Standing
<1>7. CASE RestartRequest(j)
  BY <1>7 DEF RestartRequest, Stands, Standing
<1> QED BY <1>1, <1>2, <1>3, <1>4, <1>5, <1>6, <1>7

LEMMA Steps ==
    ASSUME [Next]_vars
    PROVE  \/ \E j \in Jobs : \E q : Start(j, q) /\ (Switches(q) \/ Stands(q) \/ Provisions(q))
           \/ \E j \in Jobs : Look(j) \/ Execute(j) \/ Fail(j) \/ Writes(j)
           \/ \E r \in Routers : Edit(r)
           \/ Crash
           \/ UNCHANGED vars
BY RequestsAsk DEF Next, Writes, Create, Update

LEMMA TodoSets ==
    /\ Seq(Bystander) = TodosOf("bootstrap")
    /\ \A kind \in Standing : TodosOf(kind) = Seq(Bystander)
    /\ \A kind \in Kinds \ Switching : TodosOf(kind) = Seq(Bystander)
    /\ TodosOf("host") = Seq(HostCommands) /\ TodosOf("router") = Seq(RouterCommands)
    /\ TodosOf("disable") = Seq(DisableCommands)
    /\ \A kind : <<>> \in TodosOf(kind)
BY DEF TodosOf, CommandsOf, Standing, Switching

LEMMA AskedIs ==
    ASSUME Shape, NEW q
    PROVE  /\ Switches(q) => /\ q.kind \in Switching /\ q.router = bound
                             /\ q.todo \in TodosOf(q.kind)
           /\ Stands(q) => q.kind \in Standing /\ q.todo \in TodosOf(q.kind)
           /\ Provisions(q) => /\ q.kind = "bootstrap" /\ q.todo = BootstrapSteps
                               /\ q.router \in Routers
                               /\ q.todo \in TodosOf(q.kind)
           /\ Switches(q) \/ Stands(q) \/ Provisions(q) =>
                q.seen = FALSE /\ q.found = 0 /\ q.old = config /\ q.kind \in Kinds
<1>2. ASSUME Switches(q)
      PROVE  /\ q.kind \in Switching /\ q.router = bound
             /\ q.todo \in TodosOf(q.kind)
             /\ q.seen = FALSE /\ q.found = 0 /\ q.old = config
  <2>1. CASE q = Request("host", bound, HostTodo)
    <3>1. HostTodo \in TodosOf("host")
      BY HostTodoIs, TodoSets
    <3>2. /\ q.kind = "host" /\ q.router = bound /\ q.todo = HostTodo
          /\ q.seen = FALSE /\ q.found = 0 /\ q.old = config
      BY <2>1 DEF Request
    <3> QED BY <3>1, <3>2 DEF Switching
  <2>2. CASE \E deploy \in {DeploySteps, <<>>} : q = Request("router", bound, RouterTodo(deploy))
    <3>1. PICK deploy \in {DeploySteps, <<>>} : q = Request("router", bound, RouterTodo(deploy))
      BY <2>2
    <3>2. RouterTodo(deploy) \in TodosOf("router")
      BY RouterTodoIs, TodoSets
    <3>3. /\ q.kind = "router" /\ q.router = bound /\ q.todo = RouterTodo(deploy)
          /\ q.seen = FALSE /\ q.found = 0 /\ q.old = config
      BY <3>1 DEF Request
    <3> QED BY <3>2, <3>3 DEF Switching
  <2>3. CASE q = Request("disable", bound, DisableTodo)
    <3>1. DisableTodo \in TodosOf("disable")
      BY DisableTodoIs, TodoSets
    <3>2. /\ q.kind = "disable" /\ q.router = bound /\ q.todo = DisableTodo
          /\ q.seen = FALSE /\ q.found = 0 /\ q.old = config
      BY <2>3 DEF Request
    <3> QED BY <3>1, <3>2 DEF Switching
  <2> QED BY <1>2, <2>1, <2>2, <2>3 DEF Switches
<1>3. ASSUME Stands(q)
      PROVE  /\ q.kind \in Standing /\ q.todo \in TodosOf(q.kind)
             /\ q.seen = FALSE /\ q.found = 0 /\ q.old = config
  <2>1. PICK kind \in Standing, r \in Routers \union {Self} :
          \E todo \in {<<<<"db", "activate">>>>, <<<<"db", "deleteRouter">>>>, <<<<"run", "key">>>>} :
            q = Request(kind, r, todo)
    BY <1>3 DEF Stands
  <2>2. PICK todo \in {<<<<"db", "activate">>>>, <<<<"db", "deleteRouter">>>>, <<<<"run", "key">>>>} :
          q = Request(kind, r, todo)
    BY <2>1
  <2>4. TodosOf(kind) = Seq(Bystander)
    BY TodoSets
  <2>5. /\ <<"db", "activate">> \in Bystander /\ <<"db", "deleteRouter">> \in Bystander
        /\ <<"run", "key">> \in Bystander
    BY BystanderSteps
  <2>6. todo \in Seq(Bystander)
    <3>1. /\ <<<<"db", "activate">>>> \in Seq(Bystander)
          /\ <<<<"db", "deleteRouter">>>> \in Seq(Bystander)
          /\ <<<<"run", "key">>>> \in Seq(Bystander)
      BY <2>5
    <3> QED BY <3>1
  <2>7. todo \in TodosOf(kind)
    BY <2>4, <2>6
  <2>8. q.kind = kind /\ q.todo = todo /\ q.seen = FALSE /\ q.found = 0 /\ q.old = config
    BY <2>2 DEF Request
  <2> QED BY <2>7, <2>8
<1>4. ASSUME Provisions(q)
      PROVE  /\ q.kind = "bootstrap" /\ q.todo = BootstrapSteps /\ q.router \in Routers
             /\ q.todo \in TodosOf(q.kind)
             /\ q.seen = FALSE /\ q.found = 0 /\ q.old = config
  <2>1. PICK r \in Routers, key \in BOOLEAN :
          q = [Request("bootstrap", r, BootstrapSteps) EXCEPT !.key = key]
    BY <1>4 DEF Provisions
  <2>2. /\ q.kind = "bootstrap" /\ q.todo = BootstrapSteps /\ q.router \in Routers
        /\ q.seen = FALSE /\ q.found = 0 /\ q.old = config
    BY <2>1 DEF Request
  <2>3. BootstrapSteps \in TodosOf("bootstrap")
    BY PlannedCommands, TodoSets
  <2> QED BY <2>2, <2>3
<1>5. Switching \subseteq Kinds /\ Standing \subseteq Kinds /\ "bootstrap" \in Kinds
  BY DEF Switching, Standing, Kinds, Changing
<1> QED BY <1>2, <1>3, <1>4, <1>5

LEMMA StartIs ==
    ASSUME Shape, NEW j \in Jobs, NEW q, Start(j, q)
    PROVE  /\ job'[j] = q /\ \A i \in Jobs : i # j => job'[i] = job[i]
           /\ job[j].kind = None /\ MayStart(q.kind)
           /\ UNCHANGED <<row, bound, config, hostFile, device, forgotten>>
BY DEF Start, Shape, Tables, Running

LEMMA ConformInit == Init => Conform
<1> SUFFICES ASSUME Init, NEW j \in Jobs PROVE job[j].todo \in TodosOf(job[j].kind)
  BY DEF Conform
<1>1. job[j].todo = <<>>
  BY DEF Init, Idle
<1> QED BY <1>1, TodoSets

\* The command at hand.
LEMMA AtHand ==
    ASSUME Shape, Conform, NEW j \in Jobs, job[j].todo # <<>>
    PROVE  /\ job[j].kind \in Kinds /\ Current(j) \in CommandsOf(job[j].kind)
           /\ Tail(job[j].todo) \in TodosOf(job[j].kind)
           /\ DOMAIN job[j].todo = 1..Len(job[j].todo) /\ Len(job[j].todo) \in Nat
           /\ Len(job[j].todo) > 0 /\ Len(Tail(job[j].todo)) = Len(job[j].todo) - 1
           /\ DOMAIN Tail(job[j].todo) = 1..Len(Tail(job[j].todo))
           /\ \A i \in 1..Len(Tail(job[j].todo)) : Tail(job[j].todo)[i] = job[j].todo[i + 1]
<1>1. job[j].todo \in TodosOf(job[j].kind)
  BY DEF Conform
<1>2. job[j].kind \in Kinds
  BY DEF Shape, Sound, Works
<1> QED BY <1>1, <1>2, TailIs DEF Current, TodosOf

LEMMA ConformAdvance ==
    ASSUME Shape, Conform, NEW j \in Jobs, NEW todo \in TodosOf(job[j].kind),
           Advance(j, todo)
    PROVE  Conform'
<1> SUFFICES ASSUME NEW i \in Jobs PROVE job'[i].todo \in TodosOf(job'[i].kind)
  BY DEF Conform
<1>1. CASE i # j
  <2>1. job'[i] = job[i]
    BY <1>1, OthersStay
  <2>2. job[i].todo \in TodosOf(job[i].kind)
    BY DEF Conform
  <2> QED BY <2>1, <2>2
<1>2. CASE i = j /\ todo = <<>>
  <2>1. job'[i] = Idle
    BY <1>2, MovedOn
  <2>2. Idle.todo = <<>>
    BY DEF Idle
  <2>3. <<>> \in TodosOf(Idle.kind)
    BY DEF TodosOf
  <2> QED BY <2>1, <2>2, <2>3
<1>3. CASE i = j /\ todo # <<>>
  <2>1. todo # <<>> => job'[j].todo = todo /\ job'[j].kind = job[j].kind
    BY MovedOn
  <2> QED BY <1>3, <2>1
<1> QED BY <1>1, <1>2, <1>3

LEMMA ConformTail ==
    ASSUME Shape, Conform, NEW j \in Jobs
    PROVE  /\ Advance(j, <<>>) => Conform'
           /\ job[j].todo # <<>> /\ Advance(j, Tail(job[j].todo)) => Conform'
<1>1. ASSUME Advance(j, <<>>) PROVE Conform'
  BY <1>1, TodoSets, ConformAdvance
<1>2. ASSUME job[j].todo # <<>>, Advance(j, Tail(job[j].todo)) PROVE Conform'
  BY <1>2, AtHand, ConformAdvance
<1> QED BY <1>1, <1>2

\* Only the wizard asks for a certificate.
LEMMA SkipsTo ==
    ASSUME Shape, Conform, NEW j \in Jobs, At(j, "ensure") \/ At(j, "remove")
    PROVE  /\ job[j].todo # <<>>
           /\ SkipTo(j) = IF Current(j)[2] \in {"ca", "server"} THEN ClosingSteps
                          ELSE Tail(job[j].todo)
           /\ Current(j)[2] \in {"ca", "server"} =>
                At(j, "ensure") /\ job[j].kind \notin Switching
<1>1. job[j].todo # <<>>
  BY DEF At
<1>2. job[j].kind \in Kinds /\ Current(j) \in CommandsOf(job[j].kind)
  BY <1>1, AtHand
<1>3. /\ Current(j)[1] = "remove" => Current(j)[2] \in Sidecar
      /\ Current(j)[1] = "ensure" => IF job[j].kind = "router" THEN Current(j)[2] \in Sidecar
                                     ELSE job[j].kind \notin Switching
  BY <1>2, Forms
<1>4. "ca" \notin Sidecar /\ "server" \notin Sidecar
  BY DEF Sidecar
<1> QED BY <1>1, <1>3, <1>4 DEF SkipTo, At, Switching

LEMMA ConformNext ==
    ASSUME Shape, Conform, [Next]_vars
    PROVE  Conform'
<1>1. ASSUME NEW j \in Jobs, NEW q, Start(j, q), Switches(q) \/ Stands(q) \/ Provisions(q)
      PROVE  Conform'
  <2>1. q.todo \in TodosOf(q.kind)
    BY <1>1, AskedIs
  <2>2. job'[j] = q
    BY <1>1, StartIs
  <2>3. \A i \in Jobs : i # j => job'[i] = job[i]
    BY <1>1, StartIs
  <2> QED BY <2>1, <2>2, <2>3 DEF Conform
<1>2. ASSUME NEW j \in Jobs, Look(j) PROVE Conform'
  <2>1. CASE Sees(j)
    BY <2>1, SeesIs DEF Conform
  <2>2. CASE Skips(j)
    <3>1. Advance(j, SkipTo(j)) /\ (At(j, "ensure") \/ At(j, "remove"))
      BY <2>2 DEF Skips
    <3>2. CASE Current(j)[2] \in {"ca", "server"}
      <4>1. job[j].kind \in Kinds \ Switching
        BY <3>1, <3>2, SkipsTo, AtHand
      <4>2. ClosingSteps \in TodosOf(job[j].kind)
        BY <4>1, TodoSets, PlannedCommands
      <4> QED BY <3>1, <3>2, <4>2, SkipsTo, ConformAdvance
    <3>3. CASE Current(j)[2] \notin {"ca", "server"}
      BY <3>1, <3>3, SkipsTo, ConformTail
    <3> QED BY <3>2, <3>3
  <2> QED BY <1>2, <2>1, <2>2, LookIs
<1>3. ASSUME NEW j \in Jobs, Execute(j) PROVE Conform'
  BY <1>3, ConformTail DEF Execute
<1>4. ASSUME NEW j \in Jobs, Fail(j) PROVE Conform'
  BY <1>4, ConformTail DEF Fail, StopsHere
<1>5. ASSUME NEW j \in Jobs, Writes(j) PROVE Conform'
  BY <1>5, WritesIs, ConformTail
<1>6. ASSUME UNCHANGED job PROVE Conform'
  BY <1>6 DEF Conform
<1>7. ASSUME Crash PROVE Conform'
  <2>1. \A j \in Jobs : job'[j].todo = <<>>
    BY <1>7 DEF Crash, Idle
  <2> QED BY <2>1, TodoSets DEF Conform
<1> QED BY <1>1, <1>2, <1>3, <1>4, <1>5, <1>6, <1>7, Steps DEF Edit, vars

-----------------------------------------------------------------------------
(* Nothing is bound to a half provisioned router.  What the commands of a  *)
(* wizard that are done have put on the router stays there: only objects   *)
(* of the obfuscator are ever removed.                                     *)
Done(j) == 13 - Len(job[j].todo)
Basics  == <<"interface", "address", "input", "masquerade", "user", "ca">>
Has(j, t) == device[job[j].router][t] > 0

Along(j) ==
  /\ Len(job[j].todo) \in 1..13
  /\ \A i \in 1..Len(job[j].todo) : job[j].todo[i] = BootstrapSteps[Done(j) + i]
  /\ \A i \in 1..6 : i <= Done(j) => Has(j, Basics[i])
  /\ Done(j) >= 10 => Has(j, "service")
  /\ At(j, "ensure") /\ job[j].seen /\ job[j].found > 0 => Has(j, Current(j)[2])
Provisioned == \A j \in Jobs : job[j].kind = "bootstrap" => Along(j)

LEMMA PlanIs ==
    /\ Len(BootstrapSteps) = 13 /\ DOMAIN BootstrapSteps = 1..13
    /\ \A i \in 1..6 : BootstrapSteps[i] = <<"ensure", Basics[i]>>
    /\ BootstrapSteps[7] = <<"run", "sign">> /\ BootstrapSteps[8] = <<"ensure", "server">>
    /\ BootstrapSteps[9] = <<"run", "sign">> /\ BootstrapSteps[10] = <<"run", "service">>
    /\ BootstrapSteps[11] = <<"db", "persist">> /\ BootstrapSteps[12] = <<"run", "test">>
    /\ BootstrapSteps[13] = <<"db", "activate">>
    /\ Len(ClosingSteps) = 4 /\ \A i \in 1..4 : ClosingSteps[i] = BootstrapSteps[9 + i]
<1> DEFINE S == {"ensure", "run", "db"} \X (Things \union Others)
           sign   == <<<<"run", "sign">>>>
           server == <<<<"ensure", "server">>, <<"run", "sign">>>>
           first  == Each("ensure", Basics)
           begin  == first \o sign
           close  == server \o ClosingSteps
<1>1. /\ first \in Seq(S) /\ Len(first) = 6 /\ \A i \in 1..6 : first[i] = <<"ensure", Basics[i]>>
  <2>1. Basics \in Seq(Things) /\ Len(Basics) = 6
    BY DEF Basics, Things
  <2>2. \A t \in Things : <<"ensure", t>> \in S
    OBVIOUS
  <2> HIDE DEF S
  <2> QED BY <2>1, <2>2, EachIs
<1>2. /\ <<"run", "sign">> \in S /\ <<"ensure", "server">> \in S /\ <<"run", "service">> \in S
      /\ <<"db", "persist">> \in S /\ <<"run", "test">> \in S /\ <<"db", "activate">> \in S
  BY DEF Things, Others
<1> HIDE DEF S
<1>3. sign \in Seq(S) /\ Len(sign) = 1 /\ sign[1] = <<"run", "sign">>
  BY <1>2
<1>4. server \in Seq(S) /\ Len(server) = 2 /\ server[1] = <<"ensure", "server">>
      /\ server[2] = <<"run", "sign">>
  BY <1>2
<1>5. ClosingSteps \in Seq(S) /\ Len(ClosingSteps) = 4
      /\ ClosingSteps[1] = <<"run", "service">> /\ ClosingSteps[2] = <<"db", "persist">>
      /\ ClosingSteps[3] = <<"run", "test">> /\ ClosingSteps[4] = <<"db", "activate">>
  BY <1>2 DEF ClosingSteps
<1>6. BootstrapSteps = begin \o close
  BY DEF BootstrapSteps, ServerSteps, Basics
<1> HIDE DEF sign, server, first
<1>7. /\ begin \in Seq(S) /\ Len(begin) = 7 /\ begin[7] = <<"run", "sign">>
      /\ \A i \in 1..6 : begin[i] = <<"ensure", Basics[i]>>
  <2>1. /\ begin \in Seq(S) /\ Len(begin) = Len(first) + Len(sign)
        /\ \A i \in 1..Len(first) : begin[i] = first[i]
        /\ \A i \in 1..Len(sign) : begin[Len(first) + i] = sign[i]
    <3>1. first \in Seq(S) /\ sign \in Seq(S)
      BY <1>1, <1>3
    <3> QED BY <3>1, JoinedIs
  <2> QED BY <1>1, <1>3, <2>1
<1>8. /\ close \in Seq(S) /\ Len(close) = 6 /\ close[1] = <<"ensure", "server">>
      /\ close[2] = <<"run", "sign">> /\ \A i \in 1..4 : close[2 + i] = ClosingSteps[i]
  <2>1. /\ close \in Seq(S) /\ Len(close) = Len(server) + Len(ClosingSteps)
        /\ \A i \in 1..Len(server) : close[i] = server[i]
        /\ \A i \in 1..Len(ClosingSteps) : close[Len(server) + i] = ClosingSteps[i]
    <3>1. server \in Seq(S) /\ ClosingSteps \in Seq(S)
      BY <1>4, <1>5
    <3> QED BY <3>1, JoinedIs
  <2> QED BY <1>4, <1>5, <2>1
<1> HIDE DEF begin, close
<1>9. /\ BootstrapSteps \in Seq(S) /\ Len(BootstrapSteps) = 13
      /\ \A i \in 1..7 : BootstrapSteps[i] = begin[i]
      /\ \A i \in 1..6 : BootstrapSteps[7 + i] = close[i]
  <2>1. /\ BootstrapSteps \in Seq(S) /\ Len(BootstrapSteps) = Len(begin) + Len(close)
        /\ \A i \in 1..Len(begin) : BootstrapSteps[i] = begin[i]
        /\ \A i \in 1..Len(close) : BootstrapSteps[Len(begin) + i] = close[i]
    <3>1. begin \in Seq(S) /\ close \in Seq(S)
      BY <1>7, <1>8
    <3> QED BY <1>6, <3>1, JoinedIs
  <2> QED BY <1>7, <1>8, <2>1
<1>10. \A i \in 1..6 : BootstrapSteps[i] = <<"ensure", Basics[i]>>
  BY <1>7, <1>9
<1>11. BootstrapSteps[7] = <<"run", "sign">> /\ BootstrapSteps[8] = <<"ensure", "server">>
      /\ BootstrapSteps[9] = <<"run", "sign">>
  BY <1>7, <1>8, <1>9
<1>12. \A i \in 1..4 : BootstrapSteps[9 + i] = ClosingSteps[i]
  <2>1. \A i \in 1..4 : 9 + i = 7 + (2 + i) /\ 2 + i \in 1..6
    OBVIOUS
  <2> QED BY <1>8, <1>9, <2>1
<1>13. DOMAIN BootstrapSteps = 1..13
  BY <1>9
<1> QED BY <1>5, <1>9, <1>10, <1>11, <1>12, <1>13

\* A command that is executed takes effect, and leaves what is there, but for
\* the objects of the obfuscator.
LEMMA EffectAt ==
    ASSUME Shape, NEW j \in Jobs, job[j].router \in Routers, Current(j)[2] \in Things, ~Throws(j)
    PROVE  Effect(j)[job[j].router][Current(j)[2]]
             = Count(j, Current(j)[2], device[job[j].router][Current(j)[2]])
<1> DEFINE r == job[j].router
           t == Current(j)[2]
           n == Count(j, t, device[r][t])
<1>1. Effect(j) = [device EXCEPT ![r][t] = Count(j, t, device[r][t])]
  BY DEF Effect
<1>2. device \in [Routers -> [Things -> Nat]]
  BY DEF Shape, Typed
<1>3. Effect(j) = [device EXCEPT ![r][t] = n]
  BY <1>1
<1> HIDE DEF r, t, n
<1>4. Effect(j)[r][t] = n
  BY <1>2, <1>3 DEF r, t
<1> QED BY <1>4 DEF r, t, n

LEMMA OthersRemain ==
    ASSUME Shape, Conform, NEW j \in Jobs, job[j].todo # <<>>,
           NEW r \in Routers, NEW t \in Things \ Sidecar, device[r][t] > 0
    PROVE  Effect(j)[r][t] > 0
<1>1. device[r][t] \in Nat
  BY DEF Shape, Typed
<1>2. CASE Effect(j)[r][t] = device[r][t]
  BY <1>2
<1>3. CASE t = Current(j)[2] /\ Effect(j)[r][t] = Count(j, t, device[r][t])
  <2>1. ~At(j, "remove")
    BY <1>3, AtHand, Forms DEF At
  <2> QED BY <1>1, <1>3, <2>1 DEF Count
<1> QED BY <1>2, <1>3, EffectIs

\* Objects come and go only by the command of a request.
LEMMA DeviceMoves ==
    ASSUME Shape, [Next]_vars
    PROVE  \/ device' = device
           \/ \E j \in Jobs : job[j].todo # <<>> /\ device' = Effect(j)
<1>1. ASSUME NEW j \in Jobs, Look(j) \/ Execute(j) \/ Fail(j) \/ Writes(j)
      PROVE  device' = device \/ (job[j].todo # <<>> /\ device' = Effect(j))
  BY <1>1, LookIs, WritesIs DEF Execute, Fail, At
<1>2. ASSUME NEW j \in Jobs, NEW q, Start(j, q) PROVE device' = device
  BY <1>2 DEF Start
<1> QED BY <1>1, <1>2, Steps DEF Edit, Crash, vars

LEMMA Remains ==
    ASSUME Shape, Conform, [Next]_vars, NEW r \in Routers, NEW t \in Things \ Sidecar,
           device[r][t] > 0
    PROVE  device'[r][t] > 0
BY DeviceMoves, OthersRemain

LEMMA BasicsAre ==
    /\ \A i \in 1..6 : Basics[i] \in Things \ Sidecar
    /\ "service" \in Things \ Sidecar
BY DEF Basics, Things, Sidecar

\* The wizard whose turn it is not, or that only looks.
LEMMA AlongStays ==
    ASSUME Shape, Conform, [Next]_vars, NEW j \in Jobs, job[j].kind = "bootstrap", Along(j),
           job'[j].router = job[j].router, job'[j].todo = job[j].todo,
           At(j, "ensure") /\ job'[j].seen /\ job'[j].found > 0 => Has(j, Current(j)[2])
    PROVE  Along(j)'
<1>1. job[j].router \in Routers
  BY DEF Shape, Sound, Changing
<1>2. Current(j)' = Current(j) /\ Done(j)' = Done(j) /\ (At(j, "ensure")' <=> At(j, "ensure"))
  BY DEF Current, Done, At
<1>3. \A t \in Things \ Sidecar : Has(j, t) => Has(j, t)'
  BY <1>1, Remains DEF Has
<1>4. At(j, "ensure") => Current(j)[2] \in Things \ Sidecar
  <2>1. ASSUME At(j, "ensure") PROVE Current(j)[2] \notin Sidecar
    BY <2>1, AtHand, Forms DEF At
  <2> QED BY <2>1, AddingIsChanging
<1>5. (At(j, "ensure") /\ job[j].seen /\ job[j].found > 0 => Has(j, Current(j)[2]))'
  <2>1. ASSUME At(j, "ensure")', job'[j].seen, job'[j].found > 0 PROVE Has(j, Current(j)[2])'
    <3>1. At(j, "ensure") /\ Has(j, Current(j)[2]) /\ Current(j)[2] \in Things \ Sidecar
      BY <1>2, <1>4, <2>1
    <3>2. device'[job[j].router][Current(j)[2]] > 0
      BY <1>1, <3>1, Remains DEF Has
    <3> QED BY <1>2, <3>2 DEF Has
  <2> QED BY <2>1
<1>6. (\A i \in 1..6 : i <= Done(j) => Has(j, Basics[i]))'
  BY <1>2, <1>3, BasicsAre DEF Along
<1>7. (Done(j) >= 10 => Has(j, "service"))'
  BY <1>2, <1>3, BasicsAre DEF Along
<1>8. (Len(job[j].todo) \in 1..13
        /\ \A i \in 1..Len(job[j].todo) : job[j].todo[i] = BootstrapSteps[Done(j) + i])'
  BY <1>2 DEF Along
<1> QED BY <1>5, <1>6, <1>7, <1>8 DEF Along

\* The command at hand, by its place in the plan.
LEMMA FirstIs ==
    ASSUME Shape, NEW j \in Jobs, Along(j)
    PROVE  Current(j) = BootstrapSteps[Done(j) + 1] /\ Done(j) \in 0..12
<1> DEFINE s == job[j].todo
           n == Len(s)
<1>1. n \in 1..13 /\ \A i \in 1..n : s[i] = BootstrapSteps[13 - n + i]
  BY DEF Along, Done
<1>2. Current(j) = s[1] /\ Done(j) = 13 - n
  BY DEF Current, Done
<1> HIDE DEF s, n
<1>3. 1 \in 1..n /\ 13 - n \in 0..12
  BY <1>1
<1> QED BY <1>1, <1>2, <1>3

LEMMA WasSo ==
    ASSUME Shape, NEW j \in Jobs, Advance(j, Tail(job[j].todo)), job'[j].kind # None
    PROVE  job'[j].kind = job[j].kind
<1>1. Tail(job[j].todo) # <<>>
  <2>1. Tail(job[j].todo) = <<>> => job'[j] = Idle
    BY MovedOn
  <2> QED BY <2>1 DEF Idle
<1> QED BY <1>1, MovedOn

\* The wizard has done a command.
LEMMA AlongTail ==
    ASSUME Shape, Conform, [Next]_vars, NEW j \in Jobs, job[j].kind = "bootstrap", Along(j),
           job[j].todo # <<>>, Advance(j, Tail(job[j].todo)),
           \A i \in 1..6 : i = Done(j) + 1 => device'[job[j].router][Basics[i]] > 0,
           Done(j) + 1 = 10 => device'[job[j].router]["service"] > 0,
           job'[j].kind = "bootstrap"
    PROVE  Along(j)'
<1>1. Tail(job[j].todo) # <<>>
  <2>1. Tail(job[j].todo) = <<>> => job'[j] = Idle
    BY MovedOn
  <2>2. Idle.kind # "bootstrap"
    BY DEF Idle, None
  <2> QED BY <2>1, <2>2
<1>2. /\ job'[j].router = job[j].router /\ job'[j].todo = Tail(job[j].todo)
      /\ job'[j].seen = FALSE
  BY <1>1, MovedOn
<1> DEFINE s == job[j].todo
           n == Len(s)
           r == job[j].router
<1>3. /\ n \in 1..13 /\ Len(Tail(s)) = n - 1 /\ n - 1 \in Nat /\ n - 1 # 0
      /\ \A i \in 1..(n - 1) : Tail(s)[i] = s[i + 1]
  <2>1. n \in 1..13
    BY DEF Along
  <2>2. Len(Tail(s)) = n - 1 /\ \A i \in 1..(n - 1) : Tail(s)[i] = s[i + 1]
    BY AtHand
  <2>3. Tail(s) \in Seq(CommandsOf("bootstrap"))
    BY AtHand DEF TodosOf
  <2>4. Len(Tail(s)) # 0
    BY <1>1, <2>3, EmptySeq
  <2> QED BY <2>1, <2>2, <2>4
<1>4. Done(j) = 13 - n /\ Done(j)' = 13 - n + 1
  BY <1>2, <1>3 DEF Done
<1>5. r \in Routers /\ r = job'[j].router
  BY <1>2 DEF Shape, Sound, Changing
<1>6. \A t \in Things \ Sidecar : device[r][t] > 0 => device'[r][t] > 0
  BY <1>5, Remains
<1>7. \A i \in 1..6 : i <= 13 - n => device[r][Basics[i]] > 0
  BY <1>4 DEF Along, Has
<1>8. 13 - n >= 10 => device[r]["service"] > 0
  BY <1>4 DEF Along, Has
<1>9. \A i \in 1..n : s[i] = BootstrapSteps[13 - n + i]
  BY <1>4 DEF Along
<1> HIDE DEF s, n, r
<1>10. \A i \in 1..6 : i <= 13 - n + 1 => device'[r][Basics[i]] > 0
  <2> SUFFICES ASSUME NEW i \in 1..6, i <= 13 - n + 1 PROVE device'[r][Basics[i]] > 0
    OBVIOUS
  <2>1. CASE i = 13 - n + 1
    BY <1>4, <2>1 DEF r
  <2>2. CASE i <= 13 - n
    BY <1>6, <1>7, <2>2, BasicsAre
  <2> QED BY <1>3, <2>1, <2>2
<1>11. 13 - n + 1 >= 10 => device'[r]["service"] > 0
  <2>1. CASE 13 - n + 1 = 10
    BY <1>4, <2>1 DEF r
  <2>2. CASE 13 - n >= 10
    BY <1>6, <1>8, <2>2, BasicsAre
  <2> QED BY <1>3, <2>1, <2>2
<1>12. Len(Tail(s)) \in 1..13 /\ \A i \in 1..(n - 1) : Tail(s)[i] = BootstrapSteps[13 - n + 1 + i]
  <2>1. \A i \in 1..(n - 1) : i + 1 \in 1..n /\ 13 - n + (i + 1) = 13 - n + 1 + i
    BY <1>3
  <2>2. ASSUME NEW i \in 1..(n - 1) PROVE Tail(s)[i] = BootstrapSteps[13 - n + 1 + i]
    <3>1. Tail(s)[i] = s[i + 1]
      BY <1>3
    <3>2. s[i + 1] = BootstrapSteps[13 - n + (i + 1)]
      BY <1>9, <2>1
    <3> DEFINE k == 13 - n + 1 + i
    <3>3. 13 - n + (i + 1) = k
      BY <2>1
    <3>4. s[i + 1] = BootstrapSteps[k]
      BY <3>2, <3>3
    <3> QED BY <3>1, <3>4
  <2>3. \A k \in 1..13 : k - 1 # 0 => k - 1 \in 1..13
    OBVIOUS
  <2> QED BY <1>3, <2>2, <2>3
<1>13. (\A i \in 1..6 : i <= Done(j) => Has(j, Basics[i]))'
  BY <1>4, <1>5, <1>10 DEF Has
<1>14. (Done(j) >= 10 => Has(j, "service"))'
  BY <1>4, <1>5, <1>11 DEF Has
<1>15. (Len(job[j].todo) \in 1..13)'
  BY <1>2, <1>12 DEF s
<1>16. (\A i \in 1..Len(job[j].todo) : job[j].todo[i] = BootstrapSteps[Done(j) + i])'
  BY <1>2, <1>3, <1>4, <1>12 DEF s
<1>17. ~job'[j].seen
  BY <1>2
<1> QED BY <1>13, <1>14, <1>15, <1>16, <1>17 DEF Along

\* The wizard has found the certificate and goes on to the closing commands.
LEMMA AlongCloses ==
    ASSUME Shape, Conform, [Next]_vars, NEW j \in Jobs, job[j].kind = "bootstrap", Along(j),
           At(j, "ensure"), Current(j)[2] \in {"ca", "server"}, Has(j, Current(j)[2]),
           Advance(j, ClosingSteps)
    PROVE  Along(j)'
<1>7. job'[j].todo = ClosingSteps /\ job'[j].router = job[j].router /\ job'[j].seen = FALSE
  <2>1. ClosingSteps # <<>>
    BY SomeSteps
  <2>2. job'[j].todo = ClosingSteps
    BY <2>1, MovedOn
  <2>3. job'[j].router = job[j].router
    BY <2>1, MovedOn
  <2>4. job'[j].seen = FALSE
    BY <2>1, MovedOn
  <2> QED BY <2>2, <2>3, <2>4
<1> DEFINE n == Len(job[j].todo)
           r == job[j].router
<1>1. job[j].todo # <<>> /\ r \in Routers
  BY DEF At, Shape, Sound, Changing
<1>2. n \in 1..13 /\ job[j].todo[1] = BootstrapSteps[13 - n + 1]
  <2>1. n \in 1..13 /\ \A i \in 1..n : job[j].todo[i] = BootstrapSteps[13 - n + i]
    BY DEF Along, Done
  <2>2. \A k \in 1..13 : 1 \in 1..k
    OBVIOUS
  <2> QED BY <2>1, <2>2
<1>3. Current(j) = BootstrapSteps[13 - n + 1]
  BY <1>2 DEF Current
<1>4. 13 - n + 1 \in {6, 8}
  <2>1. Current(j)[1] = "ensure" /\ Current(j)[2] \in {"ca", "server"}
    BY DEF At
  <2>2. \A i \in 1..13 : BootstrapSteps[i][1] = "ensure" /\ BootstrapSteps[i][2] \in {"ca", "server"}
                           => i \in {6, 8}
    <3>1. \A i \in 1..6 : BootstrapSteps[i][2] = Basics[i]
      BY PlanIs
    <3>2. \A i \in 1..5 : Basics[i] \notin {"ca", "server"}
      BY DEF Basics
    <3>3. \A i \in {7, 9, 10, 11, 12, 13} : BootstrapSteps[i][1] # "ensure"
      BY PlanIs
    <3>4. \A i \in 1..13 : i \in 1..5 \/ i \in {6, 8} \/ i \in {7, 9, 10, 11, 12, 13}
      OBVIOUS
    <3>5. \A i \in 1..5 : i \in 1..6
      OBVIOUS
    <3>6. \A i \in 1..5 : BootstrapSteps[i][2] \notin {"ca", "server"}
      BY <3>1, <3>2, <3>5
    <3>7. ASSUME NEW i \in 1..13, BootstrapSteps[i][1] = "ensure",
                 BootstrapSteps[i][2] \in {"ca", "server"}
          PROVE  i \in {6, 8}
      <4>1. i \notin 1..5
        BY <3>6, <3>7
      <4>2. i \notin {7, 9, 10, 11, 12, 13}
        BY <3>3, <3>7
      <4> QED BY <3>4, <4>1, <4>2
    <3> QED BY <3>7
  <2>3. \A k \in 1..13 : 13 - k + 1 \in 1..13
    OBVIOUS
  <2> QED BY <1>2, <1>3, <2>1, <2>2, <2>3
<1>5. \A i \in 1..6 : device[r][Basics[i]] > 0
  <2>1. \A i \in 1..6 : i <= 13 - n => device[r][Basics[i]] > 0
    BY DEF Along, Done, Has
  <2>2. 13 - n + 1 = 6 => device[r][Basics[6]] > 0
    <3>1. BootstrapSteps[6] = <<"ensure", Basics[6]>>
      BY PlanIs
    <3> QED BY <1>3, <3>1 DEF Has
  <2>3. \A i \in 1..6 : i <= 13 - n \/ (i = 6 /\ 13 - n + 1 = 6)
    BY <1>2, <1>4
  <2> QED BY <2>1, <2>2, <2>3
<1>6. \A i \in 1..6 : device'[r][Basics[i]] > 0
  BY <1>1, <1>5, Remains, BasicsAre
<1>8. Done(j)' = 9
  BY <1>7, PlanIs DEF Done
<1>9. \A i \in 1..4 : ClosingSteps[i] = BootstrapSteps[9 + i]
  BY PlanIs
<1> HIDE DEF n, r
<1>10. (Len(job[j].todo) \in 1..13)'
  BY <1>7, PlanIs
<1>11. (\A i \in 1..Len(job[j].todo) : job[j].todo[i] = BootstrapSteps[Done(j) + i])'
  <2>1. Len(job'[j].todo) = 4
    BY <1>7, PlanIs
  <2>2. \A i \in 1..4 : job'[j].todo[i] = BootstrapSteps[Done(j)' + i]
    BY <1>7, <1>8, <1>9
  <2> QED BY <2>1, <2>2
<1>12. (\A i \in 1..6 : i <= Done(j) => Has(j, Basics[i]))'
  BY <1>6, <1>7 DEF Has, r
<1>13. ~(Done(j)' >= 10)
  BY <1>8
<1>14. ~job'[j].seen
  BY <1>7
<1> QED BY <1>10, <1>11, <1>12, <1>13, <1>14 DEF Along

LEMMA ProvisionedInit == Init => Provisioned
BY DEF Init, Idle, None, Provisioned

LEMMA CountAdds ==
    ASSUME NEW j, NEW t, NEW n \in Nat, At(j, "ensure"), job[j].found = 0
    PROVE  Count(j, t, n) = n + 1
BY DEF Count, At

LEMMA ProvisionedNext ==
    ASSUME Shape, Conform, Provisioned, [Next]_vars
    PROVE  Provisioned'
<1> SUFFICES ASSUME NEW b \in Jobs, job'[b].kind = "bootstrap" PROVE Along(b)'
  BY DEF Provisioned
<1>1. ASSUME job'[b] = job[b] PROVE Along(b)'
  <2>1. job[b].kind = "bootstrap" /\ Along(b)
    BY <1>1 DEF Provisioned
  <2>2. At(b, "ensure") /\ job'[b].seen /\ job'[b].found > 0 => Has(b, Current(b)[2])
    BY <1>1, <2>1 DEF Along
  <2> QED BY <1>1, <2>1, <2>2, AlongStays
<1>2. ASSUME NEW j \in Jobs, NEW q, Start(j, q), Switches(q) \/ Stands(q) \/ Provisions(q)
      PROVE  Along(b)'
  <2>1. CASE b # j
    BY <1>1, <1>2, <2>1, StartIs
  <2>2. CASE b = j
    <3>1. job'[b] = q
      BY <1>2, <2>2, StartIs
    <3>2. q.todo = BootstrapSteps /\ q.seen = FALSE
      BY <1>2, <3>1, AskedIs DEF Switching, Standing
    <3>3. job'[b].todo = BootstrapSteps /\ ~job'[b].seen /\ Done(b)' = 0
      BY <3>1, <3>2, PlanIs DEF Done
    <3>4. (\A i \in 1..Len(job[b].todo) : job[b].todo[i] = BootstrapSteps[Done(b) + i])'
      BY <3>3, PlanIs
    <3> QED BY <3>3, <3>4, PlanIs DEF Along
  <2> QED BY <2>1, <2>2
<1>3. ASSUME NEW j \in Jobs, b # j, Look(j) \/ Execute(j) \/ Fail(j) \/ Writes(j)
      PROVE  Along(b)'
  <2>1. \/ Sees(j)
        \/ Advance(j, <<>>) \/ Advance(j, Tail(job[j].todo)) \/ Advance(j, SkipTo(j))
    BY <1>3, LookIs, WritesIs DEF Skips, Execute, Fail, StopsHere
  <2>2. job'[b] = job[b]
    BY <1>3, <2>1, SeesIs, OthersStay
  <2> QED BY <1>1, <2>2
<1>4. ASSUME Look(b) PROVE Along(b)'
  <2>1. CASE Sees(b)
    <3>1. /\ job'[b].kind = job[b].kind /\ job'[b].router = job[b].router
          /\ job'[b].todo = job[b].todo
          /\ job'[b].found = device[job[b].router][Current(b)[2]]
      BY <2>1, SeesIs
    <3>2. job[b].kind = "bootstrap" /\ Along(b)
      BY <3>1 DEF Provisioned
    <3>3. At(b, "ensure") /\ job'[b].seen /\ job'[b].found > 0 => Has(b, Current(b)[2])
      BY <3>1 DEF Has
    <3> QED BY <3>1, <3>2, <3>3, AlongStays
  <2>2. CASE Skips(b)
    <3> DEFINE n == device[job[b].router][Current(b)[2]]
    <3>1. /\ At(b, "ensure") \/ At(b, "remove")
          /\ ~Needed(b, n) /\ Advance(b, SkipTo(b))
      BY <2>2 DEF Skips
    <3>2. job[b].todo # <<>> /\ job[b].kind = "bootstrap" /\ Along(b)
      <4>1. SkipTo(b) = <<>> \/ job'[b].kind = job[b].kind
        BY <3>1, MovedOn
      <4>2. SkipTo(b) # <<>>
        <5>1. SkipTo(b) = <<>> => job'[b] = Idle
          BY <3>1, MovedOn
        <5> QED BY <5>1 DEF Idle, None
      <4>3. job[b].todo # <<>>
        BY <3>1 DEF At
      <4> QED BY <4>1, <4>2, <4>3 DEF Provisioned
    <3>3. At(b, "ensure") /\ job[b].router \in Routers /\ Current(b)[2] \in Things
      <4>1. Current(b) \in CommandsOf("bootstrap") /\ "bootstrap" \in Kinds
        BY <3>2, AtHand
      <4>2. ~At(b, "remove")
        BY <4>1, Forms DEF At
      <4> QED BY <3>1, <4>2, AddingIsChanging
    <3>4. Has(b, Current(b)[2])
      <4>1. n \in Nat
        BY <3>3 DEF Shape, Typed
      <4>2. n # 0
        BY <3>1, <3>3 DEF Needed
      <4> QED BY <4>1, <4>2 DEF Has
    <3>5. CASE Current(b)[2] \in {"ca", "server"}
      BY <3>1, <3>2, <3>3, <3>4, <3>5, SkipsTo, AlongCloses
    <3>6. CASE Current(b)[2] \notin {"ca", "server"}
      <4>1. Advance(b, Tail(job[b].todo)) /\ device' = device
        BY <1>4, <3>1, <3>6, SkipsTo, LookIs
      <4>2. ASSUME NEW i \in 1..6, i = Done(b) + 1 PROVE device'[job[b].router][Basics[i]] > 0
        <5>1. Current(b) = BootstrapSteps[i]
          BY <3>2, <4>2, FirstIs
        <5> QED BY <3>4, <4>1, <5>1, PlanIs DEF Has
      <4>3. Done(b) + 1 # 10
        <5>1. Current(b) = BootstrapSteps[Done(b) + 1]
          BY <3>2, FirstIs
        <5> QED BY <3>3, <5>1, PlanIs DEF At
      <4> QED BY <3>2, <4>1, <4>2, <4>3, AlongTail
    <3> QED BY <3>5, <3>6
  <2> QED BY <1>4, <2>1, <2>2, LookIs
<1>5. ASSUME Execute(b) PROVE Along(b)'
  <2>1. /\ job[b].todo # <<>> /\ Ready(b) /\ ~Throws(b) /\ device' = Effect(b)
        /\ Advance(b, Tail(job[b].todo))
    BY <1>5 DEF Execute
  <2>2. job[b].kind = "bootstrap" /\ Along(b)
    BY <2>1, WasSo DEF Provisioned, None
  <2>3. job[b].router \in Routers
    BY <2>2 DEF Shape, Sound, Changing
  <2>4. Current(b) = BootstrapSteps[Done(b) + 1]
    BY <2>1, <2>2, FirstIs
  <2>5. ASSUME NEW i \in 1..6, i = Done(b) + 1 PROVE device'[job[b].router][Basics[i]] > 0
    <3>1. Current(b) = <<"ensure", Basics[i]>> /\ Basics[i] \in Things \ Sidecar
      BY <2>4, <2>5, PlanIs, BasicsAre
    <3>2. At(b, "ensure") /\ ~At(b, "run") /\ Current(b)[2] = Basics[i]
      BY <2>1, <3>1 DEF At
    <3>3. job[b].seen /\ job[b].found \in Nat /\ device[job[b].router][Basics[i]] \in Nat
      BY <2>1, <2>3, <3>1, <3>2 DEF Ready, Shape, Typed, Sound, Works
    <3>4. CASE job[b].found = 0
      <4> DEFINE r == job[b].router
                 t == Basics[i]
      <4>1. Effect(b)[r][t] = Count(b, t, device[r][t])
        <5>1. Current(b)[2] \in Things /\ Current(b)[2] = t
          BY <3>1, <3>2
        <5>2. Effect(b)[r][Current(b)[2]] = Count(b, Current(b)[2], device[r][Current(b)[2]])
          BY <2>1, <2>3, <5>1, EffectAt
        <5> QED BY <5>1, <5>2
      <4>2. Count(b, t, device[r][t]) = device[r][t] + 1
        BY <3>2, <3>3, <3>4, CountAdds
      <4> QED BY <2>1, <3>3, <4>1, <4>2
    <3>5. CASE job[b].found > 0
      <4>1. device[job[b].router][Basics[i]] > 0
        BY <2>2, <3>2, <3>3, <3>5 DEF Along, Has
      <4> QED BY <2>3, <3>1, <4>1, Remains
    <3> QED BY <3>3, <3>4, <3>5
  <2>6. ASSUME Done(b) + 1 = 10 PROVE device'[job[b].router]["service"] > 0
    <3>1. Current(b) = <<"run", "service">>
      BY <2>4, <2>6, PlanIs
    <3>2. ~At(b, "ensure") /\ ~At(b, "remove") /\ Current(b)[2] = "service"
      BY <3>1 DEF At
    <3>3. Effect(b)[job[b].router]["service"] = 1
      BY <2>1, <2>3, <3>2, EffectAt, BasicsAre DEF Count
    <3> QED BY <2>1, <3>3
  <2> QED BY <2>1, <2>2, <2>5, <2>6, AlongTail
<1>6. ~Fail(b)
  <2>1. ASSUME Fail(b) PROVE FALSE
    <3>1. job'[b] = Idle
      BY <2>1, MovedOn DEF Fail, StopsHere
    <3> QED BY <3>1 DEF Idle, None
  <2> QED BY <2>1
<1>7. ASSUME Writes(b) PROVE Along(b)'
  <2>1. At(b, "db") /\ job[b].todo # <<>> /\ Advance(b, Tail(job[b].todo))
    <3>1. ~Advance(b, <<>>)
      <4>1. Advance(b, <<>>) => job'[b] = Idle
        BY MovedOn
      <4> QED BY <4>1 DEF Idle, None
    <3> QED BY <1>7, <3>1, WritesIs
  <2>2. job[b].kind = "bootstrap" /\ Along(b)
    BY <2>1, WasSo DEF Provisioned, None
  <2>3. Current(b) = BootstrapSteps[Done(b) + 1]
    BY <2>1, <2>2, FirstIs
  <2>4. Done(b) + 1 \notin 1..6 /\ Done(b) + 1 # 10
    BY <2>1, <2>3, PlanIs DEF At
  <2> QED BY <2>1, <2>2, <2>4, AlongTail
<1>8. ~Crash
  BY DEF Crash, Idle, None
<1>9. ASSUME UNCHANGED job PROVE Along(b)'
  BY <1>1, <1>9
<1> QED BY <1>2, <1>3, <1>4, <1>5, <1>6, <1>7, <1>8, <1>9, Steps DEF Edit, vars

LEMMA ProvisionedIsBound == Shape /\ Provisioned => BoundIsProvisioned
<1> SUFFICES ASSUME Shape, Provisioned, NEW j \in Jobs, job[j].kind = "bootstrap",
                    Is(j, "db", "persist") \/ Is(j, "db", "activate"),
                    NEW t \in {"interface", "address", "input", "masquerade", "user", "ca", "service"}
             PROVE  device[job[j].router][t] > 0
  BY DEF BoundIsProvisioned
<1>1. Along(j)
  BY DEF Provisioned
<1>2. /\ Current(j) = BootstrapSteps[Done(j) + 1] /\ Done(j) \in 0..12
      /\ Current(j)[1] = "db" /\ Current(j)[2] \in {"persist", "activate"}
  BY <1>1, FirstIs DEF Is, At
<1>3. Done(j) >= 10
  <2>1. \A i \in 1..10 : BootstrapSteps[i][1] # "db"
    <3>1. \A i \in 1..6 : BootstrapSteps[i][1] # "db"
      BY PlanIs
    <3>2. \A i \in {7, 8, 9, 10} : BootstrapSteps[i][1] # "db"
      BY PlanIs
    <3>3. \A i \in 1..10 : i \in 1..6 \/ i \in {7, 8, 9, 10}
      OBVIOUS
    <3> QED BY <3>1, <3>2, <3>3
  <2>2. ASSUME ~(Done(j) >= 10) PROVE FALSE
    <3>1. Done(j) \in 0..12
      BY <1>2
    <3>2. Done(j) + 1 \in 1..10
      BY <2>2, <3>1
    <3>3. BootstrapSteps[Done(j) + 1][1] # "db"
      BY <2>1, <3>2
    <3> QED BY <1>2, <3>3
  <2> QED BY <2>2
<1>4. \A i \in 1..6 : Has(j, Basics[i])
  <2>1. \A i \in 1..6 : i <= Done(j)
    BY <1>2, <1>3
  <2> QED BY <1>1, <2>1 DEF Along
<1>5. Has(j, "service")
  BY <1>1, <1>3 DEF Along
<1>6. t = "service" \/ \E i \in 1..6 : t = Basics[i]
  BY DEF Basics
<1> QED BY <1>4, <1>5, <1>6 DEF Has

\* A wizard that stores credentials or binds the interface has put everything
\* a peer needs on the router, or has found it there, wherever attempts before
\* it were cut short, and however requests overlap.
THEOREM NeverHalfProvisioned == Spec => []BoundIsProvisioned
<1> DEFINE Inv == Shape /\ Conform /\ Provisioned
<1>1. Init => Inv
  BY ShapeInit, ConformInit, ProvisionedInit
<1>2. Inv /\ [Next]_vars => Inv'
  BY ShapeNext, ConformNext, ProvisionedNext
<1>3. Inv => BoundIsProvisioned
  BY ProvisionedIsBound
<1> QED BY <1>1, <1>2, <1>3, PTL DEF Spec

-----------------------------------------------------------------------------
(* The obfuscator is accounted for.  What a request that switches it has   *)
(* still to do makes up for what the tables do not say meanwhile; q is     *)
(* such a request.                                                         *)
Pending(q, c) == \E i \in DOMAIN q.todo : q.todo[i] = c
Off(p)        == Serving(p) => p \in forgotten
Left(q)       == \A t \in Sidecar : device[q.router][t] = 0 \/ Pending(q, <<"remove", t>>)
FileGoes(q)   == Off(Host) \/ Pending(q, <<"db", "removeHost">>)

HostKept(q) ==
  /\ config = Host \/ (config = q.old /\ Pending(q, <<"db", "storeHost">>))
  /\ IF q.old = "router" THEN Left(q) ELSE Off(q.router)
RouterKept(q) ==
  /\ config = "router" \/ (config = q.old /\ Pending(q, <<"db", "storeRouter">>))
  /\ IF q.old = Host THEN FileGoes(q) ELSE Off(Host)
DisableKept(q) ==
  /\ config = q.old /\ q.old \in {Host, "router"}
  /\ \A i \in DOMAIN q.todo : q.todo[i] = <<"db", "deleteRow">> <=> i = Len(q.todo)
  /\ IF q.old = Host THEN Off(q.router) /\ FileGoes(q) ELSE Off(Host) /\ Left(q)
Kept(q) ==
  /\ q.router = bound \/ q.router \in forgotten
  /\ \A p \in Routers : p # q.router => Off(p)
  /\ q.kind = "host" => HostKept(q)
  /\ q.kind = "router" => RouterKept(q)
  /\ q.kind = "disable" => DisableKept(q)

Balanced == \A p \in Routers \union {Host} : Serving(p) => RowFor(p) \/ p \in forgotten
Books ==
  /\ (\A j \in Jobs : job[j].kind \notin Switching) => Balanced
  /\ \A j \in Jobs : \A q : q = job[j] /\ q.kind \in Switching => Kept(q)

LEMMA HostIsNone == Host \notin Routers /\ Self \notin Routers /\ Self # Host
BY NamesAssumption DEF Host, Self

\* Nothing that q is about changes, or the interface is bound elsewhere and
\* what it leaves behind is remembered.
Aside ==
  /\ config' = config /\ hostFile' = hostFile
  /\ \A p \in Routers, t \in Sidecar : device'[p][t] = device[p][t]
  /\ \/ bound' = bound /\ forgotten' = forgotten
     \/ forgotten' = forgotten \union ({bound} \ {bound', Self})

LEMMA AsideServing ==
    ASSUME Aside
    PROVE  /\ \A p \in Routers \union {Host} : Serving(p)' <=> Serving(p)
           /\ \A p : Off(p) /\ p \in Routers \union {Host} => Off(p)'
           /\ forgotten \subseteq forgotten'
<1>1. \A p \in Routers \union {Host} : Serving(p)' <=> Serving(p)
  BY DEF Aside, Serving
<1>2. forgotten \subseteq forgotten'
  BY DEF Aside
<1> QED BY <1>1, <1>2 DEF Off

LEMMA KeptAside ==
    ASSUME NEW q, NEW s, q.router \in Routers, Kept(q), Aside,
           s.kind = q.kind, s.router = q.router, s.old = q.old, s.todo = q.todo
    PROVE  Kept(s)'
<1>1. forgotten \subseteq forgotten'
  BY AsideServing
<1>2. \A p \in Routers \union {Host} : Off(p) => Off(p)'
  BY AsideServing
<1>3. config' = config /\ \A t \in Sidecar : device'[q.router][t] = device[q.router][t]
  BY DEF Aside
<1>4. \A c : Pending(s, c)' <=> Pending(q, c)
  BY DEF Pending
<1>5. s.router = bound' \/ s.router \in forgotten'
  <2>1. q.router # Self
    BY HostIsNone
  <2> QED BY <1>1, <2>1 DEF Aside, Kept
<1>6. \A p \in Routers : p # s.router => Off(p)'
  BY <1>2 DEF Kept
<1>7. Left(q) => Left(s)'
  BY <1>3, <1>4 DEF Left
<1>8. FileGoes(q) => FileGoes(s)'
  BY <1>2, <1>4 DEF FileGoes
<1>9. q.kind = "host" => HostKept(s)'
  BY <1>2, <1>3, <1>4, <1>7 DEF Kept, HostKept
<1>10. q.kind = "router" => RouterKept(s)'
  BY <1>2, <1>3, <1>4, <1>8 DEF Kept, RouterKept
<1>11. q.kind = "disable" => DisableKept(s)'
  BY <1>2, <1>3, <1>7, <1>8 DEF Kept, DisableKept
<1> QED BY <1>5, <1>6, <1>9, <1>10, <1>11 DEF Kept

LEMMA BalancedAside ==
    ASSUME Shape, Balanced, Aside
    PROVE  Balanced'
<1> SUFFICES ASSUME NEW p \in Routers \union {Host}, Serving(p)'
             PROVE  RowFor(p)' \/ p \in forgotten'
  BY DEF Balanced
<1>1. RowFor(p) \/ p \in forgotten
  BY AsideServing DEF Balanced
<1>2. ASSUME RowFor(p) PROVE RowFor(p)' \/ p \in forgotten'
  BY <1>2, HostIsNone DEF RowFor, Aside
<1> QED BY <1>1, <1>2, AsideServing

\* No request that switches begins, ends or moves.
LEMMA BooksAside ==
    ASSUME Shape, Books, Aside,
           \A i \in Jobs : job[i].kind \in Switching \/ job'[i].kind \in Switching
                             => job'[i] = job[i]
    PROVE  Books'
<1>1. (\A j \in Jobs : job'[j].kind \notin Switching) => Balanced'
  BY BalancedAside DEF Books
<1>2. ASSUME NEW j \in Jobs, NEW q, q = job'[j], q.kind \in Switching PROVE Kept(q)'
  <2>1. q = job[j] /\ Kept(q)
    BY <1>2 DEF Books
  <2>2. q.router \in Routers
    BY <1>2, <2>1 DEF Shape, Sound, Switching, Changing
  <2> QED BY <2>1, <2>2, KeptAside
<1> QED BY <1>1, <1>2 DEF Books

\* A request that switches is over.
LEMMA Over ==
    ASSUME NEW q, q.kind \in Switching, q.router \in Routers, q.todo = <<>>, Kept(q)',
           q.kind # "disable"
    PROVE  Balanced'
<1> SUFFICES ASSUME NEW p \in Routers \union {Host}, Serving(p)'
             PROVE  RowFor(p)' \/ p \in forgotten'
  BY DEF Balanced
<1>1. \A c : ~Pending(q, c)'
  BY DEF Pending
<1>2. CASE p \in Routers /\ p # q.router
  BY <1>2 DEF Kept, Off
<1>3. CASE p = q.router /\ q.kind = "host"
  <2>1. ASSUME Left(q)' PROVE FALSE
    <3>1. PICK t \in Sidecar : device'[p][t] > 0
      BY <1>3, HostIsNone DEF Serving
    <3>2. device'[p][t] = 0
      BY <1>1, <1>3, <2>1 DEF Left
    <3> QED BY <3>1, <3>2
  <2>2. Off(q.router)'
    BY <1>3, <2>1 DEF Kept, HostKept
  <2> QED BY <1>3, <2>2 DEF Off
<1>4. CASE p = Host /\ q.kind = "host"
  BY <1>1, <1>4 DEF Kept, HostKept, RowFor
<1>5. CASE p = q.router /\ q.kind = "router"
  BY <1>1, <1>5, HostIsNone DEF Kept, RouterKept, RowFor
<1>6. CASE p = Host /\ q.kind = "router"
  BY <1>1, <1>6 DEF Kept, RouterKept, FileGoes, Off
<1> QED BY <1>2, <1>3, <1>4, <1>5, <1>6 DEF Switching

\* The command at hand of a request that switches.  What it does, as far as
\* the places of the obfuscator are concerned.
Does(q, c) ==
  /\ bound' = bound /\ forgotten \subseteq forgotten'
  /\ \A p \in Routers, t \in Sidecar : p # q.router => device'[p][t] = device[p][t]
  /\ config' = IF c = <<"db", "storeHost">> THEN Host
               ELSE IF c = <<"db", "storeRouter">> THEN "router" ELSE config
  /\ q.kind # "router" =>
       \A t \in Sidecar : device'[q.router][t] \in {0, device[q.router][t]}
  /\ \A t \in Sidecar : c = <<"remove", t>> => device'[q.router][t] = 0
  /\ q.kind # "host" => (hostFile' => hostFile)
  /\ c = <<"db", "removeHost">> => ~hostFile' \/ Host \in forgotten'

LEMMA KeptGoesOn ==
    ASSUME NEW q, NEW s, NEW S, q.todo \in Seq(S), q.todo # <<>>, q.router \in Routers,
           q.kind \in Switching, q.todo[1] \in CommandsOf(q.kind),
           Kept(q), Does(q, q.todo[1]),
           s.kind = q.kind, s.router = q.router, s.old = q.old, s.todo = Tail(q.todo)
    PROVE  Kept(s)'
<1> DEFINE c == q.todo[1]
<1>1. \A d : d # c => (Pending(q, d) => Pending(s, d)')
  <2> SUFFICES ASSUME NEW d, d # c, NEW i \in DOMAIN q.todo, q.todo[i] = d
               PROVE  \E k \in DOMAIN s.todo : s.todo[k] = d
    BY DEF Pending
  <2>1. /\ DOMAIN q.todo = 1..Len(q.todo) /\ Len(q.todo) \in Nat
        /\ DOMAIN s.todo = 1..(Len(q.todo) - 1)
        /\ \A k \in 1..(Len(q.todo) - 1) : s.todo[k] = q.todo[k + 1]
    BY TailIs
  <2>2. i \in 1..Len(q.todo) /\ i # 1
    BY <2>1
  <2>3. i - 1 \in 1..(Len(q.todo) - 1) /\ (i - 1) + 1 = i
    BY <2>1, <2>2
  <2> QED BY <2>1, <2>3
<1>2. /\ c[1] = "ensure" => q.kind = "router"
      /\ c = <<"db", "storeHost">> => q.kind = "host"
      /\ c = <<"db", "storeRouter">> => q.kind = "router"
      /\ c = <<"db", "removeHost">> => q.kind \in {"router", "disable"}
  <2>1. q.kind \in Kinds
    BY DEF Switching, Kinds, Changing
  <2> QED BY <2>1, Forms DEF Switching
<1> HIDE DEF c
<1>14. q.kind # "router" =>
         \A t \in Sidecar : device'[q.router][t] \in {0, device[q.router][t]}
  BY DEF Does
<1>3. bound' = bound /\ forgotten \subseteq forgotten'
  BY DEF Does
<1>4. \A p \in Routers : p # q.router => (Off(p) => Off(p)')
  BY <1>3, HostIsNone DEF Does, Off, Serving
<1>5. q.kind # "host" => (Off(Host) => Off(Host)')
  BY <1>3 DEF Does, Off, Serving
<1>6. q.kind # "router" => (Off(q.router) => Off(q.router)')
  <2> SUFFICES ASSUME q.kind # "router", Off(q.router), Serving(q.router)' PROVE Serving(q.router)
    BY <1>3 DEF Off
  <2>1. PICK t \in Sidecar : device'[q.router][t] > 0
    BY HostIsNone DEF Serving
  <2>2. device[q.router][t] > 0
    BY <1>14, <2>1
  <2> QED BY <2>2, HostIsNone DEF Serving
<1>7. q.kind # "router" /\ Left(q) => Left(s)'
  <2> SUFFICES ASSUME q.kind # "router", Left(q), NEW t \in Sidecar
               PROVE  device'[q.router][t] = 0 \/ Pending(s, <<"remove", t>>)'
    BY DEF Left
  <2>1. CASE device[q.router][t] = 0
    BY <1>14, <2>1
  <2>2. CASE Pending(q, <<"remove", t>>) /\ c = <<"remove", t>>
    BY <2>2 DEF Does, c
  <2>3. CASE Pending(q, <<"remove", t>>) /\ c # <<"remove", t>>
    BY <1>1, <2>3
  <2> QED BY <2>1, <2>2, <2>3 DEF Left
<1>8. q.kind # "host" /\ FileGoes(q) => FileGoes(s)'
  <2> SUFFICES ASSUME q.kind # "host", FileGoes(q) PROVE FileGoes(s)'
    OBVIOUS
  <2>1. CASE Off(Host)
    BY <1>5, <2>1 DEF FileGoes
  <2>2. CASE Pending(q, <<"db", "removeHost">>) /\ c = <<"db", "removeHost">>
    BY <2>2 DEF Does, c, FileGoes, Off, Serving
  <2>3. CASE Pending(q, <<"db", "removeHost">>) /\ c # <<"db", "removeHost">>
    BY <1>1, <2>3 DEF FileGoes
  <2> QED BY <2>1, <2>2, <2>3 DEF FileGoes
<1>9. ASSUME q.kind = "host" PROVE HostKept(s)'
  <2>1. c # <<"db", "storeRouter">>
    BY <1>2, <1>9
  <2>2. config' = Host \/ (config' = q.old /\ Pending(s, <<"db", "storeHost">>)')
    <3>1. CASE c = <<"db", "storeHost">>
      BY <3>1 DEF Does, c
    <3>2. CASE c # <<"db", "storeHost">>
      <4>1. config' = config
        BY <2>1, <3>2 DEF Does, c
      <4> QED BY <1>1, <1>9, <3>2, <4>1 DEF Kept, HostKept
    <3> QED BY <3>1, <3>2
  <2>3. IF s.old = "router" THEN Left(s)' ELSE Off(s.router)'
    BY <1>6, <1>7, <1>9 DEF Kept, HostKept
  <2> QED BY <2>2, <2>3 DEF HostKept
<1>10. ASSUME q.kind = "router" PROVE RouterKept(s)'
  <2>1. c # <<"db", "storeHost">>
    BY <1>2, <1>10
  <2>2. config' = "router" \/ (config' = q.old /\ Pending(s, <<"db", "storeRouter">>)')
    <3>1. CASE c = <<"db", "storeRouter">>
      BY <3>1 DEF Does, c
    <3>2. CASE c # <<"db", "storeRouter">>
      <4>1. config' = config
        BY <2>1, <3>2 DEF Does, c
      <4> QED BY <1>1, <1>10, <3>2, <4>1 DEF Kept, RouterKept
    <3> QED BY <3>1, <3>2
  <2>3. IF s.old = Host THEN FileGoes(s)' ELSE Off(Host)'
    BY <1>5, <1>8, <1>10 DEF Kept, RouterKept
  <2> QED BY <2>2, <2>3 DEF RouterKept
<1>11. ASSUME q.kind = "disable" PROVE DisableKept(s)'
  <2>1. config' = s.old /\ s.old \in {Host, "router"}
    BY <1>2, <1>11 DEF Does, c, Kept, DisableKept
  <2>2. \A i \in DOMAIN s.todo : s.todo[i] = <<"db", "deleteRow">> <=> i = Len(s.todo)
    <3>1. /\ DOMAIN q.todo = 1..Len(q.todo) /\ Len(q.todo) \in Nat
          /\ DOMAIN s.todo = 1..(Len(q.todo) - 1) /\ Len(s.todo) = Len(q.todo) - 1
          /\ \A k \in 1..(Len(q.todo) - 1) : s.todo[k] = q.todo[k + 1]
      BY TailIs
    <3>2. \A i \in DOMAIN q.todo : q.todo[i] = <<"db", "deleteRow">> <=> i = Len(q.todo)
      BY <1>11 DEF Kept, DisableKept
    <3> SUFFICES ASSUME NEW i \in 1..(Len(q.todo) - 1)
                 PROVE  s.todo[i] = <<"db", "deleteRow">> <=> i = Len(q.todo) - 1
      BY <3>1
    <3>3. i + 1 \in DOMAIN q.todo
      BY <3>1
    <3>4. i + 1 = Len(q.todo) <=> i = Len(q.todo) - 1
      BY <3>1
    <3> QED BY <3>1, <3>2, <3>3, <3>4
  <2>3. IF s.old = Host THEN Off(s.router)' /\ FileGoes(s)' ELSE Off(Host)' /\ Left(s)'
    BY <1>5, <1>6, <1>7, <1>8, <1>11 DEF Kept, DisableKept
  <2> QED BY <2>1, <2>2, <2>3 DEF DisableKept
<1>12. s.router = bound' \/ s.router \in forgotten'
  BY <1>3 DEF Kept
<1>13. \A p \in Routers : p # s.router => Off(p)'
  BY <1>4 DEF Kept
<1> QED BY <1>9, <1>10, <1>11, <1>12, <1>13 DEF Kept

\* The one request that switches, with its sequence of commands.
LEMMA SwitchingIs ==
    ASSUME Shape, Conform, Books, NEW j \in Jobs, job[j].kind \in Switching,
           NEW q, q = job[j]
    PROVE  /\ q.router \in Routers /\ q.kind \in Kinds /\ Kept(q)
           /\ q.todo \in Seq(CommandsOf(q.kind)) /\ q.todo # <<>>
           /\ q.todo[1] = Current(j) /\ q.todo[1] \in CommandsOf(q.kind)
<1>1. q.router \in Routers /\ q.kind \in Kinds /\ q.todo # <<>>
  BY DEF Shape, Sound, Works, Switching, Changing, None
<1>2. q.todo \in Seq(CommandsOf(q.kind))
  BY DEF Conform, TodosOf
<1>3. Kept(q)
  BY DEF Books
<1>4. q.todo[1] = Current(j) /\ q.todo[1] \in CommandsOf(q.kind)
  BY <1>1, AtHand DEF Current
<1> QED BY <1>1, <1>2, <1>3, <1>4

LEMMA BooksMove ==
    ASSUME OneChanger, NEW j \in Jobs, job[j].kind \in Switching,
           \A i \in Jobs : i # j => job'[i] = job[i],
           \/ job'[j] = Idle /\ Balanced'
           \/ job'[j].kind \in Switching /\ \A q : q = job'[j] => Kept(q)'
    PROVE  Books'
<1>1. \A i \in Jobs : i # j => job'[i].kind \notin Switching
  BY DEF OneChanger, Switching, Changing
<1>2. Idle.kind \notin Switching
  BY DEF Idle, None, Switching
<1>3. CASE job'[j] = Idle /\ Balanced'
  BY <1>1, <1>2, <1>3 DEF Books
<1>4. CASE job'[j].kind \in Switching /\ \A q : q = job'[j] => Kept(q)'
  <2>1. ASSUME NEW i \in Jobs, NEW q, q = job'[i], q.kind \in Switching PROVE Kept(q)'
    BY <1>1, <1>4, <2>1
  <2>2. ~(\A i \in Jobs : job'[i].kind \notin Switching)
    BY <1>4
  <2> QED BY <2>1, <2>2 DEF Books
<1> QED BY <1>3, <1>4

\* It has done a command.
LEMMA BooksTail ==
    ASSUME Shape, Conform, Books, OneChanger, NEW j \in Jobs, job[j].kind \in Switching,
           Advance(j, Tail(job[j].todo)), Current(j) # <<"db", "deleteRow">>,
           NEW q, q = job[j], NEW c, c = Current(j), Does(q, c)
    PROVE  Books'
<1>1. /\ q.router \in Routers /\ q.kind \in Kinds /\ Kept(q)
      /\ q.todo \in Seq(CommandsOf(q.kind)) /\ q.todo # <<>>
      /\ q.todo[1] = c /\ q.todo[1] \in CommandsOf(q.kind) /\ q.kind \in Switching
  BY SwitchingIs
<1>2. Does(q, q.todo[1])
  BY <1>1
<1>3. ASSUME NEW s, s.kind = q.kind, s.router = q.router, s.old = q.old, s.todo = Tail(q.todo)
      PROVE  Kept(s)'
  BY <1>1, <1>2, <1>3, KeptGoesOn
<1>4. \A i \in Jobs : i # j => job'[i] = job[i]
  BY OthersStay
<1>5. CASE Tail(q.todo) = <<>>
  <2>1. job'[j] = Idle
    BY <1>5, MovedOn
  <2> DEFINE s == [kind |-> q.kind, router |-> q.router, old |-> q.old, todo |-> Tail(q.todo)]
  <2>2. s.kind = q.kind /\ s.router = q.router /\ s.old = q.old /\ s.todo = Tail(q.todo)
    OBVIOUS
  <2> HIDE DEF s
  <2>3. Kept(s)'
    BY <1>3, <2>2
  <2>4. q.kind # "disable"
    <3>1. Len(Tail(q.todo)) = Len(q.todo) - 1 /\ Len(q.todo) \in Nat /\ Len(Tail(q.todo)) = 0
          /\ DOMAIN q.todo = 1..Len(q.todo)
      BY <1>1, <1>5, TailIs
    <3>2. Len(q.todo) = 1 /\ 1 \in DOMAIN q.todo
      BY <3>1
    <3>3. q.kind = "disable" =>
            \A i \in DOMAIN q.todo : q.todo[i] = <<"db", "deleteRow">> <=> i = Len(q.todo)
      BY <1>1 DEF Kept, DisableKept
    <3> QED BY <1>1, <3>2, <3>3
  <2>5. Balanced'
    BY <1>1, <1>5, <2>2, <2>3, <2>4, Over
  <2> QED BY <1>4, <2>1, <2>5, BooksMove
<1>6. CASE Tail(q.todo) # <<>>
  <2>1. job'[j].kind = q.kind
    BY <1>6, MovedOn
  <2>2. job'[j].router = q.router
    BY <1>6, MovedOn
  <2>3. job'[j].old = q.old
    BY <1>6, MovedOn
  <2>4. job'[j].todo = Tail(q.todo)
    BY <1>6, MovedOn
  <2>5. \A s : s = job'[j] => Kept(s)'
    BY <1>3, <2>1, <2>2, <2>3, <2>4
  <2> QED BY <1>1, <1>4, <2>1, <2>5, BooksMove
<1> QED BY <1>5, <1>6

\* It stops before its end, or the process does.
LEMMA Stopped ==
    ASSUME Shape, Conform, Books, NEW j \in Jobs, job[j].kind \in Switching,
           NEW q, q = job[j],
           UNCHANGED <<bound, config, hostFile>>, forgotten \union Aborts(j) \subseteq forgotten',
           \A p \in Routers, t \in Sidecar : p # q.router => device'[p][t] = device[p][t],
           q.kind # "router" =>
             \A t \in Sidecar : device'[q.router][t] \in {0, device[q.router][t]}
    PROVE  Balanced'
<1>1. q.router \in Routers /\ Kept(q)
  BY SwitchingIs
<1> SUFFICES ASSUME NEW p \in Routers \union {Host}, Serving(p)'
             PROVE  RowFor(p)' \/ p \in forgotten'
  BY DEF Balanced
<1>2. CASE p \in Routers /\ p # q.router
  <2>1. Serving(p)
    BY <1>2, HostIsNone DEF Serving
  <2> QED BY <1>1, <1>2, <2>1 DEF Kept, Off
<1>3. CASE p \in {q.router, Host} /\ q.kind \in {Host, "router"} /\ q.old # q.kind
  BY <1>3 DEF Aborts
<1>4. CASE p = Host /\ ((q.kind = "host" /\ q.old = "host") \/ (q.kind = "disable" /\ q.old = Host))
  <2>1. config = Host
    BY <1>1, <1>4 DEF Kept, HostKept, DisableKept, Host
  <2> QED BY <1>4, <2>1 DEF RowFor
<1>5. CASE p = q.router /\ ((q.kind = "host" /\ q.old = "host") \/ (q.kind = "disable" /\ q.old = Host))
  <2>1. Off(p)
    BY <1>1, <1>5 DEF Kept, HostKept, DisableKept, Host
  <2>2. Serving(p)
    <3>1. PICK t \in Sidecar : device'[p][t] > 0
      BY <1>1, <1>5, HostIsNone DEF Serving
    <3>2. device'[p][t] \in {0, device[p][t]}
      BY <1>5, <3>1
    <3>3. device[p][t] > 0
      BY <3>1, <3>2
    <3> QED BY <1>1, <1>5, <3>3, HostIsNone DEF Serving
  <2> QED BY <2>1, <2>2 DEF Off
<1>6. CASE p = Host /\ ((q.kind = "router" /\ q.old = "router") \/ (q.kind = "disable" /\ q.old = "router"))
  <2>1. Off(Host)
    BY <1>1, <1>6 DEF Kept, RouterKept, DisableKept, Host
  <2> QED BY <1>6, <2>1 DEF Off, Serving
<1>7. CASE p = q.router /\ ((q.kind = "router" /\ q.old = "router") \/ (q.kind = "disable" /\ q.old = "router"))
  <2>1. config = "router" /\ (q.router = bound \/ q.router \in forgotten)
    BY <1>1, <1>7 DEF Kept, RouterKept, DisableKept
  <2> QED BY <1>1, <1>7, <2>1, HostIsNone DEF RowFor
<1>8. q.kind = "disable" => q.old \in {Host, "router"}
  BY <1>1 DEF Kept, DisableKept
<1> QED BY <1>2, <1>3, <1>4, <1>5, <1>6, <1>7, <1>8 DEF Switching, Host

\* The others are at rest, or do not touch the obfuscator.
LEMMA NotSwitching ==
    ASSUME Shape, Conform, NEW j \in Jobs, job[j].todo # <<>>, job[j].kind \notin Switching
    PROVE  \A p \in Routers, t \in Sidecar : Effect(j)[p][t] = device[p][t]
<1> SUFFICES ASSUME NEW p \in Routers, NEW t \in Sidecar,
                    Effect(j)[p][t] # device[p][t]
             PROVE  FALSE
  OBVIOUS
<1>1. t \in Things
  BY DEF Things
<1>2. t = Current(j)[2] /\ Effect(j)[p][t] = Count(j, t, device[p][t])
  BY <1>1, EffectIs
<1>3. job[j].kind \in Kinds /\ Current(j) \in CommandsOf(job[j].kind)
  BY AtHand
<1>4. ~At(j, "ensure") /\ ~At(j, "remove")
  BY <1>2, <1>3, Forms DEF At, Switching
<1>5. t \in Made /\ device[p][t] \in Nat
  BY <1>1 DEF Made, Sidecar, Shape, Typed
<1> QED BY <1>1, <1>2, <1>4, <1>5, CountBounds

\* What a switching request's command does on its router.
LEMMA Switched ==
    ASSUME Shape, Conform, Single, NEW j \in Jobs, job[j].todo # <<>>,
           job[j].kind \in Switching, NEW t \in Sidecar
    PROVE  /\ \A p \in Routers : p # job[j].router => Effect(j)[p][t] = device[p][t]
           /\ job[j].kind # "router" =>
                Effect(j)[job[j].router][t] \in {0, device[job[j].router][t]}
           /\ Current(j) = <<"remove", t>> => Effect(j)[job[j].router][t] = 0
<1> DEFINE r == job[j].router
           n == device[r][t]
<1>1. r \in Routers /\ t \in Things /\ t \notin {"service", "key"}
  BY DEF Shape, Sound, Switching, Changing, Things, Sidecar
<1>2. n \in Nat /\ n <= 1
  BY <1>1 DEF Shape, Typed, Single, Once
<1>3. \A p \in Routers : p # r => Effect(j)[p][t] = device[p][t]
  BY <1>1, EffectIs
<1>4. Effect(j)[r][t] = n \/ Effect(j)[r][t] = Count(j, t, n)
  BY <1>1, EffectIs
<1>5. At(j, "remove") => Count(j, t, n) = 0
  BY <1>2 DEF Count, At
<1>6. ~At(j, "remove") /\ ~At(j, "ensure") => Count(j, t, n) = n
  BY <1>1 DEF Count
<1>7. job[j].kind # "router" => ~At(j, "ensure")
  <2>1. job[j].kind \in Kinds /\ Current(j) \in CommandsOf(job[j].kind)
    BY AtHand
  <2> QED BY <2>1, Forms DEF At
<1>8. ASSUME Current(j) = <<"remove", t>> PROVE Effect(j)[r][t] = 0
  <2>1. At(j, "remove") /\ Current(j)[2] = t /\ ~Throws(j)
    BY <1>8 DEF At, Throws, Is
  <2>2. Effect(j)[r][Current(j)[2]] = Count(j, Current(j)[2], device[r][Current(j)[2]])
    BY <1>1, <2>1, EffectAt
  <2> QED BY <1>5, <2>1, <2>2
<1> HIDE DEF r, n
<1>9. job[j].kind # "router" => Effect(j)[r][t] \in {0, n}
  BY <1>4, <1>5, <1>6, <1>7
<1> QED BY <1>3, <1>8, <1>9 DEF r, n

LEMMA MovedKind ==
    ASSUME Shape, NEW j \in Jobs, job[j].kind \notin Switching,
           \/ Sees(j) \/ Skips(j) \/ Advance(j, <<>>) \/ Advance(j, Tail(job[j].todo))
    PROVE  job'[j].kind \notin Switching
<1>1. ASSUME NEW todo, Advance(j, todo) PROVE job'[j].kind \notin Switching
  <2>1. todo = <<>> => job'[j] = Idle
    BY <1>1, MovedOn
  <2>2. todo # <<>> => job'[j].kind = job[j].kind
    BY <1>1, MovedOn
  <2> QED BY <2>1, <2>2 DEF Idle, None, Switching
<1> QED BY <1>1, SeesIs DEF Skips

Steady == UNCHANGED <<bound, config, hostFile, forgotten>>

LEMMA BooksLook ==
    ASSUME Shape, Conform, Single, Books, NEW j \in Jobs, Look(j)
    PROVE  Books'
<1>1. /\ Steady /\ device' = device /\ (At(j, "ensure") \/ At(j, "remove"))
  BY LookIs DEF Steady, Sees, Skips
<1>2. Aside
  BY <1>1 DEF Aside, Steady
<1>3. \A i \in Jobs : i # j => job'[i] = job[i]
  <2>1. CASE Sees(j)
    BY <2>1, SeesIs
  <2>2. CASE Skips(j)
    <3>1. Advance(j, SkipTo(j))
      BY <2>2 DEF Skips
    <3> QED BY <3>1, OthersStay
  <2> QED BY <2>1, <2>2, LookIs
<1>4. CASE job[j].kind \notin Switching
  <2>1. job'[j].kind \notin Switching
    BY <1>4, MovedKind, LookIs
  <2> QED BY <1>2, <1>3, <1>4, <2>1, BooksAside
<1>5. CASE job[j].kind \in Switching /\ Sees(j)
  <2>1. PICK q : q = job[j]
    OBVIOUS
  <2>2. Kept(q) /\ q.router \in Routers
    BY <1>5, <2>1, SwitchingIs
  <2>3. /\ job'[j].kind = q.kind /\ job'[j].router = q.router
        /\ job'[j].todo = q.todo /\ job'[j].old = q.old
    BY <1>5, <2>1, SeesIs
  <2>4. \A s : s = job'[j] => Kept(s)'
    BY <1>2, <2>2, <2>3, KeptAside
  <2> QED BY <1>3, <1>5, <2>1, <2>3, <2>4, BooksMove DEF Single
<1>6. CASE job[j].kind \in Switching /\ Skips(j)
  <2>1. PICK q : q = job[j]
    OBVIOUS
  <2>2. PICK c : c = Current(j)
    OBVIOUS
  <2>3. Advance(j, Tail(job[j].todo))
    BY <1>1, <1>6, SkipsTo DEF Skips
  <2>4. c # <<"db", "deleteRow">> /\ c # <<"db", "storeHost">> /\ c # <<"db", "storeRouter">>
        /\ c # <<"db", "removeHost">>
    BY <1>1, <2>2 DEF At
  <2>5. ASSUME NEW t \in Sidecar, c = <<"remove", t>> PROVE device'[q.router][t] = 0
    <3>1. q.router \in Routers /\ t \in Things
      BY <1>6, <2>1, SwitchingIs DEF Things
    <3>2. device[q.router][t] \in Nat
      BY <3>1 DEF Shape, Typed
    <3>3. ~(device[q.router][t] > 0)
      BY <1>6, <2>1, <2>2, <2>5 DEF Skips, Needed, At
    <3> QED BY <1>1, <3>2, <3>3
  <2>6. Does(q, c)
    BY <1>1, <2>4, <2>5 DEF Does, Steady
  <2> QED BY <1>6, <2>1, <2>2, <2>3, <2>4, <2>6, BooksTail DEF Single
<1> QED BY <1>4, <1>5, <1>6, LookIs

\* Only a command that looks before it acts has seen anything.
Looking == \A j \in Jobs : job[j].seen => At(j, "ensure") \/ At(j, "remove")

LEMMA LookingInit == Init => Looking
BY DEF Init, Idle, Looking

LEMMA LookingNext ==
    ASSUME Shape, Looking, [Next]_vars
    PROVE  Looking'
<1> SUFFICES ASSUME NEW b \in Jobs, job'[b].seen PROVE (At(b, "ensure") \/ At(b, "remove"))'
  BY DEF Looking
<1>1. ASSUME job'[b] = job[b] PROVE (At(b, "ensure") \/ At(b, "remove"))'
  BY <1>1 DEF Looking, At, Current
<1>2. ASSUME NEW todo, Advance(b, todo) PROVE FALSE
  <2>1. todo = <<>> => job'[b] = Idle
    BY <1>2, MovedOn
  <2>2. todo # <<>> => job'[b].seen = FALSE
    BY <1>2, MovedOn
  <2> QED BY <2>1, <2>2 DEF Idle
<1>3. ASSUME NEW j \in Jobs, Look(j) \/ Execute(j) \/ Fail(j) \/ Writes(j)
      PROVE  (At(b, "ensure") \/ At(b, "remove"))'
  <2>1. \/ Sees(j)
        \/ Advance(j, <<>>) \/ Advance(j, Tail(job[j].todo)) \/ Advance(j, SkipTo(j))
    BY <1>3, LookIs, WritesIs DEF Skips, Execute, Fail, StopsHere
  <2>2. CASE b # j
    <3>1. job'[b] = job[b]
      BY <2>1, <2>2, SeesIs, OthersStay
    <3> QED BY <1>1, <3>1
  <2>3. CASE b = j
    <3>1. Sees(b)
      BY <1>2, <2>1, <2>3
    <3>2. job'[b].todo = job[b].todo /\ (At(b, "ensure") \/ At(b, "remove"))
      BY <3>1, SeesIs DEF Sees
    <3> QED BY <3>2 DEF At, Current
  <2> QED BY <2>2, <2>3
<1>4. ASSUME NEW j \in Jobs, NEW q, Start(j, q), Switches(q) \/ Stands(q) \/ Provisions(q)
      PROVE  (At(b, "ensure") \/ At(b, "remove"))'
  <2>1. q.seen = FALSE
    BY <1>4, AskedIs
  <2>2. b # j
    BY <1>4, <2>1, StartIs
  <2> QED BY <1>1, <1>4, <2>2, StartIs
<1>5. ~Crash
  BY DEF Crash, Idle
<1>6. ASSUME UNCHANGED job PROVE (At(b, "ensure") \/ At(b, "remove"))'
  BY <1>1, <1>6
<1> QED BY <1>3, <1>4, <1>5, <1>6, Steps DEF Edit, vars

LEMMA BooksExecute ==
    ASSUME Shape, Conform, Looking, Single, Books, NEW j \in Jobs, Execute(j)
    PROVE  Books'
<1>1. /\ Steady /\ device' = Effect(j) /\ job[j].todo # <<>>
      /\ Advance(j, Tail(job[j].todo)) /\ Ready(j)
  BY DEF Execute, Steady, Tables
<1>2. \A i \in Jobs : i # j => job'[i] = job[i]
  BY <1>1, OthersStay
<1>3. CASE job[j].kind \notin Switching
  <2>1. Aside
    BY <1>1, <1>3, NotSwitching DEF Aside, Steady
  <2>2. job'[j].kind \notin Switching
    BY <1>1, <1>3, MovedKind
  <2> QED BY <1>2, <1>3, <2>1, <2>2, BooksAside
<1>4. CASE job[j].kind \in Switching
  <2>1. PICK q : q = job[j]
    OBVIOUS
  <2>2. PICK c : c = Current(j)
    OBVIOUS
  <2>3. c[1] # "db"
    BY <1>1, <2>2 DEF Ready, Looking, At
  <2>4. /\ c # <<"db", "deleteRow">> /\ c # <<"db", "storeHost">>
        /\ c # <<"db", "storeRouter">> /\ c # <<"db", "removeHost">>
    BY <2>3
  <2>5. \A p \in Routers, t \in Sidecar : p # q.router => device'[p][t] = device[p][t]
    BY <1>1, <1>4, <2>1, Switched
  <2>6. q.kind # "router" => \A t \in Sidecar : device'[q.router][t] \in {0, device[q.router][t]}
    BY <1>1, <1>4, <2>1, Switched
  <2>7. \A t \in Sidecar : c = <<"remove", t>> => device'[q.router][t] = 0
    BY <1>1, <1>4, <2>1, <2>2, Switched
  <2>8. Does(q, c)
    BY <1>1, <2>4, <2>5, <2>6, <2>7 DEF Does, Steady
  <2> QED BY <1>1, <1>4, <2>1, <2>2, <2>4, <2>8, BooksTail DEF Single
<1> QED BY <1>3, <1>4

LEMMA BooksFail ==
    ASSUME Shape, Conform, Single, Books, NEW j \in Jobs, Fail(j)
    PROVE  Books'
<1>1. /\ UNCHANGED <<bound, config, hostFile>> /\ forgotten' = forgotten \union Aborts(j)
      /\ device' = device \/ device' = Effect(j)
      /\ job[j].todo # <<>> /\ Advance(j, <<>>)
  BY DEF Fail, StopsHere, Tables, At
<1>2. \A i \in Jobs : i # j => job'[i] = job[i]
  BY <1>1, OthersStay
<1>3. job'[j] = Idle
  BY <1>1, MovedOn
<1>4. CASE job[j].kind \notin Switching
  <2>1. Aborts(j) = {}
    BY <1>4 DEF Aborts, Switching, Host
  <2>2. Aside
    BY <1>1, <1>4, <2>1, NotSwitching DEF Aside
  <2>3. job'[j].kind \notin Switching
    BY <1>3 DEF Idle, None, Switching
  <2> QED BY <1>2, <1>4, <2>2, <2>3, BooksAside
<1>5. CASE job[j].kind \in Switching
  <2>1. PICK q : q = job[j]
    OBVIOUS
  <2>2. \A p \in Routers, t \in Sidecar : p # q.router => device'[p][t] = device[p][t]
    BY <1>1, <1>5, <2>1, Switched
  <2>3. q.kind # "router" => \A t \in Sidecar : device'[q.router][t] \in {0, device[q.router][t]}
    BY <1>1, <1>5, <2>1, Switched
  <2>4. Balanced'
    BY <1>1, <1>5, <2>1, <2>2, <2>3, Stopped
  <2> QED BY <1>2, <1>3, <1>5, <2>4, BooksMove DEF Single
<1> QED BY <1>4, <1>5

LEMMA BooksCrash ==
    ASSUME Shape, Conform, Single, Books, Crash
    PROVE  Books'
<1>1. /\ UNCHANGED <<bound, config, hostFile, device>>
      /\ forgotten' = forgotten \union UNION {Aborts(j) : j \in Jobs}
      /\ \A j \in Jobs : job'[j] = Idle
  BY DEF Crash, Tables
<1>2. ASSUME NEW j \in Jobs, job[j].kind \in Switching PROVE Balanced'
  <2>1. PICK q : q = job[j]
    OBVIOUS
  <2>2. forgotten \union Aborts(j) \subseteq forgotten'
    BY <1>1
  <2> QED BY <1>1, <1>2, <2>1, <2>2, Stopped
<1>3. ASSUME \A j \in Jobs : job[j].kind \notin Switching PROVE Balanced'
  <2>1. \A j \in Jobs : Aborts(j) = {}
    BY <1>3 DEF Aborts, Switching, Host
  <2>2. forgotten' = forgotten
    BY <1>1, <2>1
  <2>3. Aside
    BY <1>1, <2>2 DEF Aside
  <2> QED BY <1>3, <2>3, BalancedAside DEF Books
<1>4. \A j \in Jobs : job'[j].kind \notin Switching
  BY <1>1 DEF Idle, None, Switching
<1> QED BY <1>2, <1>3, <1>4 DEF Books

LEMMA PairIs ==
    ASSUME Shape, Conform, NEW j \in Jobs, NEW do, NEW t, Is(j, do, t)
    PROVE  /\ job[j].todo # <<>> /\ Current(j) = <<do, t>>
           /\ <<do, t>> \in CommandsOf(job[j].kind) /\ job[j].kind \in Kinds
<1>1. job[j].todo # <<>> /\ Current(j)[1] = do /\ Current(j)[2] = t
  BY DEF Is, At
<1>2. Current(j) \in CommandsOf(job[j].kind) /\ job[j].kind \in Kinds
  BY <1>1, AtHand
<1>3. Current(j) = <<Current(j)[1], Current(j)[2]>>
  BY <1>2, Forms
<1> QED BY <1>1, <1>2, <1>3

\* A request that does not switch binds the interface, if anything.
LEMMA BooksBystander ==
    ASSUME Shape, Conform, Single, Books, NEW j \in Jobs,
           Persist(j) \/ Bind(j) \/ DeleteRouter(j)
    PROVE  Books'
<1>1. Is(j, "db", "persist") \/ Is(j, "db", "activate") \/ Is(j, "db", "deleteRouter")
  BY DEF Persist, Bind, DeleteRouter
<1>2. job[j].kind \notin Switching
  BY <1>1, PairIs, Forms
<1>3. Advance(j, <<>>) \/ Advance(j, Tail(job[j].todo))
  BY WritesIs DEF Writes
<1>4. job'[j].kind \notin Switching
  BY <1>2, <1>3, MovedKind
<1>5. \A i \in Jobs : i # j => job'[i] = job[i]
  BY <1>3, OthersStay
<1>6. Aside
  <2>1. config' = config /\ hostFile' = hostFile /\ device' = device
    BY DEF Persist, Bind, DeleteRouter
  <2>2. \/ bound' = bound /\ forgotten' = forgotten
        \/ forgotten' = forgotten \union ({bound} \ {bound', Self})
    BY DEF Persist, Bind, DeleteRouter
  <2> QED BY <2>1, <2>2 DEF Aside
<1> QED BY <1>2, <1>4, <1>5, <1>6, BooksAside

LEMMA BooksSwitch ==
    ASSUME Shape, Conform, Single, Books, NEW j \in Jobs,
           WriteHost(j) \/ StoreMode(j) \/ RemoveHost(j)
    PROVE  Books'
<1>1. PICK q : q = job[j]
  OBVIOUS
<1>2. PICK c : c = Current(j)
  OBVIOUS
<1>3. Advance(j, Tail(job[j].todo)) /\ device' = device /\ bound' = bound
  BY DEF WriteHost, StoreMode, RemoveHost, Tables
<1>4. ASSUME WriteHost(j)
      PROVE  /\ c = <<"db", "writeHost">> /\ q.kind = "host"
             /\ UNCHANGED <<config, forgotten>>
  <2>1. Is(j, "db", "writeHost")
    BY <1>4 DEF WriteHost
  <2> QED BY <1>1, <1>2, <1>4, <2>1, PairIs, Forms DEF WriteHost, Tables
<1>5. ASSUME StoreMode(j)
      PROVE  /\ \/ c = <<"db", "storeHost">> /\ q.kind = "host" /\ config' = Host
                \/ c = <<"db", "storeRouter">> /\ q.kind = "router" /\ config' = "router"
             /\ UNCHANGED <<hostFile, forgotten>>
  <2>1. CASE Is(j, "db", "storeHost")
    <3>1. c = <<"db", "storeHost">> /\ c \in CommandsOf(q.kind) /\ q.kind \in Kinds
      BY <1>1, <1>2, <2>1, PairIs
    <3>2. q.kind = "host"
      BY <3>1, Forms
    <3> QED BY <1>5, <2>1, <3>1, <3>2 DEF StoreMode
  <2>2. CASE ~Is(j, "db", "storeHost") /\ Is(j, "db", "storeRouter")
    <3>1. c = <<"db", "storeRouter">> /\ c \in CommandsOf(q.kind) /\ q.kind \in Kinds
      BY <1>1, <1>2, <2>2, PairIs
    <3>2. q.kind = "router"
      BY <3>1, Forms
    <3> QED BY <1>5, <2>2, <3>1, <3>2 DEF StoreMode
  <2> QED BY <1>5, <2>1, <2>2 DEF StoreMode
<1>6. ASSUME RemoveHost(j)
      PROVE  /\ c = <<"db", "removeHost">> /\ q.kind \in {"router", "disable"} /\ config' = config
             /\ forgotten \subseteq forgotten'
             /\ ~hostFile' \/ (Host \in forgotten' /\ hostFile' = hostFile)
  <2>1. Is(j, "db", "removeHost")
    BY <1>6 DEF RemoveHost
  <2>2. c = <<"db", "removeHost">> /\ c \in CommandsOf(q.kind) /\ q.kind \in Kinds
    BY <1>1, <1>2, <2>1, PairIs
  <2>3. q.kind \in {"router", "disable"}
    BY <2>2, Forms
  <2>4. config' = config /\ forgotten \subseteq forgotten'
        /\ ((hostFile' = FALSE) \/ (Host \in forgotten' /\ hostFile' = hostFile))
    BY <1>6 DEF RemoveHost, Tables
  <2> QED BY <2>2, <2>3, <2>4
<1>7. c # <<"db", "deleteRow">> /\ q.kind \in Switching
  BY <1>4, <1>5, <1>6 DEF Switching
<1>8. \A t : c # <<"remove", t>>
  BY <1>4, <1>5, <1>6
<1>9. Does(q, c)
  <2>1. CASE WriteHost(j)
    BY <1>3, <1>4, <2>1 DEF Does
  <2>2. CASE StoreMode(j)
    BY <1>3, <1>5, <2>2 DEF Does
  <2>3. CASE RemoveHost(j)
    BY <1>3, <1>6, <2>3 DEF Does
  <2> QED BY <2>1, <2>2, <2>3
<1> QED BY <1>1, <1>2, <1>3, <1>7, <1>9, BooksTail DEF Single

\* The row goes last, when nothing is left on the router or of the file.
LEMMA BooksDeleteRow ==
    ASSUME Shape, Conform, Single, Books, NEW j \in Jobs, DeleteRow(j)
    PROVE  Books'
<1>1. /\ Is(j, "db", "deleteRow") /\ Advance(j, Tail(job[j].todo))
      /\ UNCHANGED <<bound, hostFile, device>>
      /\ forgotten' = IF job[j].old = "router" THEN forgotten \ {job[j].router} ELSE forgotten
  BY DEF DeleteRow
<1>2. Current(j) = <<"db", "deleteRow">> /\ job[j].kind = "disable" /\ job[j].todo # <<>>
  <2>1. /\ Current(j) = <<"db", "deleteRow">> /\ job[j].todo # <<>>
        /\ Current(j) \in CommandsOf(job[j].kind) /\ job[j].kind \in Kinds
    BY <1>1, PairIs
  <2>2. job[j].kind = "disable"
    BY <2>1, Forms
  <2> QED BY <2>1, <2>2
<1>3. PICK q : q = job[j]
  OBVIOUS
<1>4. /\ q.router \in Routers /\ Kept(q) /\ q.todo # <<>>
      /\ q.todo \in Seq(CommandsOf(q.kind)) /\ q.todo[1] = <<"db", "deleteRow">>
  BY <1>2, <1>3, SwitchingIs DEF Switching
<1>5. DisableKept(q)
  BY <1>2, <1>3, <1>4 DEF Kept
<1>6. DOMAIN q.todo = {1} /\ Len(q.todo) = 1
  <2>1. PICK s : s = q.todo
    OBVIOUS
  <2>2. s \in Seq(CommandsOf(q.kind)) /\ s # <<>> /\ s[1] = <<"db", "deleteRow">>
    BY <1>4, <2>1
  <2>3. DOMAIN s = 1..Len(s) /\ Len(s) \in Nat /\ Len(s) > 0
    BY <2>2, TailIs
  <2>4. 1 \in DOMAIN s
    BY <2>3
  <2>5. \A i \in DOMAIN s : s[i] = <<"db", "deleteRow">> <=> i = Len(s)
    BY <1>5, <2>1 DEF DisableKept
  <2>6. 1 = Len(s)
    BY <2>2, <2>4, <2>5
  <2>7. 1..1 = {1}
    OBVIOUS
  <2> QED BY <2>1, <2>3, <2>6, <2>7
<1>7. Tail(q.todo) = <<>>
  <2>1. PICK s : s = q.todo
    OBVIOUS
  <2>2. s \in Seq(CommandsOf(q.kind)) /\ s # <<>> /\ Len(s) = 1
    BY <1>4, <1>6, <2>1
  <2>3. Tail(s) \in Seq(CommandsOf(q.kind)) /\ Len(Tail(s)) = Len(s) - 1
    BY <2>2, TailIs
  <2>4. Len(Tail(s)) = 0
    BY <2>2, <2>3
  <2> QED BY <2>1, <2>3, <2>4, EmptySeq
<1>8. job'[j] = Idle
  <2>1. Advance(j, <<>>)
    BY <1>1, <1>3, <1>7
  <2> QED BY <2>1, MovedOn
<1>9. \A i \in Jobs : i # j => job'[i] = job[i]
  BY <1>1, OthersStay
<1>10. \A d : d # <<"db", "deleteRow">> => ~Pending(q, d)
  BY <1>4, <1>6 DEF Pending
<1>11. Balanced'
  <2> SUFFICES ASSUME NEW p \in Routers \union {Host}, Serving(p)'
               PROVE  p \in forgotten'
    BY DEF Balanced
  <2>1. Serving(p)
    BY <1>1 DEF Serving
  <2>2. CASE p # q.router
    <3>1. Off(p)
      <4>1. FileGoes(q) => Off(Host)
        BY <1>10 DEF FileGoes
      <4> QED BY <1>4, <1>5, <2>2, <4>1 DEF Kept, DisableKept
    <3> QED BY <1>1, <1>3, <2>1, <2>2, <3>1 DEF Off
  <2>3. CASE p = q.router /\ q.old = Host
    <3>1. Off(p)
      BY <1>5, <2>3 DEF DisableKept
    <3> QED BY <1>1, <1>3, <2>1, <2>3, <3>1 DEF Off, Host
  <2>4. CASE p = q.router /\ q.old # Host
    <3>1. PICK t \in Sidecar : device[p][t] > 0
      BY <1>4, <2>1, <2>4, HostIsNone DEF Serving
    <3>2. Left(q)
      BY <1>5, <2>4 DEF DisableKept
    <3>3. device[p][t] = 0
      BY <1>10, <2>4, <3>2 DEF Left
    <3> QED BY <3>1, <3>3
  <2> QED BY <2>2, <2>3, <2>4
<1> QED BY <1>2, <1>8, <1>9, <1>11, BooksMove DEF Single, Switching

LEMMA RemovesAll == \A t \in Sidecar : \E i \in 1..6 : RemoveSteps[i] = <<"remove", t>>
BY RemoveIs DEF Sidecar

LEMMA BooksStart ==
    ASSUME Alone, Shape, Books, NEW j \in Jobs, NEW q, Start(j, q),
           Switches(q) \/ Stands(q) \/ Provisions(q)
    PROVE  Books'
<1>1. /\ job'[j] = q /\ \A i \in Jobs : i # j => job'[i] = job[i]
      /\ job[j].kind = None /\ MayStart(q.kind)
  BY StartIs
<1>2. Aside
  BY StartIs DEF Aside
<1>3. CASE q.kind \notin Switching
  BY <1>1, <1>2, <1>3, BooksAside DEF None, Switching
<1>4. CASE q.kind \in Switching
  <2>1. Switches(q)
    BY <1>4, AskedIs DEF Switching, Standing
  <2>2. \A i \in Jobs : job[i].kind \notin Switching
    BY <1>1, <1>4 DEF MayStart, Switching, Changing
  <2>3. Balanced
    BY <2>2 DEF Books
  <2>4. bound \in Routers /\ q.router = bound /\ q.old = config /\ config \in Modes
    BY <2>1, AskedIs DEF Switches, Shape, Typed
  <2>5. \A p \in Routers : p # bound => Off(p)
    BY <2>3, HostIsNone DEF Balanced, Off, RowFor
  <2>6. config # "router" => Off(bound)
    BY <2>3, <2>4, HostIsNone DEF Balanced, Off, RowFor
  <2>7. config # Host => Off(Host)
    BY <2>3 DEF Balanced, Off, RowFor
  <2>8. ASSUME q.kind = "host" => HostKept(q),
               q.kind = "router" => RouterKept(q),
               q.kind = "disable" => DisableKept(q)
        PROVE  Books'
    <3>1. Kept(q)
      BY <2>4, <2>5, <2>8 DEF Kept
    <3>2. \A s : s = job'[j] => Kept(s)'
      BY <1>1, <1>2, <2>4, <3>1, KeptAside
    <3>3. ASSUME NEW i \in Jobs, NEW s, s = job'[i], s.kind \in Switching PROVE Kept(s)'
      BY <1>1, <2>2, <3>2, <3>3
    <3>4. ~(\A i \in Jobs : job'[i].kind \notin Switching)
      BY <1>1, <1>4
    <3> QED BY <3>3, <3>4 DEF Books
  <2>9. CASE q = Request("host", bound, HostTodo)
    <3>1. q.kind = "host" /\ q.todo = HostTodo
      BY <2>9 DEF Request
    <3>2. DOMAIN HostTodo = 1..Len(HostTodo) /\ Len(HostTodo) \in Nat
      BY HostTodoIs
    <3>3. Pending(q, <<"db", "storeHost">>)
      <4>1. 2 \in DOMAIN HostTodo
        BY <3>2, HostTodoIs
      <4> QED BY <3>1, <4>1, HostTodoIs DEF Pending
    <3>4. config = "router" => Left(q)
      <4> SUFFICES ASSUME config = "router", NEW t \in Sidecar
                   PROVE  Pending(q, <<"remove", t>>)
        BY DEF Left
      <4>1. PICK i \in 1..6 : RemoveSteps[i] = <<"remove", t>>
        BY RemovesAll
      <4>2. Len(HostTodo) = 8 /\ HostTodo[2 + i] = <<"remove", t>>
        BY <4>1, HostTodoIs
      <4>3. 2 + i \in 1..8
        OBVIOUS
      <4>4. 2 + i \in DOMAIN HostTodo
        BY <3>2, <4>2, <4>3
      <4> QED BY <3>1, <4>2, <4>4 DEF Pending
    <3>5. HostKept(q)
      BY <2>4, <2>6, <3>3, <3>4 DEF HostKept
    <3> QED BY <2>8, <3>1, <3>5
  <2>10. ASSUME NEW deploy \in {DeploySteps, <<>>}, q = Request("router", bound, RouterTodo(deploy))
         PROVE  Books'
    <3>1. q.kind = "router" /\ q.todo = RouterTodo(deploy)
      BY <2>10 DEF Request
    <3>2. Pending(q, <<"db", "storeRouter">>)
      BY <3>1, RouterTodoIs DEF Pending
    <3>3. config = Host => Pending(q, <<"db", "removeHost">>)
      BY <3>1, RouterTodoIs DEF Pending
    <3>4. RouterKept(q)
      BY <2>4, <2>7, <3>2, <3>3 DEF RouterKept, FileGoes
    <3> QED BY <2>8, <3>1, <3>4
  <2>11. CASE config # None /\ q = Request("disable", bound, DisableTodo)
    <3>1. q.kind = "disable" /\ q.todo = DisableTodo
      BY <2>11 DEF Request
    <3>2. config = Host => Pending(q, <<"db", "removeHost">>)
      <4> SUFFICES ASSUME config = Host PROVE Pending(q, <<"db", "removeHost">>)
        OBVIOUS
      <4>1. q.todo = <<<<"db", "removeHost">>, <<"db", "deleteRow">>>>
        BY <3>1, DisableTodoIs
      <4>2. 1 \in DOMAIN q.todo /\ q.todo[1] = <<"db", "removeHost">>
        BY <4>1
      <4> QED BY <4>2 DEF Pending
    <3>3. config # Host => Left(q)
      <4> SUFFICES ASSUME config # Host, NEW t \in Sidecar
                   PROVE  Pending(q, <<"remove", t>>)
        BY DEF Left
      <4>1. PICK i \in 1..6 : RemoveSteps[i] = <<"remove", t>>
        BY RemovesAll
      <4>2. i \in DOMAIN DisableTodo /\ DisableTodo[i] = <<"remove", t>>
        BY <4>1, DisableTodoIs
      <4> QED BY <3>1, <4>2 DEF Pending
    <3>4. config \in {Host, "router"}
      BY <2>4, <2>11 DEF Modes
    <3>5. DisableKept(q)
      BY <2>4, <2>6, <2>7, <3>1, <3>2, <3>3, <3>4, DisableTodoIs DEF DisableKept, FileGoes, Host
    <3> QED BY <2>8, <3>1, <3>5
  <2> QED BY <2>1, <2>9, <2>10, <2>11 DEF Switches
<1> QED BY <1>3, <1>4

LEMMA BooksInit == Init => Books
<1> SUFFICES ASSUME Init PROVE Books
  OBVIOUS
<1>1. \A j \in Jobs : job[j].kind \notin Switching
  BY DEF Init, Idle, None, Switching
<1>2. Balanced
  <2>1. hostFile = FALSE
    BY DEF Init
  <2>2. \A p \in Routers, t \in Sidecar : device[p][t] = 0
    BY DEF Init, Things
  <2> QED BY <2>1, <2>2 DEF Balanced, Serving
<1> QED BY <1>1, <1>2 DEF Books

LEMMA BooksNext ==
    ASSUME Alone, Shape, Conform, Looking, Single, Books, [Next]_vars
    PROVE  Books'
<1>1. ASSUME NEW j \in Jobs, Writes(j) PROVE Books'
  BY <1>1, BooksBystander, BooksSwitch, BooksDeleteRow DEF Writes
<1>2. ASSUME UNCHANGED <<Tables, hostFile, device, forgotten, job>> \/ \E r \in Routers : Edit(r)
      PROVE  Books'
  <2>1. Aside /\ job' = job
    BY <1>2 DEF Edit, Tables, Aside
  <2> QED BY <2>1, BooksAside
<1> QED BY <1>1, <1>2, Steps, BooksStart, BooksLook, BooksExecute, BooksFail, BooksCrash DEF vars, Tables

LEMMA BooksAccount == Alone /\ Shape /\ Books => Accounted
<1> SUFFICES ASSUME Shape, Books, NEW p \in Routers \union {Host}, Serving(p)
             PROVE  RowFor(p) \/ p \in forgotten \/ Handled(p)
  BY DEF Accounted
<1>1. CASE \A j \in Jobs : job[j].kind \notin Switching
  BY <1>1 DEF Books, Balanced
<1>2. ASSUME NEW j \in Jobs, job[j].kind \in Switching
      PROVE  p \in forgotten \/ Handled(p)
  <2>1. PICK q : q = job[j]
    OBVIOUS
  <2>2. Kept(q)
    BY <1>2, <2>1 DEF Books
  <2>3. p \in {q.router, Host} => Handled(p)
    BY <1>2, <2>1 DEF Handled, Switching, Changing
  <2> QED BY <2>2, <2>3 DEF Kept, Off
<1> QED BY <1>1, <1>2

\* An obfuscator on a router, and the file of the one beside the server, has
\* the row that makes a later disable remove it, or is being worked on, or was
\* left behind in one of the ways the model names, wherever requests fail or
\* are cut short, if the administrator does not overlap those that change
\* routers.
THEOREM AlwaysAccounted == Spec => []Accounted
<1> DEFINE Inv == Shape /\ Conform /\ Looking /\ (Alone => Single /\ Books)
<1>1. Init => Inv
  BY ShapeInit, ConformInit, LookingInit, SingleInit, BooksInit
<1>2. Inv /\ [Next]_vars => Inv'
  BY ShapeNext, ConformNext, LookingNext, SingleNext, BooksNext
<1>3. Inv => Accounted
  BY BooksAccount DEF Accounted
<1> QED BY <1>1, <1>2, <1>3, PTL DEF Spec
=============================================================================
