---------------------------- MODULE EnginesProofs ----------------------------
(***************************************************************************)
(* The machines below the engines, for any number of overlapping calls.    *)
(* The firewall: the flag of rebuildRules is a lock, and the rules of the  *)
(* chain are never mixed.  The userspace daemon: a start that nothing      *)
(* disturbs gets what it waits for.  The connections to a router: a call   *)
(* that returns has the whole answer to its own command.                   *)
(***************************************************************************)
EXTENDS Firewall, MCTransports, FiniteSetTheorems, TLAPS

-----------------------------------------------------------------------------
(* The filtering firewall.                                                 *)

Typed ==
    /\ want \in SUBSET Clients /\ on \in BOOLEAN
    /\ exists \in BOOLEAN /\ jump \in BOOLEAN
    /\ chain \in Seq(Clients \union {"DROP"})
    /\ rebuildInProgress \in BOOLEAN /\ rebuildQueued \in BOOLEAN
    /\ call \in [Jobs -> Call]

\* A rebuild that is adding rules has added neither DROP nor a client that it
\* has still to add; this is what the lock protects.
Partial ==
    \A j \in Jobs : call[j].at = "apply" =>
        \A i \in 1..Len(chain) : chain[i] # "DROP" /\ chain[i] \notin call[j].todo

Inv == Typed /\ MutexHeld /\ DropLast /\ Partial

LEMMA IdleCall == Idle \in Call /\ Idle.at = "idle"
BY DEF Idle, Call

LEMMA InitInv == Init => Inv
<1> SUFFICES ASSUME Init PROVE Inv
  OBVIOUS
<1>1. \A j \in Jobs : call[j] = Idle
  BY DEF Init
<1>2. on \in BOOLEAN /\ exists \in BOOLEAN /\ jump \in BOOLEAN
      /\ rebuildInProgress \in BOOLEAN /\ rebuildQueued \in BOOLEAN
  BY Zenon DEF Init
<1>3. Typed
  BY <1>2, IdleCall DEF Init, Typed
<1>4. MutexHeld
  BY <1>1, IdleCall DEF Init, MutexHeld, Building
<1>5. DropLast /\ Partial
  BY <1>1, IdleCall DEF Init, DropLast, Partial
<1> QED BY <1>3, <1>4, <1>5 DEF Inv

-----------------------------------------------------------------------------
(* Types.                                                                  *)

LEMMA GotoTyped ==
    ASSUME call \in [Jobs -> Call], NEW j \in Jobs,
           NEW at \in {"idle", "iface", "clients", "enter"} \union Building \union Removing,
           Goto(j, at)
    PROVE  call' \in [Jobs -> Call]
BY DEF Goto, Call

LEMMA NextTyped ==
    ASSUME Typed, [Next]_vars PROVE Typed'
<1> USE DEF Typed, Database, Mutex, Tables
<1>1. CASE UNCHANGED vars
  BY <1>1 DEF vars
<1>2. ASSUME NEW j \in Jobs, Change(j) PROVE Typed'
  <2>1. call' \in [Jobs -> Call]
    BY <1>2, GotoTyped DEF Change
  <2>2. on' \in BOOLEAN
    BY <1>2, Zenon DEF Change
  <2>3. want' \in SUBSET Clients
    BY <1>2 DEF Change
  <2> QED BY <1>2, <2>1, <2>2, <2>3 DEF Change
<1>3. ASSUME NEW j \in Jobs, Tick(j) \/ ReadInterface(j) \/ ReadClients(j) PROVE Typed'
  BY <1>3 DEF Tick, ReadInterface, ReadClients, Goto, Call
<1>4. ASSUME NEW j \in Jobs, Enter(j) PROVE Typed'
  <2>1. call' \in [Jobs -> Call]
    BY <1>4, GotoTyped, IdleCall DEF Enter, Finish, Building, Removing
  <2>2. rebuildInProgress' \in BOOLEAN /\ rebuildQueued' \in BOOLEAN
    BY <1>4, Zenon DEF Enter
  <2> QED BY <1>4, <2>1, <2>2 DEF Enter
<1>5. ASSUME NEW j \in Jobs, Create(j) \/ Link(j) PROVE Typed'
  <2>1. call' \in [Jobs -> Call]
    BY <1>5, GotoTyped DEF Create, Link, Building
  <2>2. exists' \in BOOLEAN /\ jump' \in BOOLEAN
    BY <1>5, Zenon DEF Create, Link
  <2> QED BY <1>5, <2>1, <2>2 DEF Create, Link
<1>6. ASSUME NEW j \in Jobs, Flush(j) PROVE Typed'
  BY <1>6 DEF Flush, FlushedRules, Call, Building
<1>7. ASSUME NEW j \in Jobs, ApplyClient(j) PROVE Typed'
  <2>1. PICK c \in call[j].todo :
           chain' = Append(chain, c) /\ call' = [call EXCEPT ![j].todo = @ \ {c}]
    BY <1>7 DEF ApplyClient
  <2>2. c \in Clients
    BY DEF Call
  <2>3. chain' \in Seq(Clients \union {"DROP"})
    BY <2>1, <2>2
  <2>4. call' \in [Jobs -> Call]
    BY <2>1 DEF Call
  <2> QED BY <1>7, <2>3, <2>4 DEF ApplyClient
<1>8. ASSUME NEW j \in Jobs, ApplyDrop(j) \/ Throw(j) PROVE Typed'
  <2>1. call' \in [Jobs -> Call]
    BY <1>8, GotoTyped DEF ApplyDrop, Throw, Building
  <2>2. chain' \in Seq(Clients \union {"DROP"})
    BY <1>8 DEF ApplyDrop, Throw
  <2> QED BY <1>8, <2>1, <2>2 DEF ApplyDrop, Throw
<1>9. ASSUME NEW j \in Jobs, Finally(j) PROVE Typed'
  <2>1. call' \in [Jobs -> Call]
    BY <1>9, GotoTyped, IdleCall DEF Finally, Finish, Building
  <2>2. rebuildInProgress' \in BOOLEAN /\ rebuildQueued' \in BOOLEAN
    BY <1>9, Zenon DEF Finally, Released
  <2> QED BY <1>9, <2>1, <2>2 DEF Finally
<1>10. ASSUME NEW j \in Jobs, RemoveFiltering(j) PROVE Typed'
  <2>1. call' \in [Jobs -> Call]
    BY <1>10, GotoTyped, IdleCall DEF RemoveFiltering, Unlink, Empty, Delete, Finish, Removing
  <2>2. exists' \in BOOLEAN /\ jump' \in BOOLEAN
    BY <1>10, Zenon DEF RemoveFiltering, Unlink, Empty, Delete
  <2>3. chain' = chain \/ chain' = <<>>
    BY <1>10 DEF RemoveFiltering, Unlink, Empty, Delete
  <2>4. chain' \in Seq(Clients \union {"DROP"})
    <3>1. CASE chain' = chain
      BY <3>1, Zenon
    <3>2. CASE chain' = <<>>
      BY <3>2
    <3> QED BY <2>3, <3>1, <3>2
  <2> QED BY <1>10, <2>1, <2>2, <2>4 DEF RemoveFiltering, Unlink, Empty, Delete
<1> QED BY <1>1, <1>2, <1>3, <1>4, <1>5, <1>6, <1>7, <1>8, <1>9, <1>10
        DEF Next, Continue, Rebuild

-----------------------------------------------------------------------------
(* The lock.                                                               *)

\* A step that leaves a call inside or outside the critical section and the
\* flags alone keeps the lock.
LEMMA LockKept ==
    ASSUME Typed, MutexHeld, UNCHANGED Mutex,
           \A j \in Jobs : call'[j].at \in Building <=> call[j].at \in Building
    PROVE  MutexHeld'
BY DEF MutexHeld, Mutex

LEMMA NextLock ==
    ASSUME Typed, MutexHeld, [Next]_vars PROVE MutexHeld'
<1> USE DEF Typed
<1>1. CASE UNCHANGED vars
  BY <1>1 DEF vars, MutexHeld
<1>2. ASSUME NEW j \in Jobs, Change(j) \/ Tick(j) \/ ReadInterface(j) \/ ReadClients(j)
      PROVE  MutexHeld'
  <2>1. UNCHANGED Mutex
    BY <1>2 DEF Change, Tick, ReadInterface, ReadClients
  <2>2. call[j].at \notin Building /\ call'[j].at \notin Building
    BY <1>2, IdleCall DEF Change, Tick, ReadInterface, ReadClients, Goto, Building, Call
  <2>3. \A k \in Jobs \ {j} : call'[k] = call[k]
    BY <1>2 DEF Change, Tick, ReadInterface, ReadClients, Goto
  <2> QED BY <2>1, <2>2, <2>3, LockKept
<1>3. ASSUME NEW j \in Jobs,
             \/ Create(j) \/ Link(j) \/ Flush(j) \/ ApplyClient(j) \/ ApplyDrop(j) \/ Throw(j)
      PROVE  MutexHeld'
  <2>1. UNCHANGED Mutex
    BY <1>3 DEF Create, Link, Flush, ApplyClient, ApplyDrop, Throw
  <2>2. call[j].at \in Building /\ call'[j].at \in Building
    BY <1>3 DEF Create, Link, Flush, ApplyClient, ApplyDrop, Throw, Goto, Building, Call
  <2>3. \A k \in Jobs \ {j} : call'[k] = call[k]
    BY <1>3 DEF Create, Link, Flush, ApplyClient, ApplyDrop, Throw, Goto
  <2> QED BY <2>1, <2>2, <2>3, LockKept
<1>4. ASSUME NEW j \in Jobs, RemoveFiltering(j) PROVE MutexHeld'
  <2>1. UNCHANGED Mutex
    BY <1>4 DEF RemoveFiltering, Unlink, Empty, Delete
  <2>2. call[j].at \notin Building /\ call'[j].at \notin Building
    BY <1>4, IdleCall DEF RemoveFiltering, Unlink, Empty, Delete, Goto, Finish, Building, Call
  <2>3. \A k \in Jobs \ {j} : call'[k] = call[k]
    BY <1>4 DEF RemoveFiltering, Unlink, Empty, Delete, Goto, Finish
  <2> QED BY <2>1, <2>2, <2>3, LockKept
<1>5. ASSUME NEW j \in Jobs, Enter(j) PROVE MutexHeld'
  <2>1. \A k \in Jobs \ {j} : call'[k] = call[k]
    BY <1>5 DEF Enter, Goto, Finish
  <2>2. call[j].at \notin Building
    BY <1>5 DEF Enter, Building
  <2>3. CASE ~call[j].flag
    <3>1. UNCHANGED Mutex /\ call'[j].at \notin Building
      BY <1>5, <2>3 DEF Enter, Goto, Building, Call
    <3> QED BY <2>1, <2>2, <3>1, LockKept
  <2>4. CASE call[j].flag /\ rebuildInProgress
    <3>1. /\ rebuildQueued' = TRUE /\ UNCHANGED rebuildInProgress
          /\ call'[j].at \notin Building
      BY <1>5, <2>4, IdleCall DEF Enter, Busy, Finish, Building, Call
    <3> QED BY <2>1, <2>2, <2>4, <3>1 DEF MutexHeld
  <2>5. CASE call[j].flag /\ ~rebuildInProgress
    <3>1. /\ rebuildInProgress' = TRUE
          /\ call'[j].at \in Building
      BY <1>5, <2>5 DEF Enter, Busy, Goto, Building, Call
    <3>2. \A k \in Jobs : call[k].at \notin Building
      BY <2>5 DEF MutexHeld
    <3> QED BY <2>1, <3>1, <3>2 DEF MutexHeld
  <2> QED BY <2>3, <2>4, <2>5
<1>6. ASSUME NEW j \in Jobs, Finally(j) PROVE MutexHeld'
  <2>1. \A k \in Jobs \ {j} : call'[k] = call[k]
    BY <1>6 DEF Finally, Goto, Finish
  <2>2. call[j].at \in Building
    BY <1>6 DEF Finally, Building
  <2>3. CASE rebuildQueued
    <3>1. /\ rebuildQueued' = FALSE /\ UNCHANGED rebuildInProgress
          /\ call'[j].at \in Building
      BY <1>6, <2>3 DEF Finally, Goto, Building, Call
    <3> QED BY <2>1, <2>2, <3>1 DEF MutexHeld
  <2>4. CASE ~rebuildQueued
    <3>1. /\ rebuildInProgress' = FALSE /\ UNCHANGED rebuildQueued
          /\ call'[j].at \notin Building
      BY <1>6, <2>4, IdleCall DEF Finally, Released, Finish, Building, Call
    <3> QED BY <2>1, <2>2, <2>4, <3>1 DEF MutexHeld
  <2> QED BY <2>3, <2>4
<1> QED BY <1>1, <1>2, <1>3, <1>4, <1>5, <1>6 DEF Next, Continue, Rebuild

-----------------------------------------------------------------------------
(* The rules.                                                              *)

\* A step that leaves the chain alone and starts no adding of rules.
LEMMA RulesKept ==
    ASSUME Typed, DropLast, Partial, UNCHANGED chain,
           \A j \in Jobs : call'[j].at = "apply" => call'[j] = call[j]
    PROVE  DropLast' /\ Partial'
BY DEF DropLast, Partial

LEMMA NextRules ==
    ASSUME Inv, [Next]_vars PROVE DropLast' /\ Partial'
<1> USE DEF Inv, Typed
<1>1. CASE UNCHANGED vars
  BY <1>1, RulesKept DEF vars
<1>2. ASSUME NEW j \in Jobs, Change(j) \/ Tick(j) \/ ReadInterface(j) \/ ReadClients(j)
      PROVE  DropLast' /\ Partial'
  <2>1. call'[j].at # "apply" /\ UNCHANGED chain
    BY <1>2 DEF Change, Tick, ReadInterface, ReadClients, Goto, Tables, Call
  <2>2. \A k \in Jobs \ {j} : call'[k] = call[k]
    BY <1>2 DEF Change, Tick, ReadInterface, ReadClients, Goto
  <2> QED BY <2>1, <2>2, RulesKept
<1>3. ASSUME NEW j \in Jobs,
             Enter(j) \/ Create(j) \/ Link(j) \/ Throw(j) \/ Finally(j) \/ Unlink(j) \/ Delete(j)
      PROVE  DropLast' /\ Partial'
  <2>1. UNCHANGED chain
    BY <1>3 DEF Enter, Create, Link, Throw, Finally, Unlink, Delete, Tables
  <2>2. call'[j].at # "apply"
    BY <1>3, IdleCall DEF Enter, Create, Link, Throw, Finally, Unlink, Delete, Goto, Finish, Call
  <2>3. \A k \in Jobs \ {j} : call'[k] = call[k]
    BY <1>3 DEF Enter, Create, Link, Throw, Finally, Unlink, Delete, Goto, Finish
  <2> QED BY <2>1, <2>2, <2>3, RulesKept
<1>4. ASSUME NEW j \in Jobs, Flush(j) \/ Empty(j) PROVE DropLast' /\ Partial'
  <2>1. chain' = <<>>
    BY <1>4 DEF Flush, FlushedRules, Empty
  <2> QED BY <2>1 DEF DropLast, Partial
<1>5. ASSUME NEW j \in Jobs, ApplyClient(j) PROVE DropLast' /\ Partial'
  <2>1. PICK c \in call[j].todo :
           chain' = Append(chain, c) /\ call' = [call EXCEPT ![j].todo = @ \ {c}]
    BY <1>5 DEF ApplyClient
  <2>2. c \in Clients /\ c # "DROP"
    BY ConstAssumption DEF Call
  <2>3. \A i \in 1..Len(chain) : chain[i] # "DROP" /\ chain[i] \notin call[j].todo
    BY <1>5 DEF ApplyClient, Partial
  <2>4. /\ Len(chain') = Len(chain) + 1
        /\ \A i \in 1..Len(chain) : chain'[i] = chain[i]
        /\ chain'[Len(chain) + 1] = c
    BY <2>1
  <2>5. DropLast'
    BY <2>1, <2>3, <2>4 DEF DropLast
  <2>6. \A k \in Jobs \ {j} : call'[k].at # "apply"
    BY <1>5, <2>1 DEF ApplyClient, MutexHeld, Building
  <2>7. call'[j].todo = call[j].todo \ {c}
    BY <2>1 DEF Call
  <2>8. Partial'
    BY <2>2, <2>3, <2>4, <2>6, <2>7 DEF Partial
  <2> QED BY <2>5, <2>8
<1>6. ASSUME NEW j \in Jobs, ApplyDrop(j) PROVE DropLast' /\ Partial'
  <2>1. /\ Len(chain') = Len(chain) + 1
        /\ \A i \in 1..Len(chain) : chain'[i] = chain[i] /\ chain[i] # "DROP"
        /\ chain'[Len(chain) + 1] = "DROP"
    BY <1>6 DEF ApplyDrop, Partial
  <2>2. DropLast'
    BY <2>1 DEF DropLast
  <2>3. \A k \in Jobs : call'[k].at # "apply"
    BY <1>6 DEF ApplyDrop, Goto, MutexHeld, Building, Call
  <2> QED BY <2>2, <2>3 DEF Partial
<1> QED BY <1>1, <1>2, <1>3, <1>4, <1>5, <1>6
        DEF Next, Continue, Rebuild, RemoveFiltering

-----------------------------------------------------------------------------

LEMMA SpecInv == Spec => []Inv
<1>1. Inv /\ [Next]_vars => Inv'
  BY NextTyped, NextLock, NextRules DEF Inv
<1> QED BY InitInv, <1>1, PTL DEF Spec

\* However many syncs overlap and whatever throws: one rebuild at a time, and
\* a queued rebuild always has a running one that will start it.
THEOREM LockCorrect == Spec => []MutexHeld
<1>1. Inv => MutexHeld
  BY DEF Inv
<1> QED BY <1>1, SpecInv, PTL

\* No interleaving of rebuilds and removals puts a rule behind the final DROP
\* or adds a client twice.
THEOREM RulesCorrect == Spec => []DropLast
<1>1. Inv => DropLast
  BY DEF Inv
<1> QED BY <1>1, SpecInv, PTL

-----------------------------------------------------------------------------
(* The userspace daemon.                                                   *)

LEMMA SmallSets ==
    ASSUME NEW x PROVE Tun!Cardinality({}) <= 1 /\ Tun!Cardinality({x}) <= 1
<1>1. Cardinality({}) = 0 /\ Cardinality({x}) = 1
  BY FS_EmptySet, FS_Singleton
<1>2. \A S : Tun!Cardinality(S) = Cardinality(S)
  BY DEF Tun!Cardinality, Cardinality
<1> QED BY <1>1, <1>2

LEMMA Bounded == maxRestarts \in Nat /\ MaxUps \in Nat /\ MaxDeaths \in Nat
BY TransportsAssumption DEF Tun!BoringtunAssumption

LEMMA IdleStart == Tun!Idle \in Tun!Start /\ Tun!Off \in Tun!Device
BY DEF Tun!Idle, Tun!Start, Tun!Off, Tun!Device

LEMMA TunTypeInit == Tun!Init => Tun!TypeOK
<1> SUFFICES ASSUME Tun!Init PROVE Tun!TypeOK
  OBVIOUS
<1>1. start \in [Calls -> Tun!Start] /\ child \in [Calls -> Tun!Child]
  BY IdleStart DEF Tun!Init, Tun!Child
<1>2. socket \in BOOLEAN /\ disturbed \in BOOLEAN
  BY DEF Tun!Init
<1> QED BY <1>1, <1>2, SmallSets, IdleStart DEF Tun!Init, Tun!TypeOK

\* A call goes on.
LEMMA ToTyped ==
    ASSUME Tun!TypeOK, NEW c \in Calls,
           NEW at \in {"idle", "stop", "kill", "sleep", "wait", "config", "addr", "up"},
           Tun!To(c, at)
    PROVE  /\ start' \in [Calls -> Tun!Start] /\ start'[c].at = at
           /\ \A d \in Calls \ {c} : start'[d] = start[d]
BY DEF Tun!TypeOK, Tun!To, Tun!Start

LEMMA PkillTyped ==
    ASSUME Tun!TypeOK, Tun!Pkill
    PROVE  /\ child' \in [Calls -> Tun!Child] /\ device' \in Tun!Device
           /\ device' = Tun!Off /\ socket' = FALSE
           /\ \A c \in Calls : child[c] = "none" => child'[c] = "none"
<1>1. socket' = FALSE /\ device' = Tun!Off
  BY DEF Tun!Pkill, Tun!Unlinked
<1>2. child' \in [Calls -> Tun!Child] /\ \A c \in Calls : child[c] = "none" => child'[c] = "none"
  BY DEF Tun!Pkill, Tun!TypeOK, Tun!Child
<1> QED BY <1>1, <1>2, IdleStart

LEMMA ExitedTyped ==
    ASSUME Tun!TypeOK, NEW c \in Calls, Tun!Exited(c)
    PROVE  /\ child' \in [Calls -> Tun!Child]
           /\ heard' \subseteq Calls /\ tracked' \subseteq heard' /\ Tun!Cardinality(tracked') <= 1
<1>1. child' \in [Calls -> Tun!Child]
  BY DEF Tun!Exited, Tun!TypeOK, Tun!Child
<1>2. heard' = heard \ {c} /\ tracked' = (IF c \in heard THEN {} ELSE tracked)
  BY DEF Tun!Exited
<1>3. heard' \subseteq Calls /\ tracked' \subseteq heard'
  BY <1>2 DEF Tun!TypeOK
<1>4. Tun!Cardinality(tracked') <= 1
  BY <1>2, SmallSets DEF Tun!TypeOK
<1> QED BY <1>1, <1>3, <1>4

LEMMA TunTypeRun ==
    ASSUME Tun!TypeOK, NEW c \in Calls, Tun!Run(c) PROVE Tun!TypeOK'
<1> USE DEF Tun!TypeOK
<1>1. CASE Tun!Stop(c)
  <2>1. heard' \subseteq Calls /\ tracked' = {} /\ restarts' = {}
    BY <1>1 DEF Tun!Stop
  <2> QED BY <1>1, <2>1, PkillTyped, ToTyped, SmallSets DEF Tun!Stop
<1>2. CASE Tun!Kill(c)
  BY <1>2, PkillTyped, ToTyped DEF Tun!Kill
<1>3. CASE Tun!Spawn(c)
  <2>1. child' \in [Calls -> Tun!Child]
    BY <1>3 DEF Tun!Spawn, Tun!Child
  <2>2. restarts' \subseteq 0 .. maxRestarts /\ Tun!Cardinality(restarts') <= 1
    <3>1. restarts' = restarts \/ restarts' = {0}
      BY <1>3 DEF Tun!Spawn, Tun!Counted
    <3>2. {0} \subseteq 0 .. maxRestarts
      BY Bounded
    <3> QED BY <3>1, <3>2, SmallSets
  <2>3. heard' \subseteq Calls /\ tracked' \subseteq heard' /\ Tun!Cardinality(tracked') <= 1
    BY <1>3, SmallSets DEF Tun!Spawn
  <2> QED BY <1>3, <2>1, <2>2, <2>3, ToTyped DEF Tun!Spawn
<1>4. CASE Tun!Wait(c)
  <2>1. PICK at \in {"config", "idle"} : Tun!To(c, at)
    BY <1>4 DEF Tun!Wait
  <2> QED BY <1>4, <2>1, ToTyped DEF Tun!Wait
<1>5. CASE Tun!TimesOut(c)
  BY <1>5, ToTyped DEF Tun!TimesOut
<1>6. CASE Tun!Setconf(c)
  <2>1. PICK at \in {"addr", "idle"} : Tun!To(c, at)
    BY <1>6 DEF Tun!Setconf
  <2>2. device' \in Tun!Device /\ (~device'.on => device' = Tun!Off)
    BY <1>6 DEF Tun!Setconf, Tun!Device
  <2> QED BY <1>6, <2>1, <2>2, ToTyped DEF Tun!Setconf
<1>7. CASE Tun!Address(c)
  <2>1. device' \in Tun!Device /\ (~device'.on => device' = Tun!Off)
    <3>1. CASE device.on
      BY <1>7, <3>1 DEF Tun!Address, Tun!Device
    <3>2. CASE ~device.on
      <4>1. device = Tun!Off /\ Tun!Off.on = FALSE /\ Tun!Off.addr = FALSE
        BY <3>2 DEF Tun!Off
      <4>2. device' = [Tun!Off EXCEPT !.addr = FALSE]
        BY <1>7, <4>1 DEF Tun!Address
      <4>3. [Tun!Off EXCEPT !.addr = FALSE] = Tun!Off
        BY <4>1, IdleStart DEF Tun!Device
      <4> QED BY <4>1, <4>2, <4>3, IdleStart
    <3> QED BY <3>1, <3>2
  <2> QED BY <1>7, <2>1, ToTyped DEF Tun!Address
<1> QED BY <1>1, <1>2, <1>3, <1>4, <1>5, <1>6, <1>7 DEF Tun!Run

LEMMA TunTypeProcess ==
    ASSUME Tun!TypeOK, NEW c \in Calls, Tun!Process(c) PROVE Tun!TypeOK'
<1> USE DEF Tun!TypeOK
<1>1. CASE Tun!Fork(c)
  <2>1. child' \in [Calls -> Tun!Child]
    BY <1>1 DEF Tun!Fork, Tun!Child
  <2>2. device' \in Tun!Device /\ device'.on
    BY <1>1 DEF Tun!Fork, Tun!Device, Tun!Off
  <2> QED BY <1>1, <2>1, <2>2 DEF Tun!Fork
<1>2. CASE Tun!Fail(c)
  <2>1. child' \in [Calls -> Tun!Child]
    BY <1>2 DEF Tun!Fail, Tun!Child
  <2> QED BY <1>2, <2>1 DEF Tun!Fail
<1>3. CASE Tun!Exit(c) \/ Tun!GiveUp(c)
  <2>1. disturbed' \in BOOLEAN
    BY <1>3 DEF Tun!Exit, Tun!GiveUp
  <2> QED BY <1>3, <2>1, ExitedTyped DEF Tun!Exit, Tun!GiveUp
<1>4. ASSUME NEW d \in Calls, Tun!Respawn(c, d) PROVE Tun!TypeOK'
  <2>1. start' \in [Calls -> Tun!Start]
    BY <1>4 DEF Tun!Respawn, Tun!Start
  <2>2. Tun!Tries \in Nat
    <3>1. CASE restarts = {}
      BY <3>1 DEF Tun!Tries
    <3>2. CASE restarts # {}
      <4>1. Tun!Tries \in restarts
        BY <3>2 DEF Tun!Tries
      <4> QED BY <4>1, Bounded
    <3> QED BY <3>1, <3>2
  <2>3. restarts' \subseteq 0 .. maxRestarts /\ Tun!Cardinality(restarts') <= 1
    <3>1. restarts' = {Tun!Tries + 1} /\ Tun!Tries < maxRestarts
      BY <1>4 DEF Tun!Respawn
    <3>2. Tun!Tries + 1 \in 0 .. maxRestarts
      BY <2>2, <3>1, Bounded
    <3> QED BY <3>1, <3>2, SmallSets
  <2> QED BY <1>4, <2>1, <2>3, ExitedTyped DEF Tun!Respawn
<1> QED BY <1>1, <1>2, <1>3, <1>4 DEF Tun!Process

LEMMA TunTypeNext == Tun!TypeOK /\ [Tun!Next]_tun => Tun!TypeOK'
<1> SUFFICES ASSUME Tun!TypeOK, [Tun!Next]_tun PROVE Tun!TypeOK'
  OBVIOUS
<1>1. CASE UNCHANGED tun
  BY <1>1 DEF Tun!TypeOK, tun
<1>2. ASSUME NEW c \in Calls, NEW first \in {"stop", "kill"}, Tun!BringUp(c, first)
      PROVE  Tun!TypeOK'
  <2>1. start' \in [Calls -> Tun!Start]
    BY <1>2, IdleStart DEF Tun!BringUp, Tun!TypeOK, Tun!Start
  <2>2. disturbed' \in BOOLEAN
    BY <1>2 DEF Tun!BringUp
  <2>3. ups' \in Nat
    BY <1>2 DEF Tun!BringUp, Tun!TypeOK
  <2>4. UNCHANGED <<child, heard, tracked, restarts, device, socket, deaths>>
    BY <1>2 DEF Tun!BringUp
  <2> QED BY <2>1, <2>2, <2>3, <2>4 DEF Tun!TypeOK
<1>3. CASE Tun!SyncInterface
  <2>1. device' \in Tun!Device /\ device'.on
    BY <1>3 DEF Tun!SyncInterface, Tun!Device, Tun!TypeOK
  <2> QED BY <1>3, <2>1 DEF Tun!SyncInterface, Tun!TypeOK
<1>4. CASE Tun!Dies
  BY <1>4, IdleStart DEF Tun!Dies, Tun!TypeOK
<1> QED BY <1>1, <1>2, <1>3, <1>4, TunTypeRun, TunTypeProcess DEF Tun!Next

\* While nothing disturbs the last bringUp, no other call is active, no child is
\* alive before its own, and what it has passed is there.
Still(c) == start[c].at = "idle" /\ child[c] = "none"

Held(c) ==
  /\ start[c].at \in {"stop", "kill", "sleep"} => \A d \in Calls : child[d] = "none"
  /\ start[c].at = "sleep" => ~device.on /\ ~socket
  /\ start[c].at = "wait" /\ socket => device.on
  /\ start[c].at \in {"config", "addr", "up"} => device.on
  /\ start[c].at \in {"addr", "up"} => device.conf
  /\ start[c].at = "up" => device.addr

OnItsOwn ==
  ~disturbed =>
    /\ \A c, d \in Calls : c = d \/ Still(c) \/ Still(d)
    /\ \A c \in Calls : Held(c)

LEMMA OwnIsUsable == OnItsOwn => Usable
BY DEF OnItsOwn, Held, Usable, Tun!Usable

\* A step of the one call that is active leaves the others still.
LEMMA OneActs ==
    ASSUME ~disturbed, OnItsOwn, NEW c \in Calls, ~Still(c),
           \A d \in Calls \ {c} : start'[d] = start[d] /\ (child[d] = "none" => child'[d] = "none"),
           Held(c)'
    PROVE  OnItsOwn'
<1>1. \A d \in Calls \ {c} : Still(d) /\ Still(d)'
  BY DEF OnItsOwn, Still
<1>2. \A d \in Calls \ {c} : Held(d)'
  BY <1>1 DEF Held, Still
<1> QED BY <1>1, <1>2 DEF OnItsOwn

LEMMA OwnRun ==
    ASSUME Tun!TypeOK, OnItsOwn, NEW c \in Calls, Tun!Run(c) PROVE OnItsOwn'
<1> SUFFICES ASSUME ~disturbed PROVE OnItsOwn'
  BY DEF Tun!Run, Tun!Stop, Tun!Kill, Tun!Spawn, Tun!Wait, Tun!TimesOut, Tun!Setconf,
         Tun!Address, OnItsOwn
<1>0. Held(c) /\ device \in Tun!Device /\ child \in [Calls -> Tun!Child]
  BY DEF OnItsOwn, Tun!TypeOK
<1>a. start[c].at # "idle"
  BY DEF Tun!Run, Tun!Stop, Tun!Kill, Tun!Spawn, Tun!Wait, Tun!TimesOut, Tun!Setconf,
         Tun!Address
<1>b. ~Still(c)
  BY <1>a DEF Still
<1>1. CASE Tun!Stop(c)
  <2>1. start'[c].at = "kill" /\ \A d \in Calls \ {c} : start'[d] = start[d]
    BY <1>1, ToTyped DEF Tun!Stop
  <2>2. \A d \in Calls : child[d] = "none" /\ child'[d] = "none"
    BY <1>0, <1>1, PkillTyped DEF Held, Tun!Stop
  <2> QED BY <1>b, <2>1, <2>2, OneActs DEF Held
<1>2. CASE Tun!Kill(c)
  <2>1. start'[c].at = "sleep" /\ \A d \in Calls \ {c} : start'[d] = start[d]
    BY <1>2, ToTyped DEF Tun!Kill
  <2>2. \A d \in Calls : child[d] = "none" /\ child'[d] = "none"
    BY <1>0, <1>2, PkillTyped DEF Held, Tun!Kill
  <2>3. ~device'.on /\ ~socket'
    BY <1>2, PkillTyped DEF Tun!Kill, Tun!Off
  <2> QED BY <1>b, <2>1, <2>2, <2>3, OneActs DEF Held
<1>3. CASE Tun!Spawn(c)
  <2>1. start'[c].at = "wait" /\ \A d \in Calls \ {c} : start'[d] = start[d]
    BY <1>3, ToTyped DEF Tun!Spawn
  <2>2. \A d \in Calls \ {c} : child'[d] = child[d]
    BY <1>3, <1>0 DEF Tun!Spawn
  <2>3. ~socket'
    BY <1>3, <1>0 DEF Tun!Spawn, Held
  <2> QED BY <1>b, <2>1, <2>2, <2>3, OneActs DEF Held
<1>4. CASE Tun!Wait(c)
  <2>1. PICK at \in {"config", "idle"} : Tun!To(c, at)
    BY <1>4 DEF Tun!Wait
  <2>2. start'[c].at = at /\ \A d \in Calls \ {c} : start'[d] = start[d]
    BY <2>1, ToTyped
  <2>3. UNCHANGED <<child, device>> /\ device.on
    BY <1>4, <1>0 DEF Tun!Wait, Held
  <2> QED BY <1>b, <2>2, <2>3, OneActs DEF Held
<1>5. CASE Tun!TimesOut(c)
  <2>1. start'[c].at = "idle" /\ \A d \in Calls \ {c} : start'[d] = start[d]
    BY <1>5, ToTyped DEF Tun!TimesOut
  <2>2. UNCHANGED child
    BY <1>5 DEF Tun!TimesOut
  <2> QED BY <1>b, <2>1, <2>2, OneActs DEF Held
<1>6. CASE Tun!Setconf(c)
  <2>1. /\ device.on /\ device' = [device EXCEPT !.conf = TRUE] /\ Tun!To(c, "addr")
        /\ UNCHANGED child
    BY <1>6, <1>0 DEF Tun!Setconf, Held
  <2>2. start'[c].at = "addr" /\ \A d \in Calls \ {c} : start'[d] = start[d]
    BY <2>1, ToTyped
  <2>3. device'.on /\ device'.conf
    BY <1>0, <2>1 DEF Tun!Device
  <2> QED BY <1>b, <2>1, <2>2, <2>3, OneActs DEF Held
<1>7. CASE Tun!Address(c)
  <2>1. start'[c].at = "up" /\ \A d \in Calls \ {c} : start'[d] = start[d]
    BY <1>7, ToTyped DEF Tun!Address
  <2>2. device'.on /\ device'.conf /\ device'.addr /\ UNCHANGED child
    BY <1>7, <1>0 DEF Tun!Address, Tun!Device, Held
  <2> QED BY <1>b, <2>1, <2>2, OneActs DEF Held
<1> QED BY <1>1, <1>2, <1>3, <1>4, <1>5, <1>6, <1>7 DEF Tun!Run

LEMMA OwnProcess ==
    ASSUME Tun!TypeOK, OnItsOwn, NEW c \in Calls, Tun!Process(c) PROVE OnItsOwn'
<1>1. CASE (\E d \in Calls : Tun!Respawn(c, d)) \/ Tun!GiveUp(c)
  BY <1>1 DEF Tun!Respawn, Tun!GiveUp, OnItsOwn
<1>2. CASE Tun!Fork(c) \/ Tun!Fail(c) \/ Tun!Exit(c)
  <2> SUFFICES ASSUME ~disturbed PROVE OnItsOwn'
    BY <1>2 DEF Tun!Fork, Tun!Fail, Tun!Exit, OnItsOwn
  <2>0. Held(c) /\ device \in Tun!Device /\ child \in [Calls -> Tun!Child]
    BY DEF OnItsOwn, Tun!TypeOK
  <2>1. child[c] # "none" /\ start' = start
    BY <1>2 DEF Tun!Fork, Tun!Fail, Tun!Exit
  <2>2. \A d \in Calls \ {c} : child'[d] = child[d]
    BY <1>2, <2>0 DEF Tun!Fork, Tun!Fail, Tun!Exit, Tun!Exited
  <2>3. start[c].at \notin {"stop", "kill", "sleep"}
    BY <2>0, <2>1 DEF Held
  <2>4. Held(c)'
    <3>1. CASE Tun!Fork(c)
      <4>1. ~device.on /\ device'.on
        BY <3>1, <2>0 DEF Tun!Fork, Tun!Device, Tun!Off
      <4> QED BY <2>0, <2>1, <2>3, <4>1 DEF Held
    <3>2. CASE Tun!Fail(c) \/ Tun!Exit(c)
      <4>1. UNCHANGED <<device, socket>>
        BY <3>2 DEF Tun!Fail, Tun!Exit
      <4> QED BY <2>0, <2>1, <2>3, <4>1 DEF Held
    <3> QED BY <1>2, <3>1, <3>2
  <2> QED BY <2>1, <2>2, <2>4, OneActs DEF Still
<1> QED BY <1>1, <1>2 DEF Tun!Process

LEMMA OwnNext == Tun!TypeOK /\ OnItsOwn /\ [Tun!Next]_tun => OnItsOwn'
<1> SUFFICES ASSUME Tun!TypeOK, OnItsOwn, [Tun!Next]_tun PROVE OnItsOwn'
  OBVIOUS
<1>1. CASE UNCHANGED tun
  BY <1>1 DEF OnItsOwn, Held, Still, tun
<1>2. ASSUME NEW c \in Calls, NEW first \in {"stop", "kill"}, Tun!BringUp(c, first)
      PROVE  OnItsOwn'
  <2> SUFFICES ASSUME ~disturbed' PROVE OnItsOwn'
    BY DEF OnItsOwn
  <2>1. \A d \in Calls : /\ start[d].at \in {"idle", "up"} /\ child[d] = "none" /\ child' = child
                         /\ start'[d] = IF d = c THEN [at |-> first, engine |-> TRUE]
                                        ELSE IF start[d].at = "up" THEN Tun!Idle ELSE start[d]
    BY <1>2 DEF Tun!BringUp, Tun!Alone, Tun!Ended
  <2>2. start'[c].at = first /\ \A d \in Calls \ {c} : start'[d].at = "idle"
    BY <2>1 DEF Tun!Idle
  <2>3. \A d \in Calls \ {c} : Still(d)' /\ Held(d)'
    BY <2>1, <2>2 DEF Still, Held
  <2>4. Held(c)'
    BY <2>1, <2>2 DEF Held
  <2> QED BY <2>3, <2>4 DEF OnItsOwn
<1>3. CASE Tun!SyncInterface
  <2>1. UNCHANGED <<start, child, disturbed, socket>>
    BY <1>3 DEF Tun!SyncInterface
  <2>2. device.on /\ device'.on /\ device'.conf /\ device'.addr = device.addr
    BY <1>3 DEF Tun!SyncInterface, Tun!TypeOK, Tun!Device
  <2>3. ASSUME NEW c \in Calls, Held(c) PROVE Held(c)'
    BY <2>1, <2>2, <2>3 DEF Held
  <2> QED BY <2>1, <2>3 DEF OnItsOwn, Still
<1>4. CASE Tun!Dies
  BY <1>4 DEF Tun!Dies, OnItsOwn
<1> QED BY <1>1, <1>2, <1>3, <1>4, OwnRun, OwnProcess DEF Tun!Next

LEMMA OwnInit == Tun!Init => OnItsOwn
BY DEF Tun!Init, Tun!Idle, OnItsOwn, Still, Held

\* A start of the userspace interface that nothing disturbs gets what it waits
\* for: the socket it sees is that of a living daemon, and when it returns the
\* device has keys, peers and addresses; whatever children the starts before it
\* left behind.
THEOREM UndisturbedUp == AllSpec => []Usable
<1>1. AllInit => Tun!TypeOK /\ OnItsOwn
  BY TunTypeInit, OwnInit DEF AllInit
<1>2. Tun!TypeOK /\ OnItsOwn /\ [AllNext]_<<part, api, tun>> => (Tun!TypeOK /\ OnItsOwn)'
  <2> SUFFICES ASSUME Tun!TypeOK, OnItsOwn, [AllNext]_<<part, api, tun>>
               PROVE  (Tun!TypeOK /\ OnItsOwn)'
    OBVIOUS
  <2>1. [Tun!Next]_tun
    BY DEF AllNext, OnlyApi, OnlyTun
  <2> QED BY <2>1, TunTypeNext, OwnNext
<1> QED BY <1>1, <1>2, OwnIsUsable, PTL DEF AllSpec

-----------------------------------------------------------------------------
(* The connection to a router.                                             *)

LEMMA ApiConstants ==
    /\ "none" \notin Callers /\ "none" \notin Transports
    /\ MaxTag \in Nat /\ MaxBroken \in Nat
BY TransportsAssumption DEF Api!ApiAssumption, Api!None

LEMMA ApiStart == Api!Idle \in Api!Caller /\ Api!Fresh \in Api!Transport /\ Api!Nothing \in Api!Made
<1>1. Api!Idle \in Api!Caller
  BY DEF Api!Idle, Api!Caller, Api!Ats, Api!None
<1>2. Api!Fresh \in Api!Transport
  BY DEF Api!Fresh, Api!Transport
<1>3. Api!Nothing \in Api!Made
  BY DEF Api!Nothing, Api!Made
<1> QED BY <1>1, <1>2, <1>3

\* The shapes alone, without what a transport promises of its tags.
ApiShapes ==
  /\ pool \in Transports \cup {"none"} /\ tr \in [Transports -> Api!Transport]
  /\ caller \in [Callers -> Api!Caller] /\ asked \in [Transports -> SUBSET Api!Asked]
  /\ answers \in [Transports -> SUBSET Api!Answer] /\ made \in [Callers -> Api!Made]
  /\ broken \in Nat

\* Where a call is.
Dialling(c) == caller[c].at \in {"dial", "login"}
Waiting(c)  == caller[c].at \in {"login", "wait"}

Tags(t) ==
  /\ tr[t].protocol => ~tr[t].connecting
  /\ \A p \in tr[t].pending : p.tag <= tr[t].tag

\* A call that dials or logs in has the transport for itself.
Placed(c) ==
  /\ caller[c].at \notin {"idle", "close"} => caller[c].t \in Transports
  /\ Dialling(c) => tr[caller[c].t].connecting /\ ~tr[caller[c].t].protocol
  /\ caller[c].at \in {"wait", "done"} => tr[caller[c].t].protocol
  /\ \A d \in Callers : Dialling(c) /\ Dialling(d) /\ caller[c].t = caller[d].t => c = d

\* What is on the wire belongs to calls that wait, one sentence each.
OnWire(t) == asked[t] \cup answers[t]
Wired(t) ==
  /\ \A a \in OnWire(t) : /\ Waiting(a.of) /\ caller[a.of].t = t
                          /\ a.tag <= tr[t].tag /\ tr[t].socket = "open"
  /\ \A a, b \in asked[t] : a.of = b.of => a = b
  /\ \A a, b \in answers[t] : a.of = b.of => a = b
  /\ \A a \in asked[t], b \in answers[t] : a.of # b.of

\* Tags tell the answers apart.
Matched(t) ==
  /\ \A p, q \in tr[t].pending : p.tag = q.tag => p = q
  /\ \A a \in asked[t] : made[a.of].times = 0
  /\ \A a \in answers[t] : made[a.of].times = 1
  /\ \A a \in asked[t], p \in tr[t].pending :
       p.tag = a.tag => p.who = a.of /\ p.seen = {}
  /\ \A a \in answers[t], p \in tr[t].pending : p.tag = a.tag =>
       /\ p.who = a.of
       /\ a.next # "done" => p.seen = {}
       /\ made[a.of].rows = (a.next = "re" \/ "re" \in p.seen)

Answers ==
  /\ ApiShapes /\ OwnAnswer
  /\ \A c \in Callers : Placed(c)
  /\ \A t \in Transports : Tags(t) /\ Wired(t) /\ Matched(t)

LEMMA AnswersTyped == Answers => Api!TypeOK /\ OwnAnswer
BY DEF Answers, ApiShapes, Tags, Api!TypeOK, Api!None

LEMMA AnswersInit == Api!Init => Answers
<1> SUFFICES ASSUME Api!Init PROVE Answers
  OBVIOUS
<1>1. ApiShapes
  <2>1. pool = "none" /\ broken \in Nat
    BY DEF Api!Init, Api!None
  <2> QED BY <2>1, ApiStart DEF Api!Init, ApiShapes
<1>2. \A c \in Callers : caller[c].at = "idle"
  BY DEF Api!Init, Api!Idle
<1>3. \A t \in Transports : tr[t].pending = {} /\ ~tr[t].protocol /\ asked[t] = {} /\ answers[t] = {}
  BY DEF Api!Init, Api!Fresh
<1> QED BY <1>1, <1>2, <1>3 DEF Answers, OwnAnswer, Api!OwnAnswer, Placed, Dialling, Tags, Wired,
    OnWire, Matched

-----------------------------------------------------------------------------
\* A call that goes on, with everything else as it is, unless its own command is
\* on the wire.
LEMMA GoesOn ==
    ASSUME Answers, NEW c \in Callers, NEW r \in Api!Caller,
           caller' = [caller EXCEPT ![c] = r],
           UNCHANGED <<tr, asked, answers, made, broken>>,
           pool' \in Transports \cup {"none"},
           ~Waiting(c) \/ tr[caller[c].t].socket = "none",
           r.at \in {"idle", "close", "ready"}, r.at = "ready" => r.t \in Transports
    PROVE  Answers'
<1>0. caller \in [Callers -> Api!Caller]
  BY DEF Answers, ApiShapes
<1>1. caller'[c] = r /\ \A d \in Callers \ {c} : caller'[d] = caller[d]
  BY <1>0
<1>2. ApiShapes'
  BY <1>0 DEF Answers, ApiShapes
<1>3. ASSUME NEW t \in Transports, NEW a \in OnWire(t) PROVE a.of # c /\ a.of \in Callers
  <2>1. a.of \in Callers /\ Waiting(a.of) /\ caller[a.of].t = t /\ tr[t].socket = "open"
    BY <1>3 DEF Answers, ApiShapes, Wired, OnWire, Api!Asked, Api!Answer
  <2> QED BY <2>1
<1>4. ASSUME NEW t \in Transports PROVE Tags(t)' /\ Wired(t)' /\ Matched(t)'
  <2>1. Tags(t)' /\ Matched(t)'
    BY <1>4 DEF Answers, Tags, Matched
  <2>2. Wired(t)
    BY DEF Answers
  <2>3. Wired(t)'
    BY <1>1, <1>3, <2>2 DEF Wired, OnWire, Waiting
  <2> QED BY <2>1, <2>3
<1>5. ASSUME NEW d \in Callers PROVE Placed(d)'
  BY <1>1 DEF Answers, Placed, Dialling
<1>6. OwnAnswer'
  BY <1>1 DEF Answers, OwnAnswer, Api!OwnAnswer
<1> QED BY <1>2, <1>4, <1>5, <1>6 DEF Answers

\* A transport that nobody holds is made afresh.
LEMMA AnswersNew ==
    ASSUME Answers, NEW c \in Callers, caller[c].at \in {"idle", "close"}, Api!NewTransport(c),
           UNCHANGED <<asked, answers, made, broken>>
    PROVE  Answers'
<1>0. caller \in [Callers -> Api!Caller] /\ tr \in [Transports -> Api!Transport]
  BY DEF Answers, ApiShapes
<1>1. PICK t \in Transports :
        /\ Api!Unused(t) /\ pool' = t /\ tr' = [tr EXCEPT ![t] = Api!Fresh]
        /\ caller' = [caller EXCEPT ![c] = [Api!Idle EXCEPT !.at = "ready", !.t = t]]
  BY DEF Api!NewTransport
<1>2. caller'[c].at = "ready" /\ caller'[c].t = t /\ \A d \in Callers \ {c} : caller'[d] = caller[d]
  BY <1>0, <1>1 DEF Api!Idle
<1>3. tr'[t] = Api!Fresh /\ \A u \in Transports \ {t} : tr'[u] = tr[u]
  BY <1>0, <1>1
<1>4. ApiShapes'
  <2>1. [Api!Idle EXCEPT !.at = "ready", !.t = t] \in Api!Caller
    BY ApiStart DEF Api!Caller, Api!Ats
  <2> QED BY <1>1, <2>1, ApiStart DEF Answers, ApiShapes
<1>5. \A d \in Callers : caller[d].at \notin {"idle", "close"} => caller[d].t # t
  <2>1. \A d \in Callers : ~(caller[d].at \in Api!Holds /\ caller[d].t = t)
    BY <1>1 DEF Api!Unused, Api!Held, Api!Holding
  <2> QED BY <1>0, <2>1 DEF Api!Holds, Api!Caller
<1>6. OnWire(t) = {}
  <2>1. tr[t].socket = "none" /\ Wired(t)
    BY <1>1 DEF Api!Unused, Answers
  <2> QED BY <2>1 DEF Wired
<1>7. ASSUME NEW u \in Transports PROVE Tags(u)' /\ Wired(u)' /\ Matched(u)'
  <2>1. CASE u = t
    BY <1>3, <1>6, <2>1 DEF Tags, Wired, Matched, OnWire, Api!Fresh
  <2>2. CASE u # t
    <3>1. tr'[u] = tr[u] /\ Tags(u) /\ Wired(u) /\ Matched(u)
      BY <1>3, <2>2 DEF Answers
    <3>2. \A a \in OnWire(u) : a.of # c /\ a.of \in Callers
      BY <3>1 DEF Wired, Waiting, OnWire, Answers, ApiShapes, Api!Asked, Api!Answer
    <3>3. Tags(u)' /\ Matched(u)'
      BY <3>1 DEF Tags, Matched
    <3>4. Wired(u)'
      BY <1>2, <3>1, <3>2 DEF Wired, OnWire, Waiting
    <3> QED BY <3>3, <3>4
  <2> QED BY <2>1, <2>2
<1>8. ASSUME NEW d \in Callers PROVE Placed(d)'
  BY <1>2, <1>3, <1>5 DEF Answers, Placed, Dialling
<1>9. OwnAnswer'
  BY <1>2 DEF Answers, OwnAnswer, Api!OwnAnswer
<1> QED BY <1>4, <1>7, <1>8, <1>9 DEF Answers

LEMMA NotThere ==
    ASSUME Answers, NEW c \in Callers, NEW u \in Transports, ~Waiting(c) \/ caller[c].t # u
    PROVE  \A a \in OnWire(u) : a.of # c /\ a.of \in Callers
<1>1. Wired(u) /\ \A a \in OnWire(u) : a.of \in Callers
  BY DEF Answers, ApiShapes, OnWire, Api!Asked, Api!Answer
<1> QED BY <1>1 DEF Wired

LEMMA Elsewhere ==
    ASSUME Answers, NEW u \in Transports, NEW c \in Callers,
           tr'[u] = tr[u], asked'[u] = asked[u], answers'[u] = answers[u],
           \A d \in Callers \ {c} : caller'[d] = caller[d] /\ made'[d] = made[d],
           ~Waiting(c) \/ caller[c].t # u
    PROVE  Tags(u)' /\ Wired(u)' /\ Matched(u)'
<1>1. Tags(u) /\ Wired(u) /\ Matched(u)
  BY DEF Answers
<1>2. \A a \in OnWire(u) : caller'[a.of] = caller[a.of] /\ made'[a.of] = made[a.of]
  BY NotThere
<1>3. Tags(u)'
  BY <1>1 DEF Tags
<1>4. Wired(u)'
  BY <1>1, <1>2 DEF Wired, OnWire, Waiting
<1>5. Matched(u)'
  BY <1>1, <1>2 DEF Matched, OnWire
<1> QED BY <1>3, <1>4, <1>5

\* Before a transport has its protocol only a login is on its wire.
LEMMA QuietWire ==
    ASSUME Answers, NEW t \in Transports, ~tr[t].protocol,
           ~tr[t].connecting \/ \E c \in Callers : caller[c].at = "dial" /\ caller[c].t = t
    PROVE  OnWire(t) = {} /\ \A d \in Callers : ~(Waiting(d) /\ caller[d].t = t)
<1>1. ASSUME NEW d \in Callers, Waiting(d), caller[d].t = t PROVE FALSE
  <2>1. Placed(d) /\ Dialling(d)
    BY <1>1 DEF Answers, Placed, Dialling, Waiting
  <2>2. tr[t].connecting
    BY <1>1, <2>1 DEF Placed
  <2>3. PICK c \in Callers : caller[c].at = "dial" /\ caller[c].t = t
    BY <2>2
  <2>4. d = c
    BY <1>1, <2>1, <2>3 DEF Placed, Dialling
  <2> QED BY <1>1, <2>3, <2>4 DEF Waiting
<1>2. \A a \in OnWire(t) : a.of \in Callers /\ Waiting(a.of) /\ caller[a.of].t = t
  BY DEF Answers, ApiShapes, Wired, OnWire, Api!Asked, Api!Answer
<1> QED BY <1>1, <1>2

LEMMA AnswersSend ==
    ASSUME Answers, NEW c \in Callers, NEW t \in Transports, caller[c].t = t,
           NEW isLogin \in BOOLEAN, Api!send(t, c, isLogin),
           IF isLogin THEN caller[c].at = "dial"
                      ELSE caller[c].at \in {"ready", "done"} /\ tr[t].protocol,
           UNCHANGED <<pool, answers, broken>>
    PROVE  Answers'
<1> DEFINE k == tr[t].tag + 1
           new == [tag |-> k, who |-> c, seen |-> {}]
           e == [tag |-> k, of |-> c, login |-> isLogin]
<1>0. /\ caller \in [Callers -> Api!Caller] /\ tr \in [Transports -> Api!Transport]
      /\ made \in [Callers -> Api!Made] /\ asked \in [Transports -> SUBSET Api!Asked]
      /\ answers \in [Transports -> SUBSET Api!Answer] /\ tr[t] \in Api!Transport
  BY DEF Answers, ApiShapes
<1>k. k \in Nat /\ tr[t].tag \in Nat /\ k > tr[t].tag
  BY <1>0 DEF Api!Transport
<1>1. /\ tr' = [tr EXCEPT ![t].tag = k, ![t].pending = Api!Await(t, c, k), ![t].socket = "open"]
      /\ asked' = [asked EXCEPT ![t] = @ \cup {e}]
      /\ caller' = [caller EXCEPT ![c] = [@ EXCEPT !.at = IF isLogin THEN "login" ELSE "wait",
                                                   !.got = "none", !.rows = FALSE]]
      /\ made' = [made EXCEPT ![c] = Api!Nothing]
  BY DEF Api!send, Api!NextTag, Api!None
<1>2. /\ caller'[c].at = (IF isLogin THEN "login" ELSE "wait") /\ caller'[c].t = t
      /\ caller' \in [Callers -> Api!Caller]
      /\ \A d \in Callers \ {c} : caller'[d] = caller[d]
  <2>1. PICK at \in {"login", "wait"} : at = IF isLogin THEN "login" ELSE "wait"
    OBVIOUS
  <2>2. PICK r : r = [caller[c] EXCEPT !.at = at, !.got = "none", !.rows = FALSE]
    OBVIOUS
  <2>3. r \in Api!Caller /\ r.at = at /\ r.t = t
    <3>1. caller[c] \in Api!Caller /\ {"login", "wait"} \subseteq Api!Ats
      BY <1>0 DEF Api!Ats
    <3> QED BY <2>2, <3>1 DEF Api!Caller, Api!None
  <2>4. caller' = [caller EXCEPT ![c] = r]
    BY <1>1, <2>1, <2>2
  <2> QED BY <1>0, <2>1, <2>3, <2>4
<1>3. /\ made' \in [Callers -> Api!Made] /\ made'[c].times = 0
      /\ \A d \in Callers \ {c} : made'[d] = made[d]
  BY <1>0, <1>1, ApiStart DEF Api!Nothing
<1>4. Api!Await(t, c, k) = tr[t].pending \cup {new}
  <2>1. \A p \in tr[t].pending : p.tag \in Nat /\ p.tag <= tr[t].tag
    BY <1>0 DEF Answers, Tags, Api!Transport, Api!Pending
  <2> QED BY <1>k, <2>1 DEF Api!Await
<1>5. new \in Api!Pending
  BY <1>k DEF Api!Pending
<1> HIDE DEF k, new, e
<1>6. /\ tr'[t].tag = k /\ tr'[t].pending = tr[t].pending \cup {new} /\ tr'[t].socket = "open"
      /\ tr'[t].protocol = tr[t].protocol /\ tr'[t].connecting = tr[t].connecting
      /\ \A u \in Transports \ {t} : tr'[u] = tr[u]
  BY <1>0, <1>1, <1>4 DEF Api!Transport
<1>7. tr' \in [Transports -> Api!Transport]
  <2>1. tr[t].pending \cup {new} \in SUBSET Api!Pending
    BY <1>0, <1>5 DEF Api!Transport
  <2> QED BY <1>0, <1>1, <1>4, <1>k, <2>1 DEF Api!Transport
<1>8. /\ asked' \in [Transports -> SUBSET Api!Asked] /\ asked'[t] = asked[t] \cup {e}
      /\ \A u \in Transports \ {t} : asked'[u] = asked[u]
  <2>1. e \in Api!Asked
    BY <1>k DEF e, Api!Asked
  <2> QED BY <1>0, <1>1, <2>1
<1>9. ApiShapes'
  BY <1>2, <1>3, <1>7, <1>8 DEF Answers, ApiShapes
<1>10. ~Waiting(c)
  BY DEF Waiting
<1>11. ASSUME NEW u \in Transports, u # t PROVE Tags(u)' /\ Wired(u)' /\ Matched(u)'
  BY <1>2, <1>3, <1>6, <1>8, <1>10, <1>11, Elsewhere
<1>12. Tags(t) /\ Wired(t) /\ Matched(t)
  BY DEF Answers
<1>13. \A a \in OnWire(t) : a.of # c /\ a.of \in Callers
  BY <1>10, NotThere
<1>14. new.tag = k /\ new.who = c /\ new.seen = {} /\ e.tag = k /\ e.of = c
  BY DEF new, e
<1>15. Tags(t)'
  <2>1. \A p \in tr[t].pending : p.tag <= k
    BY <1>0, <1>k, <1>12 DEF Tags, Api!Transport, Api!Pending
  <2> QED BY <1>6, <1>12, <1>14, <1>k, <2>1 DEF Tags
<1>16. Wired(t)'
  <2>1. \A a \in OnWire(t) : caller'[a.of] = caller[a.of] /\ a.tag <= k
    <3>1. \A a \in OnWire(t) : a.tag \in Nat
      BY <1>0 DEF OnWire, Api!Asked, Api!Answer
    <3> QED BY <1>2, <1>k, <1>12, <1>13, <3>1 DEF Wired
  <2>2. Waiting(c)'
    BY <1>2 DEF Waiting
  <2>3. \A a \in OnWire(t)' : /\ Waiting(a.of)' /\ caller'[a.of].t = t
                              /\ a.tag <= tr'[t].tag /\ tr'[t].socket = "open"
    BY <1>2, <1>6, <1>8, <1>12, <1>14, <1>k, <2>1, <2>2 DEF OnWire, Wired, Waiting
  <2> QED BY <1>8, <1>12, <1>13, <1>14, <2>3 DEF Wired, OnWire
<1>17. Matched(t)'
  <2>1. \A a \in OnWire(t) : made'[a.of] = made[a.of] /\ a.tag # k
    <3>1. \A a \in OnWire(t) : a.tag \in Nat
      BY <1>0 DEF OnWire, Api!Asked, Api!Answer
    <3> QED BY <1>3, <1>k, <1>12, <1>13, <3>1 DEF Wired
  <2>2. \A p \in tr[t].pending : p.tag # k
    BY <1>0, <1>k, <1>12 DEF Tags, Api!Transport, Api!Pending
  <2> QED BY <1>3, <1>6, <1>8, <1>12, <1>14, <2>1, <2>2 DEF Matched, OnWire
<1>18. ASSUME NEW d \in Callers PROVE Placed(d)'
  <2>1. \A u \in Transports : tr'[u].protocol = tr[u].protocol /\ tr'[u].connecting = tr[u].connecting
    BY <1>6
  <2>2. \A b \in Callers : /\ caller'[b].t = caller[b].t
                           /\ Dialling(b)' <=> Dialling(b)
    BY <1>2 DEF Dialling
  <2>3. Placed(d)
    BY DEF Answers
  <2> QED BY <1>2, <2>1, <2>2, <2>3 DEF Placed, Dialling
<1>19. OwnAnswer'
  BY <1>2, <1>3 DEF Answers, OwnAnswer, Api!OwnAnswer
<1>20. \A u \in Transports : Tags(u)' /\ Wired(u)' /\ Matched(u)'
  BY <1>11, <1>15, <1>16, <1>17
<1> QED BY <1>9, <1>18, <1>19, <1>20 DEF Answers

\* A transport whose wire is empty is dialled, given up or closed.
LEMMA AnswersSocket ==
    ASSUME Answers, NEW t \in Transports,
           tr' \in [Transports -> Api!Transport],
           \A u \in Transports \ {t} : tr'[u] = tr[u],
           tr'[t].protocol = tr[t].protocol, tr'[t].tag = tr[t].tag,
           tr'[t].pending = tr[t].pending, tr'[t].protocol => ~tr'[t].connecting,
           \A u \in Transports \ {t} : asked'[u] = asked[u] /\ answers'[u] = answers[u],
           asked' \in [Transports -> SUBSET Api!Asked],
           answers' \in [Transports -> SUBSET Api!Answer],
           asked'[t] = {}, answers'[t] = {},
           NEW c \in Callers, caller' \in [Callers -> Api!Caller],
           \A d \in Callers \ {c} : caller'[d] = caller[d], ~Waiting(c) \/ caller' = caller,
           caller'[c].at # "done" \/ caller' = caller,
           UNCHANGED <<pool, made>>, broken' \in Nat,
           \A d \in Callers : Placed(d)'
    PROVE  Answers'
<1>1. ApiShapes'
  BY DEF Answers, ApiShapes
<1>2. Tags(t)' /\ Wired(t)' /\ Matched(t)'
  BY DEF Answers, Tags, Wired, Matched, OnWire
<1>3. ASSUME NEW u \in Transports, u # t PROVE Tags(u)' /\ Wired(u)' /\ Matched(u)'
  <2>1. CASE ~Waiting(c)
    BY <1>3, <2>1, Elsewhere
  <2>2. CASE caller' = caller
    <3>1. tr'[u] = tr[u] /\ asked'[u] = asked[u] /\ answers'[u] = answers[u]
          /\ Tags(u) /\ Wired(u) /\ Matched(u)
      BY <1>3 DEF Answers
    <3> QED BY <2>2, <3>1 DEF Tags, Wired, Matched, OnWire, Waiting
  <2> QED BY <2>1, <2>2
<1>4. OwnAnswer'
  <2>1. \A d \in Callers : caller'[d].at = "done" => caller'[d] = caller[d]
    OBVIOUS
  <2> QED BY <2>1 DEF Answers, OwnAnswer, Api!OwnAnswer
<1> QED BY <1>1, <1>2, <1>3, <1>4 DEF Answers

LEMMA AnswersConnect ==
    ASSUME Answers, NEW c \in Callers, Api!connect(c) PROVE Answers'
<1>0. /\ caller \in [Callers -> Api!Caller] /\ tr \in [Transports -> Api!Transport]
      /\ asked \in [Transports -> SUBSET Api!Asked] /\ answers \in [Transports -> SUBSET Api!Answer]
  BY DEF Answers, ApiShapes
<1>1. PICK t \in Transports : caller[c].t = t
  BY DEF Api!connect, Answers, Placed
<1>2. /\ caller[c].at = "ready" /\ ~tr[t].protocol /\ ~tr[t].connecting
      /\ tr' = [tr EXCEPT ![t].connecting = TRUE, ![t].socket = "opening"]
      /\ caller' = [caller EXCEPT ![c].at = "dial"]
      /\ UNCHANGED <<pool, asked, answers, made, broken>>
  <2>1. /\ caller[c].at = "ready" /\ ~tr[t].protocol /\ ~tr[t].connecting
        /\ UNCHANGED <<pool, asked, answers, made, broken>>
    BY <1>1 DEF Api!connect, Api!Wire
  <2>2. tr' = [tr EXCEPT ![t].connecting = TRUE, ![t].socket = "opening"]
    BY <1>1 DEF Api!connect
  <2>3. caller' = [caller EXCEPT ![c].at = "dial"]
    BY DEF Api!connect
  <2> QED BY <2>1, <2>2, <2>3
<1>3. /\ caller'[c].at = "dial" /\ caller'[c].t = t /\ caller' \in [Callers -> Api!Caller]
      /\ \A d \in Callers \ {c} : caller'[d] = caller[d]
  BY <1>0, <1>1, <1>2 DEF Api!Caller, Api!Ats
<1>4. /\ tr' \in [Transports -> Api!Transport] /\ \A u \in Transports \ {t} : tr'[u] = tr[u]
      /\ tr'[t].protocol = tr[t].protocol /\ tr'[t].tag = tr[t].tag
      /\ tr'[t].pending = tr[t].pending /\ tr'[t].connecting
  BY <1>0, <1>2 DEF Api!Transport
<1>5. asked[t] = {} /\ answers[t] = {}
  BY <1>2, QuietWire DEF OnWire
<1>6. ASSUME NEW d \in Callers PROVE Placed(d)'
  <2>1. \A b \in Callers \ {c} : Dialling(b) => caller[b].t # t
    BY <1>2 DEF Answers, Placed
  <2>2. CASE d = c
    BY <1>2, <1>3, <1>4, <2>1, <2>2 DEF Placed, Dialling
  <2>3. CASE d # c
    <3>1. Placed(d) /\ caller'[d] = caller[d]
      BY <1>3, <2>3 DEF Answers
    <3> QED BY <1>2, <1>3, <1>4, <2>1, <2>3, <3>1 DEF Placed, Dialling
  <2> QED BY <2>2, <2>3
<1>7. ~Waiting(c) /\ caller'[c].at # "done" /\ ~tr'[t].protocol /\ broken' \in Nat
  BY <1>2, <1>3, <1>4 DEF Waiting, Answers, ApiShapes
<1> QED BY <1>0, <1>2, <1>3, <1>4, <1>5, <1>6, <1>7, AnswersSocket

LEMMA AnswersDialFails ==
    ASSUME Answers, NEW c \in Callers, Api!DialFails(c) PROVE Answers'
<1>0. /\ caller \in [Callers -> Api!Caller] /\ tr \in [Transports -> Api!Transport]
      /\ asked \in [Transports -> SUBSET Api!Asked] /\ answers \in [Transports -> SUBSET Api!Answer]
  BY DEF Answers, ApiShapes
<1>1. PICK t \in Transports : caller[c].t = t
  BY DEF Api!DialFails, Answers, Placed
<1>2. /\ caller[c].at = "dial"
      /\ tr' = [tr EXCEPT ![t].connecting = FALSE, ![t].socket = "none"]
      /\ caller' = [caller EXCEPT ![c] = Api!Idle]
      /\ UNCHANGED <<pool, asked, answers, made>> /\ broken' \in Nat
  <2>1. broken' \in Nat
    BY DEF Api!DialFails, Answers, ApiShapes
  <2>2. caller[c].at = "dial" /\ UNCHANGED <<pool, asked, answers, made>>
    BY DEF Api!DialFails, Api!Wire
  <2>3. tr' = [tr EXCEPT ![t].connecting = FALSE, ![t].socket = "none"]
    BY <1>1 DEF Api!DialFails
  <2>4. caller' = [caller EXCEPT ![c] = Api!Idle]
    BY DEF Api!DialFails
  <2> QED BY <2>1, <2>2, <2>3, <2>4
<1>3. /\ caller'[c].at = "idle" /\ caller' \in [Callers -> Api!Caller]
      /\ \A d \in Callers \ {c} : caller'[d] = caller[d]
  BY <1>0, <1>2, ApiStart DEF Api!Idle
<1>4. /\ tr' \in [Transports -> Api!Transport] /\ \A u \in Transports \ {t} : tr'[u] = tr[u]
      /\ tr'[t].protocol = tr[t].protocol /\ tr'[t].tag = tr[t].tag
      /\ tr'[t].pending = tr[t].pending
  <2>1. PICK new : new = [tr[t] EXCEPT !.connecting = FALSE, !.socket = "none"]
    OBVIOUS
  <2>2. /\ new \in Api!Transport /\ new.protocol = tr[t].protocol /\ new.tag = tr[t].tag
        /\ new.pending = tr[t].pending /\ ~new.connecting /\ new.socket = "none"
    BY <1>0, <2>1 DEF Api!Transport
  <2>3. tr' = [tr EXCEPT ![t] = new]
    BY <1>0, <1>2, <2>1
  <2> QED BY <1>0, <2>2, <2>3
<1>5. ~tr[t].protocol
  BY <1>1, <1>2 DEF Answers, Placed, Dialling
<1>6. asked[t] = {} /\ answers[t] = {}
  BY <1>1, <1>2, <1>5, QuietWire DEF OnWire
<1>7. ASSUME NEW d \in Callers PROVE Placed(d)'
  <2>1. \A b \in Callers \ {c} : Dialling(b) => caller[b].t # t
    BY <1>1, <1>2 DEF Answers, Placed, Dialling
  <2>2. CASE d = c
    BY <1>3, <2>2 DEF Placed, Dialling
  <2>3. CASE d # c
    <3>1. Placed(d) /\ caller'[d] = caller[d]
      BY <1>3, <2>3 DEF Answers
    <3> QED BY <1>3, <1>4, <2>1, <2>3, <3>1 DEF Placed, Dialling
  <2> QED BY <2>2, <2>3
<1>8. ~Waiting(c) /\ caller'[c].at # "done"
  BY <1>2, <1>3 DEF Waiting
<1> QED BY <1>0, <1>2, <1>3, <1>4, <1>5, <1>6, <1>7, <1>8, AnswersSocket

LEMMA AnswersClose ==
    ASSUME Answers, NEW t \in Transports, Api!Close(t), broken' \in Nat PROVE Answers'
<1>0. /\ caller \in [Callers -> Api!Caller] /\ tr \in [Transports -> Api!Transport]
      /\ asked \in [Transports -> SUBSET Api!Asked] /\ answers \in [Transports -> SUBSET Api!Answer]
  BY DEF Answers, ApiShapes
<1>1. /\ tr' = [tr EXCEPT ![t].socket = "none"]
      /\ asked' = [asked EXCEPT ![t] = {}] /\ answers' = [answers EXCEPT ![t] = {}]
      /\ UNCHANGED <<pool, caller, made>>
  BY DEF Api!Close
<1>2. /\ tr' \in [Transports -> Api!Transport] /\ \A u \in Transports \ {t} : tr'[u] = tr[u]
      /\ tr'[t].protocol = tr[t].protocol /\ tr'[t].tag = tr[t].tag
      /\ tr'[t].pending = tr[t].pending /\ tr'[t].connecting = tr[t].connecting
  BY <1>0, <1>1 DEF Api!Transport
<1>3. /\ asked' \in [Transports -> SUBSET Api!Asked] /\ answers' \in [Transports -> SUBSET Api!Answer]
      /\ asked'[t] = {} /\ answers'[t] = {}
      /\ \A u \in Transports \ {t} : asked'[u] = asked[u] /\ answers'[u] = answers[u]
  BY <1>0, <1>1
<1>4. tr'[t].protocol => ~tr'[t].connecting
  BY <1>2 DEF Answers, Tags
<1>5. ASSUME NEW d \in Callers PROVE Placed(d)'
  BY <1>1, <1>2 DEF Answers, Placed, Dialling
<1>6. ASSUME NEW u \in Transports PROVE Tags(u)' /\ Wired(u)' /\ Matched(u)'
  <2>1. Tags(u) /\ Wired(u) /\ Matched(u)
    BY DEF Answers
  <2>2. CASE u = t
    BY <1>2, <1>3, <1>4, <2>1, <2>2 DEF Tags, Wired, Matched, OnWire
  <2>3. CASE u # t
    <3>1. tr'[u] = tr[u] /\ asked'[u] = asked[u] /\ answers'[u] = answers[u]
      BY <1>2, <1>3, <2>3
    <3>2. Tags(u)'
      BY <2>1, <3>1 DEF Tags
    <3>3. Wired(u)'
      BY <1>1, <2>1, <3>1 DEF Wired, OnWire, Waiting
    <3>4. Matched(u)'
      BY <1>1, <2>1, <3>1 DEF Matched
    <3> QED BY <3>2, <3>3, <3>4
  <2> QED BY <2>2, <2>3
<1>7. ApiShapes' /\ OwnAnswer'
  BY <1>1, <1>2, <1>3 DEF Answers, ApiShapes, OwnAnswer, Api!OwnAnswer
<1> QED BY <1>5, <1>6, <1>7 DEF Answers

\* The router answers each command once.
LEMMA AnswersExecute ==
    ASSUME Answers, NEW t \in Transports, Api!Execute(t) PROVE Answers'
<1>0. /\ made \in [Callers -> Api!Made]
      /\ asked \in [Transports -> SUBSET Api!Asked] /\ answers \in [Transports -> SUBSET Api!Answer]
  BY DEF Answers, ApiShapes
<1>1. PICK a \in asked[t], next \in {"re", "trap", "done"} :
        /\ broken' = (IF next = "trap" /\ a.login THEN broken + 1 ELSE broken)
        /\ asked' = [asked EXCEPT ![t] = @ \ {a}]
        /\ answers' = [answers EXCEPT ![t] = @ \cup {[tag |-> a.tag, of |-> a.of, next |-> next]}]
        /\ made' = [made EXCEPT ![a.of] = [times |-> @.times + 1, rows |-> (next = "re")]]
  BY DEF Api!Execute
<1>2. UNCHANGED <<pool, tr, caller>>
  BY DEF Api!Execute
<1>3. PICK b : b = [tag |-> a.tag, of |-> a.of, next |-> next]
  OBVIOUS
<1>4. PICK c \in Callers : c = a.of
  BY <1>0 DEF Api!Asked
<1>5. Tags(t) /\ Wired(t) /\ Matched(t)
  BY DEF Answers
<1>6. Waiting(c) /\ caller[c].t = t
  BY <1>4, <1>5 DEF Wired, OnWire
<1>7. b \in Api!Answer /\ b.tag = a.tag /\ b.of = c /\ b.next = next
  BY <1>0, <1>3, <1>4 DEF Api!Answer, Api!Asked
<1>8. /\ asked' \in [Transports -> SUBSET Api!Asked] /\ asked'[t] = asked[t] \ {a}
      /\ answers' \in [Transports -> SUBSET Api!Answer] /\ answers'[t] = answers[t] \cup {b}
      /\ \A u \in Transports \ {t} : asked'[u] = asked[u] /\ answers'[u] = answers[u]
  BY <1>0, <1>1, <1>3, <1>7
<1>9. /\ made' \in [Callers -> Api!Made] /\ made'[c].times = 1 /\ made'[c].rows = (next = "re")
      /\ \A d \in Callers \ {c} : made'[d] = made[d]
  <2>1. made[c].times = 0
    BY <1>4, <1>5 DEF Matched
  <2>2. made' = [made EXCEPT ![c] = [times |-> 1, rows |-> (next = "re")]]
    BY <1>0, <1>1, <1>4, <2>1
  <2>3. [times |-> 1, rows |-> (next = "re")] \in Api!Made
    BY DEF Api!Made
  <2> QED BY <1>0, <2>2, <2>3
<1>10. ApiShapes'
  <2>1. broken' \in Nat
    BY <1>1 DEF Answers, ApiShapes
  <2> QED BY <1>2, <1>8, <1>9, <2>1 DEF Answers, ApiShapes
<1>11. \A d \in Callers : Placed(d)'
  BY <1>2 DEF Answers, Placed, Dialling
<1>12. OwnAnswer'
  BY <1>2, <1>6, <1>9 DEF Answers, OwnAnswer, Api!OwnAnswer, Waiting
<1>13. ASSUME NEW u \in Transports, u # t PROVE Tags(u)' /\ Wired(u)' /\ Matched(u)'
  BY <1>2, <1>6, <1>8, <1>9, <1>13, Elsewhere
<1>14. Tags(t)'
  BY <1>2, <1>5 DEF Tags
<1>16. /\ \A x \in asked[t] \ {a} : x.of # c /\ x.of \in Callers
       /\ \A x \in answers[t] : x.of # c /\ x.of \in Callers
  BY <1>0, <1>4, <1>5 DEF Wired, Api!Asked, Api!Answer
<1>17. Wired(t)'
  <2>1. \A x \in OnWire(t)' : Waiting(x.of)' /\ caller'[x.of].t = t /\ x.tag <= tr'[t].tag
                              /\ tr'[t].socket = "open"
    BY <1>2, <1>4, <1>5, <1>6, <1>7, <1>8 DEF Wired, OnWire, Waiting
  <2> QED BY <1>5, <1>7, <1>8, <1>16, <2>1 DEF Wired, OnWire
<1>18. Matched(t)'
  <2>1. \A p \in tr[t].pending : p.tag = b.tag => p.who = c /\ p.seen = {}
    BY <1>4, <1>5, <1>7 DEF Matched
  <2>2. \A p \in tr[t].pending : p.tag = b.tag =>
           made'[b.of].rows = (b.next = "re" \/ "re" \in p.seen)
    BY <1>7, <1>9, <2>1
  <2> QED BY <1>2, <1>5, <1>7, <1>8, <1>9, <1>16, <2>1, <2>2 DEF Matched
<1> QED BY <1>10, <1>11, <1>12, <1>13, <1>14, <1>17, <1>18 DEF Answers

\* A sentence that does not complete its answer leaves the rest of it.
LEMMA AnswersPart ==
    ASSUME Answers, NEW t \in Transports, NEW a \in answers[t], NEW p \in tr[t].pending,
           tr[t].socket = "open", p.tag = a.tag, ~Api!Final(a.next),
           answers' = [answers EXCEPT ![t] = (@ \ {a}) \cup Api!Later(a)],
           tr' = [tr EXCEPT ![t].pending =
                    (@ \ {p}) \cup {[p EXCEPT !.seen = @ \cup ({a.next} \ {"done"})]}],
           UNCHANGED <<pool, caller, asked, made, broken>>
    PROVE  Answers'
<1>0. /\ tr \in [Transports -> Api!Transport] /\ a \in Api!Answer /\ p \in Api!Pending
      /\ answers \in [Transports -> SUBSET Api!Answer] /\ asked \in [Transports -> SUBSET Api!Asked]
  BY DEF Answers, ApiShapes, Api!Transport
<1>1. Tags(t) /\ Wired(t) /\ Matched(t)
  BY DEF Answers
<1>2. p.who = a.of /\ p.seen = {} /\ made[a.of].rows = (a.next = "re") /\ made[a.of].times = 1
  <2>1. p.who = a.of /\ p.seen = {} /\ made[a.of].times = 1
    BY <1>1 DEF Matched, Api!Final
  <2>2. made[a.of].rows = (a.next = "re" \/ "re" \in p.seen)
    BY <1>1 DEF Matched
  <2> QED BY <2>1, <2>2
<1>3. PICK b : b = [a EXCEPT !.next = "done"]
  OBVIOUS
<1>4. b \in Api!Answer /\ b.tag = a.tag /\ b.of = a.of /\ b.next = "done"
  BY <1>0, <1>3 DEF Api!Answer
<1>5. PICK q : q = [p EXCEPT !.seen = @ \cup ({a.next} \ {"done"})]
  OBVIOUS
<1>6. q \in Api!Pending /\ q.tag = p.tag /\ q.who = p.who /\ q.seen = {a.next}
  BY <1>0, <1>2, <1>5 DEF Api!Pending, Api!Answer, Api!Final
<1>7. /\ answers'[t] = (answers[t] \ {a}) \cup {b} /\ answers' \in [Transports -> SUBSET Api!Answer]
      /\ \A u \in Transports \ {t} : answers'[u] = answers[u]
  <2>1. Api!Later(a) = {b}
    BY <1>3 DEF Api!Later, Api!Final
  <2> QED BY <1>0, <1>4, <2>1
<1>8. /\ tr' \in [Transports -> Api!Transport] /\ \A u \in Transports \ {t} : tr'[u] = tr[u]
      /\ tr'[t].protocol = tr[t].protocol /\ tr'[t].connecting = tr[t].connecting
      /\ tr'[t].socket = tr[t].socket /\ tr'[t].tag = tr[t].tag
      /\ tr'[t].pending = (tr[t].pending \ {p}) \cup {q}
  <2>1. tr' = [tr EXCEPT ![t].pending = (tr[t].pending \ {p}) \cup {q}]
    BY <1>0, <1>5
  <2>2. (tr[t].pending \ {p}) \cup {q} \in SUBSET Api!Pending
    BY <1>0, <1>6 DEF Api!Transport
  <2> QED BY <1>0, <2>1, <2>2 DEF Api!Transport
<1>9. ApiShapes'
  BY <1>7, <1>8 DEF Answers, ApiShapes
<1>10. \A d \in Callers : Placed(d)'
  BY <1>8 DEF Answers, Placed, Dialling
<1>11. OwnAnswer'
  BY DEF Answers, OwnAnswer, Api!OwnAnswer
<1>12. ASSUME NEW u \in Transports, u # t PROVE Tags(u)' /\ Wired(u)' /\ Matched(u)'
  <2>1. /\ tr'[u] = tr[u] /\ asked'[u] = asked[u] /\ answers'[u] = answers[u]
        /\ Tags(u) /\ Wired(u) /\ Matched(u)
    BY <1>7, <1>8, <1>12 DEF Answers
  <2>2. Tags(u)'
    BY <2>1 DEF Tags
  <2>3. Wired(u)'
    BY <2>1 DEF Wired, OnWire, Waiting
  <2>4. Matched(u)'
    BY <2>1 DEF Matched
  <2> QED BY <2>2, <2>3, <2>4
<1>13. Tags(t)'
  BY <1>1, <1>6, <1>8 DEF Tags
<1>14. Wired(t)'
  BY <1>1, <1>4, <1>7, <1>8 DEF Wired, OnWire, Waiting
<1>15. Matched(t)'
  <2>1. \A x, y \in tr'[t].pending : x.tag = y.tag => x = y
    BY <1>1, <1>6, <1>8 DEF Matched
  <2>2. \A x \in asked[t], y \in tr'[t].pending : x.tag = y.tag => y.who = x.of /\ y.seen = {}
    <3>1. \A x \in asked[t] : x.tag # q.tag
      BY <1>1, <1>2, <1>6 DEF Matched, Wired
    <3> QED BY <1>1, <1>8, <3>1 DEF Matched
  <2>3. \A x \in answers[t] \ {a} : x.tag # p.tag
    <3>1. \A x \in answers[t] : x.tag = p.tag => x.of = a.of
      BY <1>1, <1>2 DEF Matched
    <3> QED BY <1>1, <3>1 DEF Wired
  <2>4. \A x \in answers[t] \ {a}, y \in tr'[t].pending : y.tag = x.tag => y \in tr[t].pending
    BY <1>6, <1>8, <2>3
  <2>5. \A y \in tr'[t].pending : y.tag = b.tag => y = q
    BY <1>4, <1>6, <1>8, <2>1
  <2>6. made[b.of].rows = (b.next = "re" \/ "re" \in q.seen)
    BY <1>2, <1>4, <1>6
  <2>7. \A x \in answers'[t], y \in tr'[t].pending : y.tag = x.tag =>
          /\ y.who = x.of
          /\ x.next # "done" => y.seen = {}
          /\ made[x.of].rows = (x.next = "re" \/ "re" \in y.seen)
    BY <1>1, <1>2, <1>4, <1>6, <1>7, <2>4, <2>5, <2>6 DEF Matched
  <2>8. \A x \in answers'[t] : made[x.of].times = 1
    BY <1>1, <1>2, <1>4, <1>7 DEF Matched
  <2> QED BY <1>1, <2>1, <2>2, <2>7, <2>8 DEF Matched
<1> QED BY <1>9, <1>10, <1>11, <1>12, <1>13, <1>14, <1>15 DEF Answers

\* The sentence that completes an answer wakes the call whose command it was.
LEMMA AnswersWhole ==
    ASSUME Answers, NEW t \in Transports, NEW a \in answers[t], NEW p \in tr[t].pending,
           p.tag = a.tag, Api!Final(a.next),
           answers' = [answers EXCEPT ![t] = (@ \ {a}) \cup Api!Later(a)],
           tr' = [tr EXCEPT
                    ![t].pending = @ \ {p},
                    ![t].connecting = Api!Connecting(p, @),
                    ![t].protocol = @ \/ (caller[p.who].at = "login" /\ "trap" \notin p.seen)],
           caller' = [caller EXCEPT ![p.who] = Api!Resumed(p, a)],
           UNCHANGED <<pool, asked, made, broken>>
    PROVE  Answers'
<1>0. /\ tr \in [Transports -> Api!Transport] /\ a \in Api!Answer /\ p \in Api!Pending
      /\ answers \in [Transports -> SUBSET Api!Answer] /\ asked \in [Transports -> SUBSET Api!Asked]
      /\ caller \in [Callers -> Api!Caller] /\ tr[t] \in Api!Transport
  BY DEF Answers, ApiShapes, Api!Transport
<1>1. Tags(t) /\ Wired(t) /\ Matched(t)
  BY DEF Answers
<1>2. PICK c \in Callers : c = p.who
  BY <1>0 DEF Api!Pending
<1>3. /\ a.of = c /\ a.next = "done" /\ made[c].times = 1 /\ Waiting(c) /\ caller[c].t = t
  BY <1>1, <1>2 DEF Matched, Wired, OnWire, Api!Final
<1>4. made[c].rows = ("re" \in p.seen)
  BY <1>1, <1>2, <1>3 DEF Matched
<1>5. PICK r : r = Api!Resumed(p, a)
  OBVIOUS
<1>6. /\ r \in Api!Caller
      /\ \/ caller[c].at = "login" /\ "trap" \notin p.seen /\ r.at = "ready" /\ r.t = t
         \/ /\ caller[c].at = "wait" /\ "trap" \notin p.seen
            /\ r.at = "done" /\ r.t = t /\ r.got = c /\ r.rows = ("re" \in p.seen)
         \/ r.at = "idle"
  <2>1. CASE caller[c].at = "login" /\ "trap" \notin p.seen
    BY <1>0, <1>2, <1>3, <1>5, <2>1 DEF Api!Resumed, Api!Caller, Api!Ats
  <2>2. CASE caller[c].at = "wait" /\ "trap" \notin p.seen
    <3>1. r = [caller[c] EXCEPT !.at = "done", !.got = c, !.rows = "re" \in p.seen]
      BY <1>2, <1>3, <1>5, <2>2 DEF Api!Resumed
    <3>2. r.at = "done" /\ r.t = t /\ r.got = c
      BY <1>0, <1>3, <3>1 DEF Api!Caller
    <3>3. r.rows = ("re" \in p.seen)
      BY <1>0, <3>1 DEF Api!Caller
    <3>4. r \in Api!Caller
      <4>1. PICK f : f = ("re" \in p.seen)
        OBVIOUS
      <4>2. f \in BOOLEAN
        BY <4>1
      <4>3. r = [caller[c] EXCEPT !.at = "done", !.got = c, !.rows = f]
        BY <3>1, <4>1
      <4> QED BY <1>0, <4>2, <4>3 DEF Api!Caller, Api!Ats
    <3> QED BY <2>2, <3>2, <3>3, <3>4
  <2>3. CASE "trap" \in p.seen
    BY <1>2, <1>5, <2>3, ApiStart DEF Api!Resumed, Api!Idle
  <2> QED BY <1>3, <2>1, <2>2, <2>3 DEF Waiting
<1>7. /\ caller' \in [Callers -> Api!Caller] /\ caller'[c] = r
      /\ \A d \in Callers \ {c} : caller'[d] = caller[d]
  BY <1>0, <1>2, <1>5, <1>6
<1>8. /\ answers'[t] = answers[t] \ {a} /\ answers' \in [Transports -> SUBSET Api!Answer]
      /\ \A u \in Transports \ {t} : answers'[u] = answers[u]
  <2>1. Api!Later(a) = {}
    BY <1>3 DEF Api!Later
  <2> QED BY <1>0, <2>1
<1>9. PICK logged : logged = (tr[t].protocol \/ (caller[c].at = "login" /\ "trap" \notin p.seen))
  OBVIOUS
<1>10. PICK busy : busy = (tr[t].connecting /\ caller[c].at # "login")
  OBVIOUS
<1>11. logged \in BOOLEAN /\ busy \in BOOLEAN
  BY <1>9, <1>10
<1>12. tr' = [tr EXCEPT ![t] = [tr[t] EXCEPT !.pending = tr[t].pending \ {p}, !.connecting = busy,
                                            !.protocol = logged]]
  BY <1>0, <1>2, <1>9, <1>10 DEF Api!Connecting
<1>13. /\ tr' \in [Transports -> Api!Transport] /\ \A u \in Transports \ {t} : tr'[u] = tr[u]
       /\ tr'[t].protocol = logged /\ tr'[t].connecting = busy
       /\ tr'[t].socket = tr[t].socket /\ tr'[t].tag = tr[t].tag
       /\ tr'[t].pending = tr[t].pending \ {p}
  <2>1. PICK s \in SUBSET Api!Pending : s = tr[t].pending \ {p}
    BY <1>0 DEF Api!Transport
  <2>2. PICK new : new = [tr[t] EXCEPT !.pending = s, !.connecting = busy, !.protocol = logged]
    OBVIOUS
  <2>3. /\ new \in Api!Transport /\ new.protocol = logged /\ new.connecting = busy
        /\ new.socket = tr[t].socket /\ new.tag = tr[t].tag /\ new.pending = s
    BY <1>0, <1>11, <2>2 DEF Api!Transport
  <2>4. tr' = [tr EXCEPT ![t] = new]
    BY <1>12, <2>1, <2>2
  <2>5. tr'[t] = new /\ \A u \in Transports \ {t} : tr'[u] = tr[u]
    BY <1>0, <2>4
  <2>6. tr' \in [Transports -> Api!Transport]
    BY <1>0, <2>3, <2>4
  <2>7. /\ tr'[t].protocol = logged /\ tr'[t].connecting = busy
        /\ tr'[t].socket = tr[t].socket /\ tr'[t].tag = tr[t].tag
        /\ tr'[t].pending = tr[t].pending \ {p}
    BY <2>1, <2>3, <2>5
  <2> QED BY <2>5, <2>6, <2>7
<1>14. ApiShapes'
  BY <1>7, <1>8, <1>13 DEF Answers, ApiShapes
<1>15. ASSUME NEW u \in Transports, u # t PROVE Tags(u)' /\ Wired(u)' /\ Matched(u)'
  BY <1>3, <1>7, <1>8, <1>13, <1>15, Elsewhere
<1>16. Placed(c)
  BY DEF Answers
<1>17. Tags(t)'
  BY <1>1, <1>3, <1>9, <1>10, <1>13, <1>16 DEF Tags, Placed, Dialling, Waiting
<1>18. /\ \A x \in answers[t] \ {a} : x.of # c /\ x.of \in Callers
       /\ \A x \in asked[t] : x.of # c /\ x.of \in Callers
  BY <1>0, <1>1, <1>3 DEF Wired, Api!Asked, Api!Answer
<1>19. Wired(t)'
  BY <1>1, <1>7, <1>8, <1>13, <1>18 DEF Wired, OnWire, Waiting
<1>20. Matched(t)'
  BY <1>1, <1>8, <1>13 DEF Matched
<1>21. OwnAnswer'
  <2>1. caller'[c].at = "done" => caller'[c].got = c /\ made[c].times = 1
                                 /\ caller'[c].rows = made[c].rows
    BY <1>3, <1>4, <1>6, <1>7
  <2> QED BY <1>7, <2>1 DEF Answers, OwnAnswer, Api!OwnAnswer
<1>22. \A d \in Callers \ {c} : Dialling(d) => caller[d].t # t
  BY <1>3, <1>16 DEF Answers, Placed, Dialling, Waiting
<1>23. ASSUME NEW d \in Callers PROVE Placed(d)'
  <2>1. CASE d = c
    <3>1. caller'[c] = r /\ ~Dialling(c)'
      BY <1>6, <1>7 DEF Dialling
    <3>2. r.at \notin {"idle", "close"} => r.t = t
      BY <1>6
    <3>3. r.at \in {"wait", "done"} => tr'[t].protocol
      BY <1>3, <1>6, <1>9, <1>13, <1>16 DEF Placed, Waiting
    <3> QED BY <2>1, <3>1, <3>2, <3>3 DEF Placed, Dialling
  <2>2. CASE d # c
    <3>1. Placed(d) /\ caller'[d] = caller[d]
      BY <1>7, <2>2 DEF Answers
    <3>2. ~Dialling(c)'
      BY <1>6, <1>7 DEF Dialling
    <3>3. caller[d].at \in {"wait", "done"} => tr'[caller[d].t].protocol
      BY <1>9, <1>13, <3>1 DEF Placed
    <3>4. Dialling(d) => tr'[caller[d].t] = tr[caller[d].t]
      BY <1>13, <1>22, <2>2, <3>1 DEF Placed, Dialling
    <3>5. \A e \in Callers : Dialling(d)' /\ Dialling(e)' /\ caller'[d].t = caller'[e].t => d = e
      <4>1. \A e \in Callers : Dialling(e)' => e # c /\ Dialling(e) /\ caller'[e].t = caller[e].t
        BY <1>7, <3>2 DEF Dialling
      <4> QED BY <3>1, <4>1 DEF Placed
    <3>6. Dialling(d)' <=> Dialling(d)
      BY <3>1 DEF Dialling
    <3> QED BY <3>1, <3>3, <3>4, <3>5, <3>6 DEF Placed
  <2> QED BY <2>1, <2>2
<1> QED BY <1>14, <1>15, <1>17, <1>19, <1>20, <1>21, <1>23 DEF Answers

LEMMA AnswersGo ==
    ASSUME Answers, NEW c \in Callers, Api!Go(c) PROVE Answers'
<1>0. caller \in [Callers -> Api!Caller] /\ broken \in Nat /\ pool \in Transports \cup {"none"}
  BY DEF Answers, ApiShapes
<1>i. Api!Idle \in Api!Caller /\ Api!Idle.at = "idle"
  BY ApiStart DEF Api!Idle
<1>1. CASE Api!getApi(c)
  <2>1. caller[c].at = "idle" /\ ~Waiting(c) /\ UNCHANGED <<asked, answers, made, broken>>
    BY <1>1 DEF Api!getApi, Api!Wire, Waiting
  <2>2. CASE Api!NewTransport(c)
    BY <2>1, <2>2, AnswersNew
  <2>3. CASE ~Api!NewTransport(c)
    <3>1. PICK r \in {[Api!Idle EXCEPT !.at = "ready", !.t = pool], [Api!Idle EXCEPT !.at = "close"]} :
            /\ caller' = [caller EXCEPT ![c] = r] /\ pool # "none" /\ UNCHANGED <<pool, tr>>
      BY <1>1, <2>3 DEF Api!getApi, Api!None
    <3>2. r \in Api!Caller /\ r.at \in {"close", "ready"} /\ (r.at = "ready" => r.t = pool)
      BY <1>0, <1>i, <3>1 DEF Api!Caller, Api!Ats
    <3> QED BY <1>0, <2>1, <3>1, <3>2, GoesOn
  <2> QED BY <2>2, <2>3
<1>2. CASE Api!Replace(c)
  BY <1>2, AnswersNew DEF Api!Replace, Api!Wire
<1>3. CASE Api!Command(c)
  <2>1. PICK t \in Transports : caller[c].t = t
    BY <1>3 DEF Api!Command, Answers, Placed
  <2>2. /\ caller[c].at \in {"ready", "done"} /\ tr[t].protocol /\ Api!send(t, c, FALSE)
        /\ UNCHANGED <<pool, answers, broken>>
    BY <1>3, <2>1 DEF Api!Command
  <2> QED BY <2>1, <2>2, AnswersSend
<1>4. CASE Api!NotConnected(c) \/ Api!Return(c) \/ Api!Hang(c)
  <2>1. /\ caller' = [caller EXCEPT ![c] = Api!Idle]
        /\ UNCHANGED <<pool, tr, asked, answers, made, broken>>
    BY <1>4 DEF Api!NotConnected, Api!Return, Api!Hang, Api!Wire
  <2>2. ~Waiting(c) \/ tr[caller[c].t].socket = "none"
    BY <1>4 DEF Api!NotConnected, Api!Return, Api!Hang, Waiting
  <2> QED BY <1>0, <1>i, <2>1, <2>2, GoesOn
<1>5. CASE Api!connect(c)
  BY <1>5, AnswersConnect
<1>6. CASE Api!login(c)
  <2>1. PICK t \in Transports : caller[c].t = t
    BY <1>6 DEF Api!login, Answers, Placed
  <2>2. caller[c].at = "dial" /\ Api!send(t, c, TRUE) /\ UNCHANGED <<pool, answers, broken>>
    BY <1>6, <2>1 DEF Api!login
  <2> QED BY <2>1, <2>2, AnswersSend
<1> QED BY <1>1, <1>2, <1>3, <1>4, <1>5, <1>6 DEF Api!Go

LEMMA AnswersNext == Answers /\ [Api!Next]_api => Answers'
<1> SUFFICES ASSUME Answers, [Api!Next]_api PROVE Answers'
  OBVIOUS
<1>1. CASE UNCHANGED api
  BY <1>1 DEF Answers, ApiShapes, OwnAnswer, Api!OwnAnswer, Placed, Dialling, Tags, Wired, OnWire,
     Waiting, Matched, api
<1>2. ASSUME NEW c \in Callers, Api!Go(c) \/ Api!DialFails(c) PROVE Answers'
  BY <1>2, AnswersGo, AnswersDialFails
<1>3. ASSUME NEW t \in Transports, Api!handleSentence(t) PROVE Answers'
  <2>1. /\ tr[t].socket = "open" /\ UNCHANGED <<pool, asked, made, broken>>
        /\ \E a \in answers[t] :
             /\ answers' = [answers EXCEPT ![t] = (@ \ {a}) \cup Api!Later(a)]
             /\ \E p \in tr[t].pending :
                  /\ p.tag = a.tag
                  /\ \/ /\ ~Api!Final(a.next)
                        /\ tr' = [tr EXCEPT ![t].pending =
                             (@ \ {p}) \cup {[p EXCEPT !.seen = @ \cup ({a.next} \ {"done"})]}]
                        /\ UNCHANGED caller
                     \/ /\ Api!Final(a.next)
                        /\ tr' = [tr EXCEPT
                             ![t].pending = @ \ {p},
                             ![t].connecting = Api!Connecting(p, @),
                             ![t].protocol = @ \/ (caller[p.who].at = "login" /\ "trap" \notin p.seen)]
                        /\ caller' = [caller EXCEPT ![p.who] = Api!Resumed(p, a)]
    BY <1>3, Zenon DEF Api!handleSentence
  <2> QED BY <2>1, AnswersPart, AnswersWhole
<1>4. ASSUME NEW t \in Transports, Api!Execute(t) PROVE Answers'
  BY <1>4, AnswersExecute
<1>5. ASSUME NEW t \in Transports, Api!Drop(t) \/ Api!Expel(t) PROVE Answers'
  <2>1. Api!Close(t) /\ broken' \in Nat
    BY <1>5 DEF Api!Drop, Api!Expel, Answers, ApiShapes
  <2> QED BY <2>1, AnswersClose
<1> QED BY <1>1, <1>2, <1>3, <1>4, <1>5 DEF Api!Next, Api!Net

\* What the composition promises of its two machines.
LEMMA MachinesGoOn ==
    ASSUME Answers, Tun!TypeOK, [AllNext]_<<part, api, tun>> PROVE Answers' /\ Tun!TypeOK'
<1>1. [Api!Next]_api /\ [Tun!Next]_tun
  BY DEF AllNext, OnlyApi, OnlyTun
<1> QED BY <1>1, AnswersNext, TunTypeNext

\* A connection to a router and the daemon of the userspace interface stay well
\* formed: no transport waits for a tag it has not used or connects again once
\* it has a protocol, and the map of children has at most one entry.
THEOREM TransportsTyped == AllSpec => []EveryTypeOK
<1>1. AllInit => Answers /\ Tun!TypeOK
  BY AnswersInit, TunTypeInit DEF AllInit
<1>2. Answers /\ Tun!TypeOK => EveryTypeOK
  BY AnswersTyped DEF EveryTypeOK
<1> QED BY <1>1, <1>2, MachinesGoOn, PTL DEF AllSpec

\* A call that returns has the whole answer to its own command, which the router
\* executed once, however many calls share the connection, in whatever order the
\* router answers, and wherever connections fail and are replaced.
THEOREM OwnAnswers == AllSpec => []OwnAnswer
<1>1. AllInit => Answers /\ Tun!TypeOK
  BY AnswersInit, TunTypeInit DEF AllInit
<1>2. Answers => OwnAnswer
  BY DEF Answers
<1> QED BY <1>1, <1>2, MachinesGoOn, PTL DEF AllSpec
=============================================================================
