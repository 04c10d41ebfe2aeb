------------------------------ MODULE Boringtun ------------------------------
(* The userspace engine: the process manager that starts boringtun-cli and    *)
(* starts it again when it fails, and the engine that configures the device   *)
(* the daemon makes.  boringtun-cli forks: the child of the server exits with *)
(* 0 and leaves a daemon, of which the server knows no more than its name and *)
(* its socket; a second daemon finds the device busy and exits with an error. *)
(* A call of start sleeps between killing the old daemons and spawning the    *)
(* new one, and starts overlap: the boot, restarts asked for by an            *)
(* administrator, and the ones the exit handler makes.                        *)
EXTENDS Integers, FiniteSets

CONSTANTS
  Calls,        \* calls of start that may be under way, each with its child
  maxRestarts,  \* restarts the exit handler makes
  MaxUps,       \* bound on the calls of bringUp
  MaxDeaths     \* bound on daemons that die on their own

\* Assumed of the constants by the module that instantiates this one.
BoringtunAssumption ==
  maxRestarts \in Nat /\ MaxUps \in Nat /\ MaxDeaths \in Nat

VARIABLES
  start,      \* the calls of start and bringUp
  child,      \* the process each of them spawned
  heard,      \* children with an exit listener
  tracked,    \* processes: the call whose child is in the map
  restarts,   \* restartCounts: a set with one number, or none
  device,     \* the device of the daemon
  socket,     \* the file of the UAPI socket exists
  disturbed,  \* history: something else ran beside the last bringUp
  ups, deaths

bvars == <<start, child, heard, tracked, restarts, device, socket, disturbed, ups, deaths>>

Start  == [at : {"idle", "stop", "kill", "sleep", "wait", "config", "addr", "up"},
           engine : BOOLEAN]
Idle   == [at |-> "idle", engine |-> FALSE]
Child  == {"none", "running", "forked", "failed"}
Device == [on : BOOLEAN, conf : BOOLEAN, addr : BOOLEAN]
Off    == [on |-> FALSE, conf |-> FALSE, addr |-> FALSE]

Init ==
  /\ start = [c \in Calls |-> Idle] /\ child = [c \in Calls |-> "none"]
  /\ heard = {} /\ tracked = {} /\ restarts = {}
  /\ device = Off /\ socket = FALSE /\ disturbed = FALSE /\ ups = 0 /\ deaths = 0

Ended(c) == start[c].at \in {"idle", "up"} /\ child[c] = "none"
Alone(c) == \A d \in Calls \ {c} : Ended(d)
To(c, at) == start' = [start EXCEPT ![c].at = at]

(***************************************************************************)
(* The process manager.                                                    *)
(***************************************************************************)

\* bringUp at the start of the server, or bringDown and bringUp on request.
BringUp(c, first) ==
  /\ Ended(c) /\ ups < MaxUps /\ ups' = ups + 1
  /\ start' = [d \in Calls |->
                 IF d = c THEN [at |-> first, engine |-> TRUE]
                 ELSE IF start[d].at = "up" THEN Idle ELSE start[d]]
  /\ disturbed' = ~Alone(c)
  /\ UNCHANGED <<child, heard, tracked, restarts, device, socket, deaths>>

\* pkill and unlink; a child that still runs is hit as well.
\* Mutants: the socket of a daemon that died stays; the processes stay.
FileStays == socket
Unlinked  == FALSE

Pkill ==
  /\ device' = Off /\ socket' = Unlinked
  /\ child' = [c \in Calls |-> IF child[c] = "running" THEN "failed" ELSE child[c]]

\* The child of the map loses its listener, and the restarts are forgotten.
Stop(c) ==
  /\ start[c].at = "stop"
  /\ Pkill /\ To(c, "kill")
  /\ heard' = heard \ tracked /\ tracked' = {} /\ restarts' = {}
  /\ UNCHANGED <<disturbed, ups, deaths>>

Kill(c) ==
  /\ start[c].at = "kill"
  /\ Pkill /\ To(c, "sleep")
  /\ UNCHANGED <<heard, tracked, restarts, disturbed, ups, deaths>>

\* Only a fresh start begins to count.  Mutant: every start does.
FromZero  == {0}
Counted   == IF restarts = {} THEN {0} ELSE restarts

Spawn(c) ==
  /\ start[c].at = "sleep"
  /\ child' = [child EXCEPT ![c] = "running"]
  /\ heard' = heard \union {c} /\ tracked' = {c} /\ restarts' = Counted
  /\ To(c, "wait")
  /\ UNCHANGED <<device, socket, disturbed, ups, deaths>>

\* The daemon has the device and the socket, its parent ends.
Fork(c) ==
  /\ child[c] = "running" /\ ~device.on
  /\ child' = [child EXCEPT ![c] = "forked"]
  /\ device' = [Off EXCEPT !.on = TRUE] /\ socket' = TRUE
  /\ UNCHANGED <<start, heard, tracked, restarts, disturbed, ups, deaths>>

\* The device is busy, or anything else is wrong.
Fail(c) ==
  /\ child[c] = "running"
  /\ child' = [child EXCEPT ![c] = "failed"]
  /\ UNCHANGED <<start, heard, tracked, restarts, device, socket, disturbed, ups, deaths>>

\* The exit event: the entry of the map goes, whoever it belongs to.
Exited(c) ==
  /\ child' = [child EXCEPT ![c] = "none"]
  /\ heard' = heard \ {c}
  /\ tracked' = IF c \in heard THEN {} ELSE tracked

Exit(c) ==
  /\ child[c] = "forked" \/ (child[c] = "failed" /\ c \notin heard)
  /\ Exited(c)
  /\ UNCHANGED <<start, restarts, device, socket, disturbed, ups, deaths>>

Tries == IF restarts = {} THEN 0 ELSE CHOOSE n \in restarts : TRUE

Respawn(c, d) ==
  /\ child[c] = "failed" /\ c \in heard /\ Tries < maxRestarts
  /\ Ended(d) \/ (d = c /\ start[c].at \in {"idle", "up"})
  /\ Exited(c)
  /\ restarts' = {Tries + 1} /\ disturbed' = TRUE
  /\ start' = [start EXCEPT ![d] = [at |-> "kill", engine |-> FALSE]]
  /\ UNCHANGED <<device, socket, ups, deaths>>

GiveUp(c) ==
  /\ child[c] = "failed" /\ c \in heard /\ Tries >= maxRestarts
  /\ Exited(c) /\ disturbed' = TRUE
  /\ UNCHANGED <<start, restarts, device, socket, ups, deaths>>

\* The file is there, whoever made it.
Wait(c) ==
  /\ start[c].at = "wait" /\ socket
  /\ To(c, IF start[c].engine THEN "config" ELSE "idle")
  /\ UNCHANGED <<child, heard, tracked, restarts, device, socket, disturbed, ups, deaths>>

\* Five seconds are over.
TimesOut(c) ==
  /\ start[c].at = "wait" /\ ~socket
  /\ To(c, "idle")
  /\ UNCHANGED <<child, heard, tracked, restarts, device, socket, disturbed, ups, deaths>>

(***************************************************************************)
(* The engine.                                                             *)
(***************************************************************************)

\* writeConfig and wg setconf, which throws without a device.
Setconf(c) ==
  /\ start[c].at = "config"
  /\ IF device.on THEN device' = [device EXCEPT !.conf = TRUE] /\ To(c, "addr")
                  ELSE device' = device /\ To(c, "idle")
  /\ UNCHANGED <<child, heard, tracked, restarts, socket, disturbed, ups, deaths>>

\* ip addr add and ip link set, whose errors are ignored; then the firewall and
\* the speed limits.
Address(c) ==
  /\ start[c].at = "addr"
  /\ device' = [device EXCEPT !.addr = device.on]
  /\ To(c, "up")
  /\ UNCHANGED <<child, heard, tracked, restarts, socket, disturbed, ups, deaths>>

\* A sync of the reconciler, the cron job or a request: the configuration, but
\* neither the addresses nor the process.
SyncInterface ==
  /\ device.on /\ device' = [device EXCEPT !.conf = TRUE]
  /\ UNCHANGED <<start, child, heard, tracked, restarts, socket, disturbed, ups, deaths>>

\* The daemon is killed from outside: nobody is told, its socket stays.
Dies ==
  /\ device.on /\ deaths < MaxDeaths /\ deaths' = deaths + 1
  /\ device' = Off /\ disturbed' = TRUE
  /\ UNCHANGED <<start, child, heard, tracked, restarts, socket, ups>>

-----------------------------------------------------------------------------
Run(c) ==
  \/ Stop(c) \/ Kill(c) \/ Spawn(c) \/ Wait(c) \/ TimesOut(c) \/ Setconf(c) \/ Address(c)

Process(c) ==
  \/ Fork(c) \/ Fail(c) \/ Exit(c) \/ GiveUp(c) \/ \E d \in Calls : Respawn(c, d)

Next ==
  \/ \E c \in Calls : Run(c) \/ Process(c) \/ \E first \in {"stop", "kill"} : BringUp(c, first)
  \/ SyncInterface \/ Dies

Spec == Init /\ [][Next]_bvars

\* Awaits return, timers fire, and a child that was spawned forks or fails.
Fairness == \A c \in Calls : WF_bvars(Run(c)) /\ WF_bvars(Process(c))

-----------------------------------------------------------------------------
(* Properties.                                                             *)

TypeOK ==
  /\ start \in [Calls -> Start] /\ child \in [Calls -> Child]
  /\ heard \subseteq Calls /\ tracked \subseteq heard /\ Cardinality(tracked) <= 1
  /\ restarts \subseteq 0 .. maxRestarts /\ Cardinality(restarts) <= 1
  /\ device \in Device /\ (~device.on => device = Off)
  /\ socket \in BOOLEAN /\ disturbed \in BOOLEAN /\ ups \in Nat /\ deaths \in Nat

\* A bringUp that runs alone gets what it waits for: the socket it sees is that
\* of a living daemon, and when it returns the device has keys, peers and
\* addresses (start, bringUp).
Usable ==
  ~disturbed => \A c \in Calls :
    /\ start[c].engine /\ start[c].at \in {"config", "addr", "up"} => device.on
    /\ start[c].at \in {"addr", "up"} => device.conf
    /\ start[c].at = "up" => device.addr

\* Starts and restarts come to an end, whatever they do to one another: failures
\* of boringtun-cli do not make the server spawn for ever (the exit handler).
Settles == <>[](\A c \in Calls : Ended(c))
=============================================================================
