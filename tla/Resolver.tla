------------------------------ MODULE Resolver -------------------------------
(* dnsmasq, which resolves names for the clients when the administrator turns *)
(* it on: the manager keeps one child process, starts, reloads and stops it,  *)
(* and forgets it when it exits.  Every sync of the interface and every start *)
(* of the engine calls the manager; they overlap at its awaits.  A process    *)
(* that was told to end goes on for a while, and its exit event comes later   *)
(* still; a second process finds the port taken and exits.                    *)
EXTENDS Integers, FiniteSets

CONSTANTS
  Callers,     \* syncs and restarts that may overlap
  Procs,       \* processes
  Upstreams,   \* upstream servers an administrator may choose
  MaxCalls,    \* bound on the calls
  MaxExits     \* bound on processes that end on their own

\* Assumed of the constants by the module that instantiates this one.
ResolverAssumption == MaxCalls \in Nat /\ MaxExits \in Nat

VARIABLES
  wanted,      \* user_configs: {} or the upstream of the resolver that is on
  proc,        \* #proc: a set with one process, or none
  alive,       \* processes that run
  ending,      \* those told to end
  exited,      \* those whose exit event is still to come
  file,        \* the upstream in the configuration file, as wanted
  loaded,      \* what the file held when each process was started or last signalled
  user,        \* the callers
  lost,        \* history: a process was forgotten that goes on
  crowded,     \* history: since the last call that found all quiet, calls overlapped,
               \* or one spawned while the last process was not gone
  called, exits

rvars == <<wanted, proc, alive, ending, exited, file, loaded, user, lost, crowded,
           called, exits>>

Config == {{}} \union {{u} : u \in Upstreams}
User   == [at : {"idle", "restart", "write", "rewrite", "spawn", "hup"}, cfg : Config]
Idle   == [at |-> "idle", cfg |-> {}]

Init ==
  /\ wanted = {} /\ proc = {} /\ alive = {} /\ ending = {} /\ exited = {}
  /\ file = {} /\ loaded = [p \in Procs |-> {}] /\ user = [c \in Callers |-> Idle]
  /\ lost = FALSE /\ crowded = FALSE /\ called = 0 /\ exits = 0

Quiet == /\ \A c \in Callers : user[c] = Idle
         /\ ending = {} /\ exited = {}
Then(c, r) == user' = [user EXCEPT ![c] = r]

\* stop: the process of #proc is told to end, and forgotten at once.
\* Mutant: it is only forgotten.
Forgets == ending
Told    == ending \union (proc \intersect alive)
stop    == ending' = Told /\ proc' = {}

\* A sync, perhaps after an edit of the configuration: reload when the resolver is
\* on, stop when it is off.  reload starts it when there is no process.
\* Mutant: a resolver that is turned off goes on.
GoesOn(cfg) == UNCHANGED <<proc, ending>>
Off(cfg)    == IF cfg = {} THEN stop ELSE UNCHANGED <<proc, ending>>

Call(c) ==
  /\ user[c] = Idle /\ called < MaxCalls /\ called' = called + 1
  /\ crowded' = ~Quiet

SyncInterface(c, cfg) ==
  /\ Call(c) /\ wanted' = cfg /\ Off(cfg)
  /\ Then(c, IF cfg = {} THEN Idle
             ELSE [at |-> IF proc = {} THEN "write" ELSE "rewrite", cfg |-> cfg])
  /\ UNCHANGED <<alive, exited, file, loaded, lost, exits>>

\* bringDown, and then bringUp with the configuration of then; start stops again.
Restart(c) ==
  /\ Call(c) /\ stop
  /\ Then(c, [at |-> "restart", cfg |-> {}])
  /\ UNCHANGED <<wanted, alive, exited, file, loaded, lost, exits>>

BringUp(c) ==
  /\ user[c].at = "restart"
  /\ IF wanted = {} THEN Then(c, Idle) /\ UNCHANGED <<proc, ending>>
     ELSE stop /\ Then(c, [at |-> "write", cfg |-> wanted])
  /\ UNCHANGED <<wanted, alive, exited, file, loaded, lost, crowded, called, exits>>

\* start and reload write the file.  Mutant: reload does not.
OldFile(c)  == IF user[c].at = "write" THEN user[c].cfg ELSE file
NewFile(c)  == user[c].cfg

WriteConf(c) ==
  /\ user[c].at \in {"write", "rewrite"}
  /\ file' = NewFile(c)
  /\ Then(c, [user[c] EXCEPT !.at = IF @ = "write" THEN "spawn" ELSE "hup"])
  /\ UNCHANGED <<wanted, proc, alive, ending, exited, loaded, lost, crowded, called, exits>>

\* The process that is spawned becomes #proc, whatever #proc was.
Spawn(c) ==
  /\ user[c].at = "spawn"
  /\ \E p \in Procs \ (alive \union exited \union proc) :
       /\ proc' = {p}
       /\ IF alive = {} THEN alive' = {p} /\ exited' = exited
                        ELSE alive' = alive /\ exited' = exited \union {p}
       /\ loaded' = [loaded EXCEPT ![p] = file]
  /\ lost' = (lost \/ (proc \intersect alive) # {})
  /\ Then(c, Idle)
  /\ crowded' = (crowded \/ ending # {} \/ exited # {})
  /\ UNCHANGED <<wanted, ending, file, called, exits>>

\* SIGHUP to the process of #proc, which may be gone by now: the sync throws.  What
\* dnsmasq does with the signal is its own affair.
Hup(c) ==
  /\ user[c].at = "hup"
  /\ loaded' = [p \in Procs |-> IF p \in proc \intersect alive THEN file ELSE loaded[p]]
  /\ Then(c, Idle)
  /\ UNCHANGED <<wanted, proc, alive, ending, exited, file, lost, crowded, called, exits>>

\* A process ends, as it was told to or on its own ...
Ends(p) ==
  /\ p \in alive
  /\ \/ p \in ending /\ UNCHANGED <<exits, crowded>>
     \/ p \notin ending /\ exits < MaxExits /\ exits' = exits + 1 /\ crowded' = TRUE
  /\ alive' = alive \ {p} /\ ending' = ending \ {p} /\ exited' = exited \union {p}
  /\ UNCHANGED <<wanted, proc, file, loaded, user, lost, called>>

\* ... and its exit event clears #proc, whichever process that is.
Exit(p) ==
  /\ p \in exited /\ exited' = exited \ {p}
  /\ proc' = {}
  /\ lost' = (lost \/ (proc \intersect alive) \ {p} # {})
  /\ UNCHANGED <<wanted, alive, ending, file, loaded, user, crowded, called, exits>>

-----------------------------------------------------------------------------
Go(c) == BringUp(c) \/ WriteConf(c) \/ Spawn(c) \/ Hup(c)

Next ==
  \/ \E c \in Callers : Go(c) \/ Restart(c) \/ \E cfg \in Config : SyncInterface(c, cfg)
  \/ \E p \in Procs : Ends(p) \/ Exit(p)

Spec == Init /\ [][Next]_rvars

-----------------------------------------------------------------------------
(* Properties.                                                             *)

TypeOK ==
  /\ wanted \in Config /\ file \in Config /\ loaded \in [Procs -> Config]
  /\ proc \subseteq Procs /\ Cardinality(proc) <= 1 /\ alive \subseteq Procs
  /\ ending \subseteq alive /\ exited \subseteq Procs \ alive
  /\ user \in [Callers -> User] /\ lost \in BOOLEAN /\ crowded \in BOOLEAN
  /\ called \in Nat /\ exits \in Nat

\* A process that runs is the one the server would stop or reload, or is ending:
\* there is no orphan, unless an exit event or a second start made the manager
\* forget a living process (start, stop, reload).
NoOrphan == lost \/ alive \ ending \subseteq proc

\* After calls that did not overlap, each of which found no process still ending
\* when it started and none when it spawned, the resolver that runs was started or
\* signalled with the configuration that was asked for; none runs when it is off
\* (start, reload, stop).
Serves ==
  ~crowded /\ ~lost /\ Quiet =>
    IF wanted = {} THEN alive = {}
    ELSE \E p \in alive : proc = {p} /\ loaded[p] = wanted
=============================================================================
