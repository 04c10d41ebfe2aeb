------------------------------ MODULE Firewall ------------------------------
(***************************************************************************)
(* utils/firewall.ts: the iptables chain WG_CLIENTS is rebuilt at the end  *)
(* of every syncInterface.  rebuildRules holds a flag while it runs and    *)
(* remembers that somebody else wanted a rebuild; removeFiltering runs     *)
(* without the flag.  Each iptables command is awaited, so calls of        *)
(* overlapping syncs interleave between any two commands.  IPv4 and IPv6   *)
(* chains are handled alike and are one chain here; a client has one rule. *)
(***************************************************************************)
EXTENDS Integers, Sequences, FiniteSets

CONSTANTS
    Clients,
    Jobs,       \* syncs that may be in flight at the same time
    MaxEdits,   \* bound: changes of the database
    MaxFails    \* bound: iptables commands that fail

ASSUME ConstAssumption == MaxEdits \in Nat /\ MaxFails \in Nat /\ "DROP" \notin Clients

VARIABLES
    want,        \* enabled clients of the database
    on,          \* wg_interface.firewallEnabled
    exists,      \* chain WG_CLIENTS exists
    jump,        \* FORWARD jumps to the chain
    chain,       \* its rules, in order
    rebuildInProgress,
    rebuildQueued,
    call,        \* the syncs
    edits, fails \* counters behind the bounds

vars == <<want, on, exists, jump, chain, rebuildInProgress, rebuildQueued, call,
          edits, fails>>
Database == <<want, on>>
Mutex    == <<rebuildInProgress, rebuildQueued>>
Tables   == <<exists, jump, chain>>

Building == {"create", "link", "flush", "apply", "finally"}
Removing == {"unlink", "empty", "delete"}

\* A sync's arguments for the firewall and the command it stands at.
Call == [at   : {"idle", "iface", "clients", "enter"} \union Building \union Removing,
         flag : BOOLEAN,          \* iface.firewallEnabled as it was read
         args : SUBSET Clients,   \* enabled clients as they were read
         todo : SUBSET Clients]   \* clients whose rule is still to be added

Idle == [at |-> "idle", flag |-> FALSE, args |-> {}, todo |-> {}]

Goto(j, at) == call' = [call EXCEPT ![j].at = at]
Finish(j)   == call' = [call EXCEPT ![j] = Idle]

Init ==
    /\ want \in SUBSET Clients
    /\ on = TRUE
    /\ exists = FALSE /\ jump = FALSE /\ chain = <<>>
    /\ rebuildInProgress = FALSE /\ rebuildQueued = FALSE
    /\ call = [j \in Jobs |-> Idle]
    /\ edits = 0 /\ fails = 0

-----------------------------------------------------------------------------
(* The caller: a handler that changed the database, or the reconciler.     *)

Change(j) ==
    /\ call[j] = Idle /\ edits < MaxEdits
    /\ edits' = edits + 1
    /\ \/ want' \in SUBSET Clients \ {want} /\ UNCHANGED on
       \/ on' = ~on /\ UNCHANGED want
    /\ Goto(j, "iface")
    /\ UNCHANGED <<Tables, Mutex, fails>>

Tick(j) ==
    /\ call[j] = Idle
    /\ Goto(j, "iface")
    /\ UNCHANGED <<Database, Tables, Mutex, edits, fails>>

ReadInterface(j) ==
    /\ call[j].at = "iface"
    /\ call' = [call EXCEPT ![j].flag = on, ![j].at = "clients"]
    /\ UNCHANGED <<Database, Tables, Mutex, edits, fails>>

\* #applyFirewall
ReadClients(j) ==
    /\ call[j].at = "clients"
    /\ call' = [call EXCEPT ![j].args = want, ![j].at = "enter"]
    /\ UNCHANGED <<Database, Tables, Mutex, edits, fails>>

-----------------------------------------------------------------------------
(* rebuildRules                                                            *)

\* The test of rebuildInProgress; mutant: without it.
NeverBusy == FALSE
Busy      == rebuildInProgress

Enter(j) ==
    /\ call[j].at = "enter"
    /\ \/ ~call[j].flag /\ Goto(j, "unlink") /\ UNCHANGED Mutex
       \/ /\ call[j].flag /\ Busy
          /\ rebuildQueued' = TRUE
          /\ Finish(j)
          /\ UNCHANGED rebuildInProgress
       \/ /\ call[j].flag /\ ~Busy
          /\ rebuildInProgress' = TRUE
          /\ Goto(j, "create")
          /\ UNCHANGED rebuildQueued
    /\ UNCHANGED <<Database, Tables, edits, fails>>

\* initChain: iptables -N ... || true
Create(j) ==
    /\ call[j].at = "create"
    /\ exists' = TRUE
    /\ Goto(j, "link")
    /\ UNCHANGED <<Database, jump, chain, Mutex, edits, fails>>

\* initChain: iptables -C FORWARD ... || iptables -I FORWARD 1 ...
Link(j) ==
    /\ call[j].at = "link"
    /\ jump' = (jump \/ exists)
    /\ Goto(j, IF exists THEN "flush" ELSE "finally")
    /\ UNCHANGED <<Database, exists, chain, Mutex, edits, fails>>

\* flushChain.
FlushedRules == <<>>

Flush(j) ==
    /\ call[j].at = "flush"
    /\ chain' = FlushedRules
    /\ call' = [call EXCEPT ![j].todo = call[j].args, ![j].at = "apply"]
    /\ UNCHANGED <<Database, exists, jump, Mutex, edits, fails>>

\* applyClientRules for the next client
ApplyClient(j) ==
    /\ call[j].at = "apply" /\ exists
    /\ \E c \in call[j].todo :
          /\ chain' = Append(chain, c)
          /\ call' = [call EXCEPT ![j].todo = @ \ {c}]
    /\ UNCHANGED <<Database, exists, jump, Mutex, edits, fails>>

ApplyDrop(j) ==
    /\ call[j].at = "apply" /\ call[j].todo = {} /\ exists
    /\ chain' = Append(chain, "DROP")
    /\ Goto(j, "finally")
    /\ UNCHANGED <<Database, exists, jump, Mutex, edits, fails>>

\* A command without "|| true" throws: the chain is gone, or iptables failed.
Throw(j) ==
    /\ \/ call[j].at = "apply" /\ ~exists /\ UNCHANGED fails
       \/ call[j].at \in {"link", "apply"} /\ fails < MaxFails /\ fails' = fails + 1
    /\ Goto(j, "finally")
    /\ UNCHANGED <<Database, Tables, Mutex, edits>>

\* The flag after a rebuild; mutant: it is given back only after a success.
KeptAfterThrow == "DROP" \notin {chain[i] : i \in 1..Len(chain)}
Released       == FALSE

\* finally: a queued rebuild runs at once, with the arguments of this call.
Finally(j) ==
    /\ call[j].at = "finally"
    /\ \/ /\ rebuildQueued
          /\ rebuildQueued' = FALSE
          /\ Goto(j, "create")
          /\ UNCHANGED rebuildInProgress
       \/ /\ ~rebuildQueued
          /\ rebuildInProgress' = Released
          /\ Finish(j)
          /\ UNCHANGED rebuildQueued
    /\ UNCHANGED <<Database, Tables, edits, fails>>

-----------------------------------------------------------------------------
(* removeFiltering: every command ends in "|| true".                       *)

Unlink(j) ==
    /\ call[j].at = "unlink"
    /\ jump' = FALSE
    /\ Goto(j, "empty")
    /\ UNCHANGED <<Database, exists, chain, Mutex, edits, fails>>

Empty(j) ==
    /\ call[j].at = "empty"
    /\ chain' = <<>>
    /\ Goto(j, "delete")
    /\ UNCHANGED <<Database, exists, jump, Mutex, edits, fails>>

\* iptables -X refuses a chain that has rules or is referenced.
Delete(j) ==
    /\ call[j].at = "delete"
    /\ exists' = (exists /\ (jump \/ chain # <<>>))
    /\ Finish(j)
    /\ UNCHANGED <<Database, jump, chain, Mutex, edits, fails>>

-----------------------------------------------------------------------------

Rebuild(j) ==
    \/ Enter(j) \/ Create(j) \/ Link(j) \/ Flush(j) \/ ApplyClient(j) \/ ApplyDrop(j)
    \/ Throw(j) \/ Finally(j)

RemoveFiltering(j) == Unlink(j) \/ Empty(j) \/ Delete(j)

Continue(j) ==
    ReadInterface(j) \/ ReadClients(j) \/ Rebuild(j) \/ RemoveFiltering(j)

Next == \E j \in Jobs : Change(j) \/ Tick(j) \/ Continue(j)

\* Awaited commands finish and the reconciler keeps ticking.  The bound on Jobs
\* is the model's, so the tick gets strong fairness.
Fairness ==
    /\ \A j \in Jobs : WF_vars(Continue(j))
    /\ SF_vars(\E j \in Jobs : Tick(j))

Spec     == Init /\ [][Next]_vars
FairSpec == Spec /\ Fairness

-----------------------------------------------------------------------------
(* Properties *)

Rules == {chain[i] : i \in 1..Len(chain)}
Quiet == \A j \in Jobs : call[j] = Idle

TypeOK ==
    /\ want \in SUBSET Clients /\ on \in BOOLEAN
    /\ exists \in BOOLEAN /\ jump \in BOOLEAN
    /\ chain \in Seq(Clients \union {"DROP"}) /\ Len(chain) <= Cardinality(Clients) + 1
    /\ rebuildInProgress \in BOOLEAN /\ rebuildQueued \in BOOLEAN
    /\ call \in [Jobs -> Call]
    /\ edits \in 0..MaxEdits /\ fails \in 0..MaxFails

\* The flag is a lock: at most one call is between the test of
\* rebuildInProgress and its release, the flag is set exactly then, and a
\* queued rebuild has a holder that will run it, also after a command threw.
MutexHeld ==
    /\ \A j, k \in Jobs : call[j].at \in Building /\ call[k].at \in Building => j = k
    /\ rebuildInProgress <=> \E j \in Jobs : call[j].at \in Building
    /\ rebuildQueued => rebuildInProgress

\* No rule is behind the final DROP and no client has two rules, whatever
\* rebuilds and removals interleave.
DropLast ==
    \A i, k \in 1..Len(chain) : i < k => chain[i] # "DROP" /\ chain[i] # chain[k]

\* The chain filters by exactly the clients of the database.
Reflects == jump /\ Rules = want \union {"DROP"}
Absent   == ~jump /\ ~exists

\* Whatever failed, and although a queued rebuild or a removal outside the lock
\* may leave the chain stale, once syncs stop overlapping the chain is again
\* the database's after every sync.
Calm == \A j, k \in Jobs : j # k => Idle \in {call[j], call[k]}
Converges == <>[]Calm => <>[](Quiet => IF on THEN Reflects ELSE Absent)
=============================================================================
