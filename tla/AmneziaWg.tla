------------------------------ MODULE AmneziaWg ------------------------------
(* The AmneziaWG engine: starts of the interface, which draw random headers   *)
(* when the row has none and write them back with the whole row, syncs of the *)
(* row to a file and from there to the device, edits of the whole row, and    *)
(* the search for the awg tool, which decides once for all commands whether   *)
(* they run in a container.  Each chain of calls goes on at its awaits.  A    *)
(* client must be configured with the headers of the device, or none of its   *)
(* packets gets through.                                                      *)
EXTENDS Integers

CONSTANTS
  Chains,      \* chains of calls that may be under way
  Headers,     \* sets of headers the engine can draw, or one can enter
  Ports,       \* values of a setting an administrator edits
  MaxChains,   \* bound on the chains that start
  MaxErrors    \* bound on commands that fail

None  == 0
Drawn == -1   \* in edited: whatever headers the start drew

\* Assumed of the constants by the module that instantiates this one.
AmneziaAssumption ==
  /\ Headers \subseteq Nat \ {None} /\ Headers # {} /\ None \notin Ports
  /\ MaxChains \in Nat /\ MaxErrors \in Nat

VARIABLES
  row,        \* interfaces_table: the headers (None: '0' or null), the setting
  conf,       \* the configuration file
  dev,        \* the device
  chain,      \* the chains
  checked,    \* #dockerChecked
  dockerMode, \* #dockerMode
  tool,       \* where the awg tool is
  handed,     \* history: headers in the configurations clients were given
  calm,       \* history: since the last start, one chain after the other, none failed
  replaced,   \* history: headers that edits replaced and none put back
  raced,      \* history: a start that found no headers had not saved its own when
              \* another began, or headers were entered
  edited,     \* history: what a start found or an edit entered last
  began, errors

tools   == <<checked, dockerMode, tool>>
history == <<handed, calm, replaced, raced, edited>>
avars   == <<row, conf, dev, chain, tools, history, began, errors>>

Settings == [h : Headers \union {None}, port : Ports]
NoDevice == [h |-> None, port |-> None]
Ats      == {"idle", "save", "write", "down", "which", "up", "load", "seek", "sync"}
Chain    == [at : Ats, up : BOOLEAN, iface : Settings \union {NoDevice}]
Idle     == [at |-> "idle", up |-> FALSE, iface |-> NoDevice]

Expected(r) == [r EXCEPT !.h = IF @ = None THEN Drawn ELSE @]

Init ==
  /\ row \in [h : {None}, port : Ports] /\ conf = NoDevice /\ dev = NoDevice
  /\ chain = [c \in Chains |-> Idle] /\ checked = FALSE /\ dockerMode = FALSE
  /\ tool \in {"host", "container"} /\ handed = {} /\ calm = FALSE
  /\ replaced = {} /\ raced = FALSE /\ edited = Expected(row) /\ began = 0 /\ errors = 0

Quiet     == \A c \in Chains : chain[c] = Idle
Then(c, r) == chain' = [chain EXCEPT ![c] = r]
To(c, at)  == chain' = [chain EXCEPT ![c].at = at]

Begin(c, r) ==
  /\ chain[c] = Idle /\ began < MaxChains /\ began' = began + 1
  /\ Then(c, r)

\* A start has found no headers and not yet saved those it draws.
Unsaved == \E d \in Chains : chain[d].at = "save" /\ chain[d].iface.h = None

(***************************************************************************)
(* Starts.                                                                 *)
(***************************************************************************)

\* The caller reads the row.
BringUp(c) ==
  /\ Begin(c, [at |-> "save", up |-> TRUE, iface |-> row])
  /\ calm' = Quiet /\ edited' = Expected(row) /\ raced' = (raced \/ Unsaved)
  /\ UNCHANGED <<row, conf, dev, tools, handed, replaced, errors>>

\* Mutant: headers are drawn at every start.
Always(h)  == TRUE
Missing(h) == h = None

\* Headers are drawn when the row that was read has none, and the row is written
\* as it was read: an edit in between is lost.
SaveHeaders(c) ==
  LET old == chain[c].iface IN
  /\ chain[c].at = "save"
  /\ \/ /\ Missing(old.h)
        /\ \E h \in Headers \ {old.h} :
             /\ row' = [old EXCEPT !.h = h]
             /\ Then(c, [chain[c] EXCEPT !.at = "write", !.iface.h = h])
     \/ ~Missing(old.h) /\ row' = row /\ To(c, "write")
  /\ UNCHANGED <<conf, dev, tools, history, began, errors>>

\* Starts and syncs write the file from the row in their hands.
WriteConfig(c) ==
  /\ chain[c].at = "write"
  /\ conf' = chain[c].iface
  /\ To(c, IF chain[c].up THEN "down" ELSE "load")
  /\ UNCHANGED <<row, dev, tools, history, began, errors>>

(***************************************************************************)
(* #exec: a command runs where dockerMode says.                            *)
(***************************************************************************)

Works == dockerMode = (tool = "container")

\* The first awg command looks for the tool before it runs; the others run at
\* once, also while the first one is still looking.
Seek(c, look, run) == checked' = TRUE /\ To(c, IF checked THEN run ELSE look)

\* awg-quick down, whose error is ignored.
Down(c) ==
  /\ chain[c].at = "down" /\ Seek(c, "which", "up")
  /\ dev' = IF checked /\ Works THEN NoDevice ELSE dev
  /\ UNCHANGED <<row, conf, dockerMode, tool, history, began, errors>>

Load(c) ==
  /\ chain[c].at = "load" /\ Seek(c, "seek", "sync")
  /\ UNCHANGED <<row, conf, dev, dockerMode, tool, history, began, errors>>

\* Mutant: the answer is not kept.
NotKept == dockerMode
Found   == tool = "container"

Which(c) ==
  /\ chain[c].at \in {"which", "seek"}
  /\ dockerMode' = Found
  /\ dev' = IF chain[c].up THEN NoDevice ELSE dev
  /\ To(c, IF chain[c].up THEN "up" ELSE "sync")
  /\ UNCHANGED <<row, conf, checked, tool, history, began, errors>>

\* awg-quick up loads the file as it is now, and so does the syncconf behind it.
Up(c) ==
  /\ chain[c].at = "up" /\ Works
  /\ dev' = conf /\ Then(c, Idle)
  /\ UNCHANGED <<row, conf, tools, history, began, errors>>

\* awg syncconf needs the device, and may leave it headers the file does not name.
Sync(c) ==
  /\ chain[c].at = "sync" /\ Works /\ dev # NoDevice
  /\ \/ dev' = conf
     \/ conf.h = None /\ dev' = [conf EXCEPT !.h = dev.h]
  /\ Then(c, Idle)
  /\ UNCHANGED <<row, conf, tools, history, began, errors>>

\* The tool is not where the command looks for it, or there is no device.
NoTool(c) ==
  /\ \/ chain[c].at \in {"up", "sync"} /\ ~Works
     \/ chain[c].at = "sync" /\ dev = NoDevice
  /\ Then(c, Idle)
  /\ UNCHANGED <<row, conf, dev, tools, history, began, errors>>

\* The command fails.  A start without kernel support goes on to syncconf when
\* there is a userspace fallback, and throws there.
Throws(c) ==
  /\ chain[c].at \in {"up", "sync"} /\ errors < MaxErrors /\ errors' = errors + 1
  /\ Then(c, Idle) /\ calm' = FALSE
  /\ UNCHANGED <<row, conf, dev, tools, handed, replaced, raced, edited, began>>

(***************************************************************************)
(* Syncs.                                                                  *)
(***************************************************************************)

\* The reconciler, the cron job, the queue or the request of a client.
SyncInterface(c) ==
  /\ Begin(c, [at |-> "write", up |-> FALSE, iface |-> row])
  /\ calm' = (calm /\ Quiet)
  /\ UNCHANGED <<row, conf, dev, tools, handed, replaced, raced, edited, errors>>

\* The form posts the whole row, with what was entered, left empty, or loaded
\* when the page was; the request writes it and syncs it.
\* Mutant: the sync takes the row of before.
Before(e) == row
Edited(e) == e

Edit(c, e) ==
  /\ Begin(c, [at |-> "write", up |-> FALSE, iface |-> Edited(e)])
  /\ row' = e /\ edited' = e /\ replaced' = (replaced \union {row.h}) \ {e.h}
  /\ raced' = (raced \/ (Unsaved /\ e.h # None))
  /\ calm' = (calm /\ Quiet)
  /\ UNCHANGED <<conf, dev, tools, handed, errors>>

\* A client is given its configuration while the interface is up.
HandOut ==
  /\ dev # NoDevice /\ row.h \notin handed /\ handed' = handed \union {row.h}
  /\ UNCHANGED <<row, conf, dev, chain, tools, calm, replaced, raced, edited, began, errors>>

-----------------------------------------------------------------------------
Step(c) ==
  \/ SaveHeaders(c) \/ WriteConfig(c) \/ Down(c) \/ Load(c) \/ Which(c)
  \/ Up(c) \/ Sync(c) \/ NoTool(c) \/ Throws(c)

Next ==
  \/ \E c \in Chains : BringUp(c) \/ SyncInterface(c) \/ Step(c) \/ \E e \in Settings : Edit(c, e)
  \/ HandOut

Spec == Init /\ [][Next]_avars

-----------------------------------------------------------------------------
(* Properties.                                                             *)

TypeOK ==
  /\ row \in Settings /\ conf \in Settings \union {NoDevice}
  /\ dev \in Settings \union {NoDevice} /\ chain \in [Chains -> Chain]
  /\ checked \in BOOLEAN /\ dockerMode \in BOOLEAN /\ tool \in {"host", "container"}
  /\ handed \subseteq Headers \union {None} /\ replaced \subseteq Headers \union {None}
  /\ calm \in BOOLEAN /\ raced \in BOOLEAN
  /\ edited \in [h : Headers \union {None, Drawn}, port : Ports] /\ began \in Nat /\ errors \in Nat

\* A row as it was found or entered; a device that runs with a row.
Meets(r, e) == r.port = e.port /\ IF e.h = Drawn THEN r.h # None ELSE r.h = e.h
Runs(d, r)  == d # NoDevice /\ d.port = r.port /\ (r.h # None => d.h = r.h)

\* After a start that nothing overlapped and that did not fail, and any syncs and
\* edits one after the other, the device runs with the row, and the row has what
\* the start found or drew, or what the administrator entered since, wherever the
\* tool is (bringUp, #exec).  Headers that an edit cleared are none until the next
\* start, and the device may have kept them or not.
Agrees == calm /\ Quiet => Meets(row, edited) /\ Runs(dev, row)

\* Headers clients were given stay those of the interface, across restarts, syncs
\* and errors, until an edit replaces them, unless one of two starts that found none,
\* or a start and an edit, overwrote the other's.  A configuration without headers,
\* given after an edit has cleared them, holds until the next start (bringUp).
HeadersStay == raced \/ handed \ {None} \subseteq replaced \union {row.h}
=============================================================================
