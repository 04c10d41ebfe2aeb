------------------------------- MODULE Wizard -------------------------------
(***************************************************************************)
(* The bootstrap wizard of a MikroTik router: a dialog of four pages in    *)
(* the browser (BootstrapWizard.vue), the request that starts the run on   *)
(* the server (bootstrap.post.ts), the twelve steps of the run             *)
(* (engines/mikrotik/bootstrap.ts) and the stream of events that tells the *)
(* dialog how far the run is.  The request may be refused, the connection  *)
(* may break while the run goes on unseen, and the administrator may start *)
(* again.                                                                  *)
(***************************************************************************)
EXTENDS Integers, Sequences, FiniteSets

CONSTANTS Runs      \* the requests of the dialog, in any order

Pages   == 0 .. 3               \* connectivity, identity, interface, review
\* The steps of a run: 0 opens the transport ("bootstrap" in the log), 1 .. 9 are
\* connect .. fingerprint, 10 is persist.
TestApi  == 11
Activate == 12
Done     == 13                  \* the closing event

Entry == [step : 0 .. Done, status : {"pending", "ok", "error"}]
VARIABLES page,      \* currentStep
          running,   \* isRunning: the buttons of the last page are disabled
          isDone,    \* the green banner
          isFailed,  \* the red banner
          log,       \* what the log of the dialog shows
          mine,      \* the request whose answer the dialog reads; {} or one run
          at,        \* at[r]: the step of run r on the server
          doing,     \* doing[r]: "new", "going", "ended" or "refused"
          wire,      \* wire[r]: the events sent and not yet read
          cut,       \* cut[r]: the connection of r broke
          did        \* did[r]: the steps run r has completed

wvars == <<page, running, isDone, isFailed, log, mine, at, doing, wire, cut, did>>
dialog == <<page, running, isDone, isFailed, log, mine>>

TypeOK ==
  /\ page \in Pages
  /\ {running, isDone, isFailed} \subseteq BOOLEAN
  /\ log \in Seq(Entry)
  /\ mine \subseteq Runs /\ Cardinality(mine) <= 1
  /\ at \in [Runs -> 0 .. Done]
  /\ doing \in [Runs -> {"new", "going", "ended", "refused"}]
  /\ wire \in [Runs -> Seq(Entry)]
  /\ cut \in [Runs -> BOOLEAN]
  /\ did \in [Runs -> SUBSET (0 .. Activate)]

Init ==
  /\ page = 0
  /\ running = FALSE /\ isDone = FALSE /\ isFailed = FALSE
  /\ log = <<>>
  /\ mine = {}
  /\ at = [r \in Runs |-> 0]
  /\ doing = [r \in Runs |-> "new"]
  /\ wire = [r \in Runs |-> <<>>]
  /\ cut = [r \in Runs |-> FALSE]
  /\ did = [r \in Runs |-> {}]

-----------------------------------------------------------------------------
(* The dialog. *)

\* nextStep and prevStep; the way back from the review waits for the run.
Anywhere(p) == TRUE
Reaches(p)  == p \in Pages
Turn(p) ==
  /\ Reaches(p)
  /\ p < page => ~running
  /\ page' = p
  /\ UNCHANGED <<running, isDone, isFailed, log, mine, at, doing, wire, cut, did>>

\* startBootstrap: the banners and the log of the last run are cleared.
Start(r) ==
  /\ page = 3 /\ ~running
  /\ doing[r] = "new"
  /\ running' = TRUE /\ isDone' = FALSE /\ isFailed' = FALSE
  /\ log' = <<>>
  /\ mine' = {r}
  /\ doing' = [doing EXCEPT ![r] = "going"]
  /\ UNCHANGED <<page, at, wire, cut, did>>

\* A request the route refuses (permission, router, engine type, body): the
\* answer is no stream and its status is not looked at.
Refused(r) ==
  /\ page = 3 /\ ~running
  /\ doing[r] = "new"
  /\ running' = TRUE /\ isDone' = FALSE /\ isFailed' = FALSE
  /\ log' = <<>>
  /\ mine' = {r}
  /\ doing' = [doing EXCEPT ![r] = "refused"]
  /\ UNCHANGED <<page, at, wire, cut, did>>

\* Mutant: any good news is taken for the end.
AnyGood(e) == e.status = "ok"

SaysFailed(e) == e.status = "error"
SaysDone(e)   == e.step = Done /\ e.status = "ok"

\* The reader takes the next event of the stream.
Read(r) ==
  /\ r \in mine /\ running /\ ~cut[r]
  /\ wire[r] # <<>>
  /\ LET e == Head(wire[r]) IN
       /\ log' = Append(log, e)
       /\ isFailed' = (isFailed \/ SaysFailed(e))
       /\ isDone' = (isDone \/ SaysDone(e))
  /\ wire' = [wire EXCEPT ![r] = Tail(@)]
  /\ UNCHANGED <<page, running, mine, at, doing, cut, did>>

\* The stream ends: done of reader.read, then finally.
EndOfStream(r) ==
  /\ r \in mine /\ running /\ ~cut[r]
  /\ doing[r] \in {"ended", "refused"} /\ wire[r] = <<>>
  /\ running' = FALSE
  /\ UNCHANGED <<page, isDone, isFailed, log, mine, at, doing, wire, cut, did>>

\* The connection breaks: catch, then finally.  The run itself goes on.
Break(r) ==
  /\ r \in mine /\ running /\ ~cut[r]
  /\ cut' = [cut EXCEPT ![r] = TRUE]
  /\ wire' = [wire EXCEPT ![r] = <<>>]
  /\ log' = Append(log, [step |-> 0, status |-> "error"])
  /\ isFailed' = TRUE
  /\ running' = FALSE
  /\ UNCHANGED <<page, isDone, mine, at, doing, did>>

-----------------------------------------------------------------------------
(* The run on the server. *)

\* What a run sends is lost once its connection is broken.
Sent(r, es) ==
  wire' = [wire EXCEPT ![r] = IF cut[r] THEN @ ELSE @ \o es]

\* A failed step ends the run, except the last one: the closing event is sent
\* whether or not the interface could be bound.
GoesOn(s, ok) == ok \/ s = Activate

\* Opening the transport (step 0) is silent unless it throws; every other step
\* announces itself, and then says how it went.
Verdict(s, ok) ==
  IF s = 0 /\ ok THEN <<>>
  ELSE << [step |-> s, status |-> IF ok THEN "ok" ELSE "error"] >>

Announced(s) ==
  << [step |-> s, status |-> IF s = Done THEN "ok" ELSE "pending"] >>

Step(r, ok) ==
  /\ doing[r] = "going"
  /\ LET s == at[r] IN
       /\ did' = [did EXCEPT ![r] = IF ok THEN @ \cup {s} ELSE @]
       /\ IF GoesOn(s, ok)
          THEN /\ at' = [at EXCEPT ![r] = s + 1]
               /\ doing' = [doing EXCEPT ![r] = IF s + 1 = Done THEN "ended" ELSE @]
               /\ Sent(r, Verdict(s, ok) \o Announced(s + 1))
          ELSE /\ doing' = [doing EXCEPT ![r] = "ended"]
               /\ Sent(r, Verdict(s, ok))
               /\ UNCHANGED at
  /\ UNCHANGED <<dialog, cut>>

-----------------------------------------------------------------------------
Next ==
  \/ \E p \in {page - 1, page + 1} : Turn(p)
  \/ \E r \in Runs :
       \/ Start(r) \/ Refused(r)
       \/ Read(r) \/ EndOfStream(r) \/ Break(r)
       \/ \E ok \in BOOLEAN : Step(r, ok)

Spec == Init /\ [][Next]_wvars

-----------------------------------------------------------------------------
(* Properties. *)

Banner(done, failed) == isDone = done /\ isFailed = failed

\* What the banners say is what this request did, whatever earlier runs of
\* the dialog still do on the server: the green banner alone means that every
\* step is done, the green one beside the red one that only the binding of
\* the interface failed or the answer broke off after its end, and the red one
\* alone that a step failed or the connection was lost.
Truthful ==
  \A r \in mine :
    /\ Banner(TRUE, FALSE) => did[r] = 0 .. Activate
    /\ Banner(TRUE, TRUE) => 0 .. TestApi \subseteq did[r]
    /\ Banner(FALSE, TRUE) => did[r] # 0 .. Activate \/ cut[r]
    /\ Banner(FALSE, FALSE) /\ ~running => doing[r] = "refused"
=============================================================================
