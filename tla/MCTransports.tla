---------------------------- MODULE MCTransports ----------------------------
(* The two machines below the engines that must make progress: the connection  *)
(* to a router and the boringtun daemon.  They share no state, so an execution *)
(* picks one of them in `part', and the other stays as it is.                  *)
EXTENDS Integers

CONSTANTS
  Callers, Transports, MaxTag, MaxBroken,    \* RouterOsApi
  Calls, maxRestarts, MaxUps, MaxDeaths      \* Boringtun

VARIABLES
  part,
  pool, tr, caller, asked, answers, made, broken,
  start, child, heard, tracked, restarts, device, socket, disturbed, ups, deaths

Api == INSTANCE RouterOsApi WITH call <- caller, fails <- broken, MaxFails <- MaxBroken
Tun == INSTANCE Boringtun

api == <<pool, tr, caller, asked, answers, made, broken>>
tun == <<start, child, heard, tracked, restarts, device, socket, disturbed, ups, deaths>>

ASSUME TransportsAssumption == Api!ApiAssumption /\ Tun!BoringtunAssumption

AllInit == part \in {"api", "tun"} /\ Api!Init /\ Tun!Init

OnlyApi == part = "api" /\ UNCHANGED <<part, tun>>
OnlyTun == part = "tun" /\ UNCHANGED <<part, api>>

AllNext ==
  \/ OnlyApi /\ Api!Next
  \/ OnlyTun /\ Tun!Next

AllFairness ==
  /\ \A c \in Callers : WF_<<part, api, tun>>(OnlyApi /\ Api!Go(c))
  /\ \A t \in Transports : WF_<<part, api, tun>>(OnlyApi /\ Api!Net(t))
  /\ \A c \in Calls : /\ WF_<<part, api, tun>>(OnlyTun /\ Tun!Run(c))
                      /\ WF_<<part, api, tun>>(OnlyTun /\ Tun!Process(c))

AllSpec == AllInit /\ [][AllNext]_<<part, api, tun>> /\ AllFairness

-----------------------------------------------------------------------------
(* Properties: those of the modules.                                       *)

\* The type invariants of the two modules.
EveryTypeOK == Api!TypeOK /\ Tun!TypeOK

\* RouterOsApi: a caller gets the whole answer to its own command.
OwnAnswer == Api!OwnAnswer

\* RouterOsApi: a command is answered while its connection lives.
Answered == Api!Answered

\* Boringtun: an undisturbed bringUp leaves a configured device.
Usable == Tun!Usable

\* Boringtun: starts and respawns come to an end.
Settles == Tun!Settles
=============================================================================
