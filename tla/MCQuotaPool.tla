----------------------------- MODULE MCQuotaPool -----------------------------
(* One family, asked two questions.  `part' says which one an execution is of: *)
(* what is counted, with every event of the module and a client that carries   *)
(* twice as much, or what is enforced, with two clients and the events after   *)
(* which a family can stay over its limit.                                     *)
EXTENDS QuotaPool

VARIABLE part

Count == INSTANCE QuotaPool WITH
  Events <- {"enable", "period", "crash", "set", "delete", "rollup"},
  MaxEvents <- 1, MaxTraffic <- 2, MaxPeriods <- 1

AllInit == \/ part = "enforce" /\ Init
           \/ part = "count" /\ Count!Init /\ rows = {CHOOSE c \in Clients : TRUE}

Enforcing == part = "enforce" /\ UNCHANGED part

AllNext == \/ Enforcing /\ Next
           \/ part = "count" /\ UNCHANGED part /\ Count!Next

\* The fairness of the module, for the question that needs it.
AllFairness ==
  /\ \A p \in Polls : WF_<<vars, part>>(Enforcing /\ Tick(p))
  /\ WF_<<vars, part>>(Enforcing /\ Reconcile)
  /\ WF_<<vars, part>>(Enforcing /\ FindExpired)
  /\ WF_<<vars, part>>(Enforcing /\ ResetPeriod)
  /\ \A c \in Clients : WF_<<vars, part>>(Enforcing /\ CheckQuota(c))

AllSpec == AllInit /\ [][AllNext]_<<vars, part>> /\ AllFairness

-----------------------------------------------------------------------------
\* QuotaPool: a marked family has no enabled client but those the code can miss.
MarkedFamilyOff == part = "enforce" => MarkedIsOff

\* QuotaPool: a family that stays over its limit is taken off for good.
OverrunEnds == part = "enforce" => Enforced
=============================================================================
