---------------------------- MODULE TrafficGroups ----------------------------
(* Traffic groups: the plans clients are on, one of which is the default.    *)
(* A group is deleted in several statements (its clients move to the default *)
(* group first) and made the default in one transaction; clients choose a    *)
(* group in one statement and are inserted in a later one.  Requests overlap *)
(* at every await.  The clients are those of one user: no call of the code   *)
(* sets a user's own default group.  Limits of a group are left out: nothing *)
(* applies them to a peer.                                                   *)
EXTENDS Integers, FiniteSets

CONSTANTS
  Members,     \* clients
  Groups,      \* ids of groups, in the order they are given away
  Palette,     \* colours, in the order of the palette
  Admins,      \* requests that may overlap
  MaxRequests  \* bound on the requests

None == 0

\* Assumed of the constants by the module that instantiates this one.
GroupsAssumption ==
  /\ Groups \subseteq Nat \ {None} /\ 1 \in Groups
  /\ Palette \subseteq Nat \ {None} /\ Palette # {} /\ MaxRequests \in Nat

VARIABLES
  groups,      \* traffic_groups: the rows
  default,     \* those with isDefault
  colour,      \* their colours
  given,       \* the last id given away
  plan,        \* clients_table.traffic_group_id
  members,     \* clients_table: the rows
  ask,         \* the requests
  crossed,     \* history: a new default was chosen while a group was deleted
  repeated,    \* history: colours given away that were in use
  odd,         \* history: clients that may be without a group
  requests

gvars == <<groups, default, colour, given, plan, members, ask, crossed, repeated,
           odd, requests>>

Ask  == [at : {"idle", "insertGroup", "reassign", "remove", "default", "join"},
         g : Groups \union {None}, d : Groups \union {None}, c : Palette \union {None},
         m : SUBSET Members]
Idle == [at |-> "idle", g |-> None, d |-> None, c |-> None, m |-> {}]

First(S) == CHOOSE x \in S : \A y \in S : x <= y

\* Migration 15 inserts the group Unlimited; the clients that were there, and those
\* of a migrated setup (createFromExisting), are in no group.
Init ==
  /\ groups = {1} /\ default = {1} /\ given = 1
  /\ colour = [g \in Groups |-> IF g = 1 THEN First(Palette) ELSE None]
  /\ plan = [m \in Members |-> None] /\ members \in SUBSET Members
  /\ ask = [a \in Admins |-> Idle]
  /\ crossed = FALSE /\ repeated = {} /\ odd = members /\ requests = 0

Arrives(a) == ask[a].at = "idle" /\ requests < MaxRequests /\ requests' = requests + 1
Then(a, r) == ask' = [ask EXCEPT ![a] = r]
Deleting   == \E a \in Admins : ask[a].at \in {"reassign", "remove"}
Choosing   == \E a \in Admins : ask[a].at = "default"

(***************************************************************************)
(* Groups.                                                                 *)
(***************************************************************************)

Used == {colour[g] : g \in groups}
\* Mutant: the colours in use are not looked at.
FirstColour  == First(Palette)
getNextColor == IF Palette \ Used # {} THEN First(Palette \ Used) ELSE First(Palette)

\* The groups that exist are read for a colour ...
CreateGroup(a) ==
  /\ Arrives(a)
  /\ Then(a, [Idle EXCEPT !.at = "insertGroup", !.c = getNextColor])
  /\ repeated' = IF Palette \subseteq Used THEN repeated \union {getNextColor} ELSE repeated
  /\ UNCHANGED <<groups, default, colour, given, plan, members, crossed, odd>>

\* ... and the row is written, perhaps after another that read the same.
InsertGroup(a) ==
  /\ ask[a].at = "insertGroup" /\ given + 1 \in Groups
  /\ given' = given + 1 /\ groups' = groups \union {given'}
  /\ colour' = [colour EXCEPT ![given'] = ask[a].c]
  /\ repeated' = IF \E b \in Admins \ {a} : ask[b].at = "insertGroup"
                 THEN repeated \union {ask[a].c} ELSE repeated
  /\ Then(a, Idle)
  /\ UNCHANGED <<default, plan, members, crossed, odd, requests>>

\* The name is taken, or the bound on groups is reached.
InsertFails(a) ==
  /\ ask[a].at = "insertGroup"
  /\ Then(a, Idle)
  /\ UNCHANGED <<groups, default, colour, given, plan, members, crossed, repeated, odd, requests>>

\* Mutant: the default group is not spared.
Any(g)       == g \in groups
Deletable(g) == g \in groups \ default

\* get and getDefault, before anything is written.
BeginDelete(a, g) ==
  /\ Arrives(a) /\ Deletable(g) /\ default # {}
  /\ Then(a, [Idle EXCEPT !.at = "reassign", !.g = g, !.d = First(default)])
  /\ crossed' = (crossed \/ Choosing)
  /\ UNCHANGED <<groups, default, colour, given, plan, members, repeated, odd>>

\* The clients of the group move to the default group that was read; the foreign
\* key refuses one that is gone.
Reassign(a) ==
  LET r == ask[a] IN
  /\ r.at = "reassign"
  /\ IF r.d \in groups
     THEN /\ plan' = [m \in Members |-> IF plan[m] = r.g THEN r.d ELSE plan[m]]
          /\ Then(a, [r EXCEPT !.at = "remove"])
     ELSE plan' = plan /\ Then(a, Idle)
  /\ UNCHANGED <<groups, default, colour, given, members, crossed, repeated, odd, requests>>

\* The row goes, whatever it is by now; a client that joined the group meanwhile
\* is left without one (ON DELETE SET NULL).
Remove(a) ==
  LET g == ask[a].g
      left == {m \in members : plan[m] = g}
  IN /\ ask[a].at = "remove"
     /\ groups' = groups \ {g} /\ default' = default \ {g}
     /\ plan' = [m \in Members |-> IF m \in left THEN None ELSE plan[m]]
     /\ odd' = odd \union {m \in left : \E b \in Admins : m \in ask[b].m}
     /\ Then(a, Idle)
     /\ UNCHANGED <<colour, given, members, crossed, repeated, requests>>

\* The route looks the group up ...
ChooseDefault(a, g) ==
  /\ Arrives(a) /\ g \in groups
  /\ Then(a, [Idle EXCEPT !.at = "default", !.g = g])
  /\ crossed' = (crossed \/ Deleting)
  /\ UNCHANGED <<groups, default, colour, given, plan, members, repeated, odd>>

\* ... and one transaction takes the flag from all and gives it to that group, if
\* it is still there.  Mutant: the flag is taken from none.
KeepOthers(g) == default \union ({g} \intersect groups)
OnlyThis(g)   == {g} \intersect groups

SetDefault(a) ==
  /\ ask[a].at = "default"
  /\ default' = OnlyThis(ask[a].g)
  /\ Then(a, Idle)
  /\ UNCHANGED <<groups, colour, given, plan, members, crossed, repeated, odd, requests>>

(***************************************************************************)
(* Clients.                                                                *)
(***************************************************************************)

\* The group of another client of the same user, or the default group.
\* Mutant: no fall back to the default.
OnlyInherited == {plan[m] : m \in members} \ {None}
Choices ==
  LET inherited == {plan[m] : m \in members} \ {None} IN
  IF inherited # {} THEN inherited ELSE default

\* The group of a new client: the one asked for, or one that is found.  Deletions
\* under way when it is chosen or inserted remember the client.
ChooseGroup(a, m, asked) ==
  /\ Arrives(a) /\ m \notin members /\ \A b \in Admins : m \notin ask[b].m
  /\ \E g \in IF asked # None THEN {asked} ELSE IF Choices = {} THEN {None} ELSE Choices :
       Then(a, [Idle EXCEPT !.at = "join", !.g = g, !.m = {m}])
  /\ UNCHANGED <<groups, default, colour, given, plan, members, crossed, repeated, odd>>

\* The insert, refused by the foreign key when the group is gone.
Join(a) ==
  LET r == ask[a] IN
  /\ r.at = "join" /\ r.g \in groups \union {None}
  /\ plan' = [m \in Members |-> IF m \in r.m THEN r.g ELSE plan[m]]
  /\ members' = members \union r.m
  /\ ask' = [b \in Admins |->
               IF b = a THEN Idle
               ELSE IF ask[b].at = "remove" /\ ask[b].g = r.g
                    THEN [ask[b] EXCEPT !.m = @ \union r.m] ELSE ask[b]]
  /\ UNCHANGED <<groups, default, colour, given, crossed, repeated, odd, requests>>

Refused(a) ==
  /\ ask[a].at = "join" /\ ask[a].g \notin groups \union {None}
  /\ Then(a, Idle)
  /\ UNCHANGED <<groups, default, colour, given, plan, members, crossed, repeated, odd, requests>>

\* An edited client: any group, or none, which is then what was asked for.
ChangePlan(m, g) ==
  /\ requests < MaxRequests /\ requests' = requests + 1
  /\ m \in members /\ g \in groups \union {None}
  /\ plan' = [plan EXCEPT ![m] = g]
  /\ odd' = IF g = None THEN odd \union {m} ELSE odd
  /\ ask' = [b \in Admins |-> IF ask[b].at = "remove" /\ ask[b].g = g
                              THEN [ask[b] EXCEPT !.m = @ \union {m}] ELSE ask[b]]
  /\ UNCHANGED <<groups, default, colour, given, members, crossed, repeated>>

-----------------------------------------------------------------------------
Admin(a) ==
  \/ CreateGroup(a) \/ InsertGroup(a) \/ InsertFails(a) \/ Reassign(a) \/ Remove(a)
  \/ SetDefault(a)
  \/ Join(a) \/ Refused(a)
  \/ \E g \in Groups : BeginDelete(a, g) \/ ChooseDefault(a, g)
  \/ \E m \in Members, asked \in groups \union {None} : ChooseGroup(a, m, asked)

Next == (\E a \in Admins : Admin(a)) \/ (\E m \in Members, g \in Groups \union {None} : ChangePlan(m, g))

Spec == Init /\ [][Next]_gvars

-----------------------------------------------------------------------------
(* Properties.                                                             *)

TypeOK ==
  /\ groups \subseteq Groups /\ default \subseteq groups /\ given \in Groups
  /\ colour \in [Groups -> Palette \union {None}] /\ plan \in [Members -> Groups \union {None}]
  /\ members \subseteq Members /\ ask \in [Admins -> Ask]
  /\ crossed \in BOOLEAN /\ repeated \subseteq Palette /\ odd \subseteq Members
  /\ requests \in Nat

\* There is one default group, as long as no new default is being chosen while a
\* group is being deleted: those two requests together can delete the default
\* group, and nothing brings one back (delete and setDefault of the service).
OneDefault == crossed \/ Cardinality(default) = 1

\* A client is on a plan: it loses it only when an administrator takes it away
\* or it joined a group during that group's deletion, and it starts without one
\* only when there is no default, or when it is older than the groups or comes
\* with a migrated setup (delete, client create).
OnPlan == crossed \/ \A m \in members : plan[m] = None => m \in odd

\* Groups that exist together differ in colour, until the palette is exhausted
\* or two groups are created at once (getNextColor).
OwnColours ==
  \A g, h \in groups : g # h /\ colour[g] = colour[h] => colour[g] \in repeated
=============================================================================
