---------------------------- MODULE RouterDialog ----------------------------
(* Adding a router in the browser.  The dialog asks for the host, the way to  *)
(* reach it and an account, fetches the fingerprint of the host's certificate *)
(* to pin it, writes a RouterOS script with the same settings, and creates    *)
(* the row.  The administrator imports the script on the router, perhaps more *)
(* than once and with other settings; the page of the router writes another   *)
(* script, from the row.  RouterOS stops an import at the first command that  *)
(* fails, such as adding what exists.                                         *)
EXTENDS Integers

CONSTANTS
  Hosts,       \* hosts; the fingerprint of a host is the host
  Users,       \* names an account may have besides wg-easy
  Passwords,   \* passwords
  OtherPorts,  \* ports an administrator may enter
  MaxEdits,    \* bound on what is entered
  MaxImports   \* bound on imports

None    == 0
Default == "wg-easy"

\* Assumed of the constants by the module that instantiates this one.
DialogAssumption ==
  /\ None \notin Hosts /\ Default \notin Users
  /\ OtherPorts \subseteq Nat \ {None} /\ {MaxEdits, MaxImports} \subseteq Nat

VARIABLES
  form,     \* newRouter and connectionMode
  fetching, \* hosts whose fingerprint was asked for
  posting,  \* the row that is being created: a set with one, or none
  rows,     \* the router table
  script,   \* the file that was downloaded or copied: a set with one, or none
  device,   \* the router that is added
  last,     \* history: the settings of the last import that ran to its end
  moved,    \* history: that import found a rule of its name for another port
  drifted,  \* history: the host of the form changed under its fingerprint
  edits, imports

dvars == <<form, fetching, posting, rows, script, device, last, moved, drifted,
           edits, imports>>

Modes  == {"api-tls", "api-plain", "ssh"}
Ways   == {"api", "ssh"}
way(m) == IF m = "ssh" THEN "ssh" ELSE "api"
portOf(m) == IF m = "ssh" THEN 22 ELSE IF m = "api-tls" THEN 8729 ELSE 8728
Ports  == {portOf(m) : m \in Modes} \union OtherPorts
Names  == Users \union {Default}

Form     == [host : Hosts \union {None}, pin : Hosts \union {None}, mode : Modes,
             port : [Ways -> Ports], user : [Ways -> Names], password : Passwords]
Settings == [mode : Modes, port : Ports, user : Names, password : Passwords]
Row      == [host : Hosts \union {None}, pin : Hosts \union {None}, set : Settings,
             drifted : BOOLEAN]

\* Services and the ports they listen on; which rule of the firewall, known by
\* its comment, accepts which port.
Services == {"api", "api-ssl", "ssh"}
Rules    == Services \union {"mgmt"}
service(m) == IF m = "ssh" THEN "ssh" ELSE IF m = "api-tls" THEN "api-ssl" ELSE "api"
Device   == [groups : SUBSET Names, account : [Names -> Passwords \union {None}],
             on : SUBSET Services, port : [Services -> Ports],
             accepts : [Rules -> Ports \union {None}]]

emptyRouter(p) ==
  [host |-> None, pin |-> None, mode |-> "api-tls",
   port |-> [w \in Ways |-> IF w = "ssh" THEN 22 ELSE 8729],
   user |-> [w \in Ways |-> Default], password |-> p]

settings(f) == [mode |-> f.mode, port |-> f.port[way(f.mode)],
                user |-> f.user[way(f.mode)], password |-> f.password]

\* The router as it comes, with accounts that somebody made before.
Factory(accounts) ==
  [groups |-> {}, on |-> {"api", "ssh"}, accepts |-> [c \in Rules |-> None],
   account |-> [n \in Names |-> IF n \in accounts THEN CHOOSE p \in Passwords : TRUE ELSE None],
   port |-> [s \in Services |->
               CHOOSE q \in Ports : \E m \in Modes : service(m) = s /\ portOf(m) = q]]

Init ==
  /\ form \in {emptyRouter(p) : p \in Passwords}
  /\ fetching = {} /\ posting = {} /\ rows = {} /\ script = {}
  /\ device \in {Factory(S) : S \in SUBSET Users}
  /\ last = {} /\ moved = FALSE /\ drifted = FALSE /\ edits = 0 /\ imports = 0

(***************************************************************************)
(* The dialog.                                                             *)
(***************************************************************************)

Edit(f) ==
  /\ edits < MaxEdits /\ edits' = edits + 1 /\ form' = f
  /\ UNCHANGED <<fetching, posting, rows, script, device, last, moved, imports>>

\* The watcher of the mode sets the port of its way again.
SetMode(m) ==
  /\ m # form.mode
  /\ Edit([form EXCEPT !.mode = m, !.port[way(m)] = portOf(m)])
  /\ UNCHANGED drifted

EditAccount ==
  /\ \/ \E p \in Ports \ {form.port[way(form.mode)]} : Edit([form EXCEPT !.port[way(form.mode)] = p])
     \/ \E n \in Names \ {form.user[way(form.mode)]} : Edit([form EXCEPT !.user[way(form.mode)] = n])
     \/ \E p \in Passwords \ {form.password} : Edit([form EXCEPT !.password = p])
  /\ UNCHANGED drifted

\* The fingerprint in the form stays when the host is edited.
EditHost(h) ==
  /\ h # form.host
  /\ Edit([form EXCEPT !.host = h])
  /\ drifted' = (form.pin # None)

\* Asked for over TLS only; the answer goes into the form as it is by then.
\* Mutant: of the last router.
LastHost  == IF rows = {} THEN form.host ELSE (CHOOSE r \in rows : TRUE).host
AskedHost == form.host

FetchFingerprint ==
  /\ form.mode = "api-tls" /\ form.host # None
  /\ fetching' = fetching \union {AskedHost}
  /\ UNCHANGED <<form, posting, rows, script, device, last, moved, drifted, edits, imports>>

FingerprintArrives(h) ==
  /\ h \in fetching /\ fetching' = fetching \ {h}
  /\ form' = [form EXCEPT !.pin = h]
  /\ drifted' = (h # form.host)
  /\ UNCHANGED <<posting, rows, script, device, last, moved, edits, imports>>

FetchFails(h) ==
  /\ h \in fetching /\ fetching' = fetching \ {h}
  /\ UNCHANGED <<form, posting, rows, script, device, last, moved, drifted, edits, imports>>

\* The script is written from the form as it is.
DownloadRsc ==
  /\ script # {settings(form)} /\ script' = {settings(form)}
  /\ UNCHANGED <<form, fetching, posting, rows, device, last, moved, drifted, edits, imports>>

\* The body of the request is made at once.  drifted goes with it as history.
CreateRouter ==
  /\ posting = {}
  /\ posting' = {[host |-> form.host, pin |-> form.pin, set |-> settings(form),
                  drifted |-> drifted]}
  /\ UNCHANGED <<form, fetching, rows, script, device, last, moved, drifted, edits, imports>>

\* The form is emptied when the answer comes, whatever was entered since.
\* Mutant: but for the fingerprint.
KeptPin(p) == [emptyRouter(p) EXCEPT !.pin = form.pin]
Emptied(p) == emptyRouter(p)

Created(p) ==
  /\ posting # {} /\ p # form.password
  /\ posting' = {} /\ rows' = posting
  /\ form' = Emptied(p) /\ drifted' = FALSE
  /\ UNCHANGED <<fetching, script, device, last, moved, edits, imports>>

\* The name is taken, a field is missing, or the request fails.
Refused ==
  /\ posting # {} /\ posting' = {}
  /\ UNCHANGED <<form, fetching, rows, script, device, last, moved, drifted, edits, imports>>

\* On the page of the router, the port and the encryption are edited.
EditRow ==
  /\ edits < MaxEdits /\ edits' = edits + 1
  /\ \E r \in rows :
       \E s \in {[r.set EXCEPT !.port = q] : q \in Ports}
                \union {[r.set EXCEPT !.mode = m] : m \in Modes \ {"ssh"}} :
         r.set.mode # "ssh" /\ rows' = {[r EXCEPT !.set = s]}
  /\ UNCHANGED <<form, fetching, posting, script, device, last, moved, drifted, imports>>

(***************************************************************************)
(* The router: /import.                                                    *)
(***************************************************************************)

Imports == imports < MaxImports /\ imports' = imports + 1

\* The group of the user's name is removed, and wg-easy is added.
GroupClash(s) == Default \in device.groups \ {s.user}
\* The user wg-easy is removed, and that of the settings is added.
UserClash(s)  == s.user # Default /\ device.account[s.user] # None

ImportStops ==
  /\ Imports
  /\ \E s \in script :
       \/ /\ GroupClash(s)
          /\ device' = [device EXCEPT !.groups = @ \ {s.user}]
       \/ /\ ~GroupClash(s) /\ UserClash(s)
          /\ device' = [device EXCEPT !.groups = (@ \ {s.user}) \union {Default},
                                      !.account[Default] = None]
  /\ UNCHANGED <<form, fetching, posting, rows, script, last, moved, drifted, edits>>

\* The service of the mode gets the port and is enabled.  With TLS or without,
\* the dialog disables the other; the page of the router leaves api-ssl on.
\* Mutant: the service keeps its port.
SamePort(d, m, q)  == [d EXCEPT !.on = @ \union {service(m)}]
WithService(d, m, q) ==
  [d EXCEPT !.on = (@ \union {service(m)}) \ (IF m = "api-tls" THEN {"api"} ELSE {}),
            !.port[service(m)] = q]

\* A rule is added unless there is one of its name.
WithRule(d, c, q) == [d EXCEPT !.accepts[c] = IF @ = None THEN q ELSE @]
Moves(c, q)       == device.accepts[c] \notin {None, q}

ImportRuns ==
  /\ Imports
  /\ \E s \in script :
       LET d == [device EXCEPT
                   !.groups = (@ \ {s.user}) \union {Default},
                   !.account = [n \in Names |-> IF n = s.user THEN s.password
                                                ELSE IF n = Default THEN None ELSE @[n]],
                   !.on = IF s.mode = "api-plain" THEN @ \ {"api-ssl"} ELSE @]
       IN /\ ~GroupClash(s) /\ ~UserClash(s)
          /\ device' = WithRule(WithService(d, s.mode, s.port), service(s.mode), s.port)
          /\ last' = {s} /\ moved' = Moves(service(s.mode), s.port)
  /\ UNCHANGED <<form, fetching, posting, rows, script, drifted, edits>>

\* The script of the router's page has no account.
ImportOfPage ==
  /\ Imports
  /\ \E r \in rows :
       LET m == r.set.mode  q == r.set.port  d == [device EXCEPT !.groups = @ \union {Default}]
       IN /\ device' = WithRule(WithService(d, m, q), "mgmt", q)
          /\ last' = {[s EXCEPT !.mode = m, !.port = q] : s \in last}
          /\ moved' = Moves("mgmt", q)
  /\ UNCHANGED <<form, fetching, posting, rows, script, drifted, edits>>

-----------------------------------------------------------------------------
Next ==
  \/ \E m \in Modes : SetMode(m)
  \/ EditAccount \/ FetchFingerprint \/ DownloadRsc \/ CreateRouter \/ Refused \/ EditRow
  \/ \E h \in Hosts : EditHost(h) \/ FingerprintArrives(h) \/ FetchFails(h)
  \/ \E p \in Passwords : Created(p)
  \/ ImportStops \/ ImportRuns \/ ImportOfPage

Spec == Init /\ [][Next]_dvars

-----------------------------------------------------------------------------
(* Properties.                                                             *)

TypeOK ==
  /\ form \in Form /\ fetching \subseteq Hosts /\ posting \subseteq Row
  /\ rows \subseteq Row /\ script \subseteq Settings /\ device \in Device
  /\ last \subseteq Settings /\ moved \in BOOLEAN /\ drifted \in BOOLEAN

\* The server can log in with the row of a router on which a script with the
\* same settings ran to its end, whatever else was imported and stopped before or
\* since, unless a rule of the script's name was there for another port
\* (rscScript, downloadRsc).
Reaches(s) ==
  /\ service(s.mode) \in device.on /\ device.port[service(s.mode)] = s.port
  /\ device.account[s.user] = s.password
  /\ \E c \in Rules : device.accepts[c] = s.port

Reachable == \A r \in rows : last = {r.set} /\ ~moved => Reaches(r.set)

\* The fingerprint that is saved is that of the host that is saved: neither a
\* late answer nor an earlier router leaves another, unless the host was edited
\* while a fingerprint was there or on its way (fetchFingerprint, createRouter).
PinOfHost == \A r \in rows : r.drifted \/ r.pin \in {None, r.host}
=============================================================================
