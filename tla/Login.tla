------------------------------- MODULE Login -------------------------------
(* Who a request is from: the principal of a request (bearer token, basic    *)
(* authorization, the cookies of administrators and of dashboard users),     *)
(* login with password and TOTP code, login with a WireGuard key, the        *)
(* requests by which an account changes its password, its TOTP key and its   *)
(* API tokens, and the one-time links of a client.                           *)
(*                                                                           *)
(* There is one account, of an administrator with one client, and another    *)
(* administrator who patches it.  A request shows one credential, and tokens *)
(* have the scopes their requests ask for.  A request reads the account in  *)
(* one database call and acts in a later one.  Challenges and attempts are   *)
(* in memory, and code without an await runs in one step.  Signatures,       *)
(* hashes and codes are right or not.                                        *)
EXTENDS Integers, FiniteSets

CONSTANTS
  Jobs,            \* requests that may overlap
  MaxAttempts,     \* MAX_ATTEMPTS_PER_IP; 10
  Minute,          \* CHALLENGE_TTL_MS, RATE_LIMIT_WINDOW_MS, in ticks of Tick
  Passwords,       \* the passwords the account may be given
  MaxKeys, MaxTokens, MaxChallenges, MaxRequests, MaxRestarts

ASSUME BoundsAssumption ==
  /\ {MaxAttempts, MaxKeys, MaxTokens, MaxChallenges, MaxRequests, MaxRestarts} \subseteq Nat
  /\ Minute \in Nat \ {0}

VARIABLES
  enabled, password, totpKey, totpVerified,   \* columns of the account's row
  tokens,       \* api_token: state of each id
  link,         \* one_time_links_table: the client's link
  cookies,      \* the sealed cookies its browser holds
  challenges,   \* challenges of wgKeyAuth.ts
  attempts,     \* ipAttempts of wgKeyAuth.ts: one address, how long ago each was
  cron,         \* the engine's cron job: what it read of the link
  job,          \* requests in progress
  keys, asked,  \* history: TOTP keys and challenges handed out so far
  proven,       \* history: keys a code was presented for
  compared,     \* history: how often an answer to a challenge was compared
  tries,        \* history: the answers looked at in the last minute, by whichever
                \* process; attempts and tries tell the process (boot)
  requests, restarts

account == <<enabled, password, totpKey, totpVerified, tokens, keys, proven>>
memory  == <<challenges, attempts, asked, compared, tries>>
links   == <<link, cron>>
bounds  == <<requests, restarts>>
vars    == <<account, memory, links, cookies, job, bounds>>

NoKey    == 0
Keys     == 1 .. MaxKeys
Tokens   == 1 .. MaxTokens
Asked    == 1 .. MaxChallenges
Cookies  == {"wg-easy", "wg-user-session"}
\* The handlers behind getCurrentUser and those behind requirePermission.
MeOps    == {"password", "totpSetup", "totpCreate", "totpDelete", "link"}
TokenOps == {"tokenCreate", "tokenDelete"}
Ops      == MeOps \union TokenOps \union {"view"}

\* What a request shows: a token, a password, a cookie, or nothing.
Credential == [kind : {"bearer"}, token : Tokens] \union [kind : {"basic"}, password : Passwords]
              \union [kind : Cookies] \union [kind : {"none"}]
NoCredential == [kind |-> "none"]
Facts  == {"enabled", "token", "password"}
Stages == {"idle", "token", "user", "act", "adminCookie", "client", "userCookie", "erase"}
\* again: the middleware found no principal and the handler looks itself.
\* facts: history, what the credential needs and was true since the arrival.
Job    == [at : Stages, op : Ops, cred : Credential, again : BOOLEAN, facts : SUBSET Facts]
Idle   == [at |-> "idle", op |-> "view", cred |-> NoCredential, again |-> FALSE, facts |-> {}]

Init ==
  /\ enabled = TRUE /\ password \in Passwords
  /\ totpKey = NoKey /\ totpVerified = FALSE /\ keys = 0 /\ proven = {}
  /\ tokens = [t \in Tokens |-> "none"]
  /\ link = "none" /\ cron = "idle" /\ cookies = {}
  /\ challenges = {} /\ attempts = {} /\ asked = 0
  /\ compared = [c \in Asked |-> 0] /\ tries = {}
  /\ job = [j \in Jobs |-> Idle]
  /\ requests = 0 /\ restarts = 0

Free(j) == job[j].at = "idle" /\ requests < MaxRequests
Count   == requests' = requests + 1 /\ UNCHANGED restarts
Done(j) == job' = [job EXCEPT ![j] = Idle]
Goto(j, at) == job' = [job EXCEPT ![j].at = at]

(***************************************************************************)
(* The principal of a request.                                             *)
(***************************************************************************)
Needs(c) == CASE c.kind = "bearer" -> {"enabled", "token"}
              [] c.kind = "basic"  -> {"enabled", "password"}
              [] OTHER             -> {"enabled"}
Holding(c, on, pw) ==
  (IF on THEN {"enabled"} ELSE {})
  \union (IF c.kind = "bearer" /\ tokens[c.token] = "valid" THEN {"token"} ELSE {})
  \union (IF c.kind = "basic" /\ c.password = pw THEN {"password"} ELSE {})

\* The requests in progress once the account's row reads so.
Told(jobs, on, pw) ==
  [k \in Jobs |-> IF jobs[k].at = "idle" THEN jobs[k]
                  ELSE [jobs[k] EXCEPT !.facts = @ \union Holding(jobs[k].cred, on, pw)]]

Shown == {c \in Credential : /\ c.kind \in Cookies => c.kind \in cookies
                             /\ c.kind = "bearer" => tokens[c.token] # "none"
                             /\ c.kind # "none"}
First(c) == IF c.kind = "bearer" THEN "token" ELSE "user"

Request(j) ==
  /\ Free(j) /\ Count
  /\ \E op \in Ops, c \in Shown :
       job' = [job EXCEPT ![j] = [at |-> First(c), op |-> op, cred |-> c, again |-> FALSE,
                                  facts |-> Holding(c, enabled, password)]]
  /\ UNCHANGED <<account, memory, links, cookies>>

\* No principal: requirePermission resolves once more, and so does
\* getCurrentUser, which does not know the dashboard's cookie.
Refused(j) ==
  LET r == job[j] IN
  IF r.again \/ (r.op \in MeOps /\ r.cred.kind = "wg-user-session") THEN Done(j)
  ELSE job' = [job EXCEPT ![j].at = First(r.cred), ![j].again = TRUE]

\* A dashboard session may not touch tokens.
Permitted(r) == r.op \in TokenOps => r.cred.kind # "wg-user-session"

\* The valid tokens are compared one by one before the account is read.
Listed(t) == tokens[t] = "valid"
ReadTokens(j) ==
  /\ job[j].at = "token"
  /\ IF Listed(job[j].cred.token) THEN Goto(j, "user") ELSE Refused(j)
  /\ UNCHANGED <<account, memory, links, cookies, bounds>>

\* Mutant: who is disabled is let in.
AdmitsAny(c) == c.kind = "basic" => c.password = password

Admits(c) == enabled /\ (c.kind = "basic" => c.password = password)
ReadUser(j) ==
  /\ job[j].at = "user"
  /\ IF Admits(job[j].cred)
       THEN IF Permitted(job[j]) THEN Goto(j, "act") ELSE Done(j)
       ELSE Refused(j)
  /\ UNCHANGED <<account, memory, links, cookies, bounds>>

(***************************************************************************)
(* What an account changes of itself.                                      *)
(***************************************************************************)
Acting(j, op) == job[j].at = "act" /\ job[j].op = op

\* The password presented is checked again in the transaction that writes.
UpdatePassword(j) ==
  /\ Acting(j, "password")
  /\ \E current, new \in Passwords :
       LET pw == IF current = password THEN new ELSE password IN
       /\ password' = pw
       /\ job' = Told([job EXCEPT ![j] = Idle], enabled, pw)
  /\ UNCHANGED <<enabled, totpKey, totpVerified, tokens, keys, proven>>
  /\ UNCHANGED <<memory, links, cookies, bounds>>

\* Mutant: the flag stays as it was.
KeptVerified == totpVerified

NewVerified == FALSE
UpdateTotpKey(j) ==
  /\ Acting(j, "totpSetup") /\ keys < MaxKeys
  /\ keys' = keys + 1 /\ totpKey' = keys' /\ totpVerified' = NewVerified
  /\ Done(j)
  /\ UNCHANGED <<enabled, password, tokens, proven, memory, links, cookies, bounds>>

\* A code of some key that was handed out.
VerifyTotp(j) ==
  /\ Acting(j, "totpCreate")
  /\ \E code \in 1 .. keys :
       /\ totpVerified' = (totpVerified \/ (totpKey # NoKey /\ code = totpKey))
       /\ proven' = proven \union {code}
  /\ Done(j)
  /\ UNCHANGED <<enabled, password, totpKey, tokens, keys, memory, links, cookies, bounds>>

NoCode(j) == /\ Acting(j, "totpCreate") /\ Done(j)
             /\ UNCHANGED <<account, memory, links, cookies, bounds>>

DeleteTotpKey(j) ==
  /\ Acting(j, "totpDelete")
  /\ \E current \in Passwords :
       IF current = password THEN totpKey' = NoKey /\ totpVerified' = FALSE
                             ELSE UNCHANGED <<totpKey, totpVerified>>
  /\ Done(j)
  /\ UNCHANGED <<enabled, password, tokens, keys, proven, memory, links, cookies, bounds>>

CreateToken(j) ==
  /\ Acting(j, "tokenCreate")
  /\ \E t \in Tokens :
       /\ tokens[t] = "none" /\ \A u \in Tokens : u < t => tokens[u] # "none"
       /\ tokens' = [tokens EXCEPT ![t] = "valid"]
  /\ Done(j)
  /\ UNCHANGED <<enabled, password, totpKey, totpVerified, keys, proven>>
  /\ UNCHANGED <<memory, links, cookies, bounds>>

\* A token that is not there is answered with 404.
DeleteToken(j) ==
  /\ Acting(j, "tokenDelete")
  /\ \E t \in Tokens :
       tokens' = IF tokens[t] = "none" THEN tokens ELSE [tokens EXCEPT ![t] = "deleted"]
  /\ Done(j)
  /\ UNCHANGED <<enabled, password, totpKey, totpVerified, keys, proven>>
  /\ UNCHANGED <<memory, links, cookies, bounds>>

View(j) == Acting(j, "view") /\ Done(j) /\ UNCHANGED <<account, memory, links, cookies, bounds>>

\* The other administrator's patch of the account.
PatchEnabled ==
  /\ requests < MaxRequests /\ Count
  /\ enabled' = ~enabled
  /\ job' = Told(job, ~enabled, password)
  /\ UNCHANGED <<password, totpKey, totpVerified, tokens, keys, proven>>
  /\ UNCHANGED <<memory, links, cookies>>

PatchPassword ==
  /\ requests < MaxRequests /\ Count
  /\ \E new \in Passwords \ {password} :
       password' = new /\ job' = Told(job, enabled, new)
  /\ UNCHANGED <<enabled, totpKey, totpVerified, tokens, keys, proven>>
  /\ UNCHANGED <<memory, links, cookies>>

(***************************************************************************)
(* Login and logout.                                                       *)
(***************************************************************************)
\* One transaction; a login that fails changes nothing.
Login(j) ==
  /\ Free(j) /\ Count
  /\ \E code \in 0 .. keys : (totpVerified => code # 0 /\ code = totpKey)
  /\ enabled
  /\ Goto(j, "adminCookie")
  /\ UNCHANGED <<account, memory, links, cookies>>

\* The configuration of sessions is read, then the cookie is sealed.
SetCookie(j) ==
  /\ job[j].at \in {"adminCookie", "userCookie"}
  /\ cookies' = cookies \union {IF job[j].at = "adminCookie" THEN "wg-easy" ELSE "wg-user-session"}
  /\ Done(j)
  /\ UNCHANGED <<account, memory, links, bounds>>

\* A cookie has no date and is forgotten by the browser alone.
Logout(j) ==
  /\ Free(j) /\ Count /\ cookies # {}
  /\ cookies' = {}
  /\ UNCHANGED <<account, memory, links, job>>

UserLogout(j) ==
  /\ Free(j) /\ Count /\ "wg-user-session" \in cookies
  /\ cookies' = cookies \ {"wg-user-session"}
  /\ UNCHANGED <<account, memory, links, job>>

(***************************************************************************)
(* Login with the key of the account's client.                             *)
(***************************************************************************)
Fresh(cs) == {c \in cs : c.age <= Minute}

CreateChallenge(j) ==
  /\ Free(j) /\ Count /\ asked < MaxChallenges
  /\ asked' = asked + 1
  /\ challenges' = Fresh(challenges) \union {[id |-> asked', age |-> 0, used |-> FALSE]}
  /\ UNCHANGED <<account, attempts, compared, tries, links, cookies, job>>

Recent == {a \in attempts : a.age < Minute}
IsRateLimited == Cardinality(Recent) >= MaxAttempts

\* Mutant: an answer uses its challenge up only if it is right.
UsedIfGood(good) == good

UsedUp(good) == TRUE
Now == [request |-> requests, boot |-> restarts, age |-> 0]
\* The limit, the attempt and the challenge are handled without an await; 0 is
\* a challenge nobody asked for.
Verify(j) ==
  /\ Free(j) /\ Count /\ ~IsRateLimited
  /\ attempts' = Recent \union {Now} /\ tries' = tries \union {Now}
  /\ \E id \in 0 .. asked, good \in BOOLEAN :
       LET open == {c \in Fresh(challenges) : c.id = id /\ ~c.used} IN
       /\ challenges' = (Fresh(challenges) \ open)
                        \union {[c EXCEPT !.used = UsedUp(good)] : c \in open}
       /\ compared' = IF open = {} THEN compared ELSE [compared EXCEPT ![id] = @ + 1]
       /\ IF good /\ open # {} THEN Goto(j, "client") ELSE UNCHANGED job
  /\ UNCHANGED <<account, asked, links, cookies>>

Limited(j) ==
  /\ Free(j) /\ Count /\ IsRateLimited
  /\ attempts' = Recent
  /\ UNCHANGED <<account, challenges, asked, compared, tries, links, cookies, job>>

\* The client is read with its account: it is unknown, it has expired, or the
\* account is disabled, or the login succeeds.
ReadClient(j) ==
  /\ job[j].at = "client"
  /\ \/ Done(j)
     \/ enabled /\ Goto(j, "userCookie")
  /\ UNCHANGED <<account, memory, links, cookies, bounds>>

Older(as) == {[a EXCEPT !.age = IF @ < Minute THEN @ + 1 ELSE @] : a \in as}
Tick ==
  /\ challenges' = {[c EXCEPT !.age = IF @ <= Minute THEN @ + 1 ELSE @] : c \in challenges}
  /\ attempts' = Older(attempts) /\ tries' = {a \in Older(tries) : a.age < Minute}
  /\ UNCHANGED <<account, asked, compared, links, cookies, job, bounds>>

(***************************************************************************)
(* One-time links.                                                         *)
(***************************************************************************)
\* A link that is there gets a new date and stays the same link.
Generate(j) ==
  /\ Acting(j, "link") /\ link' = "live" /\ Done(j)
  /\ UNCHANGED <<account, memory, cron, cookies, bounds>>

\* The date is not looked at: what is in the table is served.
Serve(j) ==
  /\ Free(j) /\ Count /\ link # "none"
  /\ Goto(j, "erase")
  /\ UNCHANGED <<account, memory, links, cookies>>

\* Ten seconds more, for a link that is still there.
Erase(j) ==
  /\ job[j].at = "erase"
  /\ link' = IF link = "none" THEN "none" ELSE "live"
  /\ Done(j)
  /\ UNCHANGED <<account, memory, cron, cookies, bounds>>

\* The cron job reads the clients with their links, then deletes.
\* Mutant: the two dates are compared the other way round.
NotDue(l) == l = "live"

Overdue(l) == l = "expired"
CronRead ==
  /\ cron = "idle" /\ Overdue(link) /\ cron' = "delete"
  /\ UNCHANGED <<account, memory, link, cookies, job, bounds>>
CronDelete ==
  /\ cron = "delete" /\ link' = "none" /\ cron' = "idle"
  /\ UNCHANGED <<account, memory, cookies, job, bounds>>

(***************************************************************************)
(* Time and restarts.                                                      *)
(***************************************************************************)
ExpireLink ==
  /\ link = "live" /\ link' = "expired"
  /\ UNCHANGED <<account, memory, cron, cookies, job, bounds>>

ExpireToken ==
  /\ \E t \in Tokens : tokens[t] = "valid" /\ tokens' = [tokens EXCEPT ![t] = "expired"]
  /\ UNCHANGED <<enabled, password, totpKey, totpVerified, keys, proven>>
  /\ UNCHANGED <<memory, links, cookies, job, bounds>>

\* The challenges and the attempts were in memory; the minute goes on.
Restart ==
  /\ restarts < MaxRestarts /\ restarts' = restarts + 1
  /\ challenges' = {} /\ attempts' = {}
  /\ job' = [j \in Jobs |-> Idle] /\ cron' = "idle"
  /\ UNCHANGED <<account, asked, compared, tries, link, cookies, requests>>

Arrive(j) == Request(j) \/ Login(j) \/ Logout(j) \/ UserLogout(j) \/ CreateChallenge(j)
             \/ Verify(j) \/ Limited(j) \/ Serve(j)
Act(j) == UpdatePassword(j) \/ UpdateTotpKey(j) \/ VerifyTotp(j) \/ NoCode(j) \/ DeleteTotpKey(j)
          \/ CreateToken(j) \/ DeleteToken(j) \/ View(j) \/ Generate(j)
Continue(j) == ReadTokens(j) \/ ReadUser(j) \/ Act(j) \/ SetCookie(j) \/ ReadClient(j) \/ Erase(j)

Next ==
  \/ \E j \in Jobs : Arrive(j) \/ Continue(j)
  \/ PatchEnabled \/ PatchPassword
  \/ CronRead \/ CronDelete \/ Tick \/ ExpireLink \/ ExpireToken \/ Restart

Fairness == /\ \A j \in Jobs : WF_vars(Continue(j))
            /\ WF_vars(CronRead) /\ WF_vars(CronDelete) /\ WF_vars(ExpireLink)
Spec     == Init /\ [][Next]_vars
FairSpec == Spec /\ Fairness

(***************************************************************************)
(* What holds.                                                             *)
(***************************************************************************)
\* The type invariant; the list of attempts of an address does not grow past
\* its limit (wgKeyAuth.ts:99).
TypeOK ==
  /\ enabled \in BOOLEAN /\ password \in Passwords
  /\ totpKey \in 0 .. keys /\ totpVerified \in BOOLEAN /\ keys \in 0 .. MaxKeys
  /\ proven \subseteq 1 .. keys
  /\ tokens \in [Tokens -> {"none", "valid", "expired", "deleted"}]
  /\ link \in {"none", "live", "expired"} /\ cron \in {"idle", "delete"}
  /\ cookies \subseteq Cookies
  /\ challenges \subseteq [id : 1 .. asked, age : 0 .. Minute + 1, used : BOOLEAN]
  /\ attempts \subseteq [request : 0 .. MaxRequests, boot : 0 .. MaxRestarts, age : 0 .. Minute]
  /\ Cardinality(attempts) <= MaxAttempts
  /\ tries \subseteq [request : 0 .. MaxRequests, boot : 0 .. MaxRestarts, age : 0 .. Minute - 1]
  /\ asked \in 0 .. MaxChallenges /\ compared \in [Asked -> Nat]
  /\ job \in [Jobs -> Job]
  /\ requests \in 0 .. MaxRequests /\ restarts \in 0 .. MaxRestarts

\* A login asks for a code only of a key that its owner has shown a code for:
\* an enrolment that is begun anew, or overlaps with another, locks nobody out
\* (me/totp.post.ts, user/service.ts:139, 192).
TotpProven == totpVerified => totpKey \in proven

\* A handler runs for an account that was enabled, with a credential that was
\* good, at some moment after the request had arrived, however reads and
\* patches interleave (principal.ts, session.ts:64).
Admitted == \A j \in Jobs : job[j].at = "act" => Needs(job[j].cred) \subseteq job[j].facts

\* No challenge is answered twice, be the first answer right or wrong and a
\* restart in between or not; and of the answers of any minute no process has
\* looked at more than MaxAttempts.  The count is in memory: each restart within
\* the minute lets as many again (wgKeyAuth.ts:99).
AnswersBounded ==
  /\ \A c \in Asked : compared[c] <= 1
  /\ \A boot \in 0 .. restarts : Cardinality({a \in tries : a.boot = boot}) <= MaxAttempts

\* Though serving a link does not look at its date and even renews it, every
\* link is refused in the end, once nobody asks for it (oneTimeLink/service.ts:62,
\* wireguard/index.ts:294).
LinksDie == <>[](link = "none")
=============================================================================
