----------------------------- MODULE LoginProofs -----------------------------
(***************************************************************************)
(* For any number of overlapping requests, tokens, passwords and restarts, *)
(* and for any limits: a login asks only for the code of a key that was    *)
(* shown one, a handler runs only for a credential that was good after the *)
(* request had arrived, and no challenge is answered twice.                *)
(***************************************************************************)
EXTENDS Login, FiniteSetTheorems, TLAPS

-----------------------------------------------------------------------------
(* Credentials, and what happens to the requests in progress.              *)

LEMMA Bounds ==
    /\ MaxAttempts \in Nat /\ MaxKeys \in Nat /\ MaxTokens \in Nat /\ MaxChallenges \in Nat
    /\ MaxRequests \in Nat /\ MaxRestarts \in Nat /\ Minute \in Nat /\ Minute > 0
BY BoundsAssumption

LEMMA CredentialType ==
    ASSUME NEW c \in Credential
    PROVE  /\ c.kind = "bearer" => c.token \in Tokens
           /\ c.kind = "basic" => c.password \in Passwords
BY DEF Credential, Cookies

LEMMA IdleType == Idle \in Job /\ Idle.at = "idle"
BY DEF Idle, Job, Stages, Ops, Credential, NoCredential

LEMMA FirstType == \A c \in Credential : First(c) \in {"token", "user"}
BY DEF First

LEMMA HoldingType == \A c, on, pw : Holding(c, on, pw) \subseteq Facts
BY DEF Holding, Facts

\* A change of the account adds to what its requests know, and nothing else.
LEMMA ToldFacts ==
    ASSUME NEW jobs \in [Jobs -> Job], NEW on, NEW pw
    PROVE  /\ Told(jobs, on, pw) \in [Jobs -> Job]
           /\ \A k \in Jobs : LET r == jobs[k]  s == Told(jobs, on, pw)[k] IN
                /\ s.at = r.at /\ s.op = r.op /\ s.cred = r.cred /\ s.again = r.again
                /\ r.facts \subseteq s.facts
                /\ r.at # "idle" => Holding(r.cred, on, pw) \subseteq s.facts
BY HoldingType DEF Told, Job

LEMMA GotoType ==
    ASSUME job \in [Jobs -> Job], NEW j \in Jobs, NEW at \in Stages, Goto(j, at)
    PROVE  job' \in [Jobs -> Job]
BY DEF Goto, Job

LEMMA DoneType ==
    ASSUME job \in [Jobs -> Job], NEW j \in Jobs, Done(j)
    PROVE  job' \in [Jobs -> Job]
BY IdleType DEF Done

LEMMA RefusedType ==
    ASSUME job \in [Jobs -> Job], NEW j \in Jobs, Refused(j)
    PROVE  job' \in [Jobs -> Job]
<1>1. CASE Done(j)
  BY <1>1, DoneType
<1>2. CASE job' = [job EXCEPT ![j].at = First(job[j].cred), ![j].again = TRUE]
  <2>1. job[j].cred \in Credential
    BY DEF Job
  <2>2. First(job[j].cred) \in Stages
    BY <2>1, FirstType DEF Stages
  <2> QED BY <1>2, <2>2 DEF Job
<1> QED BY <1>1, <1>2 DEF Refused

-----------------------------------------------------------------------------
(* The attempts in memory.                                                 *)
OneOlder(a) == [a EXCEPT !.age = IF @ < Minute THEN @ + 1 ELSE @]

\* As time passes no attempt is added.
LEMMA OlderBounded ==
    ASSUME NEW S, IsFiniteSet(S)
    PROVE  IsFiniteSet(Older(S)) /\ Cardinality(Older(S)) <= Cardinality(S)
<1> DEFINE f == [a \in S |-> OneOlder(a)]
<1>1. f \in Surjection(S, Older(S))
  BY DEF Surjection, Older, OneOlder
<1> QED BY <1>1, FS_Surjection

LEMMA OlderType ==
    ASSUME NEW n \in Nat, NEW m \in Nat,
           NEW S \in SUBSET [request : 0 .. n, boot : 0 .. m, age : 0 .. Minute]
    PROVE  Older(S) \subseteq [request : 0 .. n, boot : 0 .. m, age : 0 .. Minute]
BY Bounds DEF Older

\* What is in the list is finite.
Attempts == IsFiniteSet(attempts)

LEMMA RecentBounded ==
    ASSUME Attempts, Cardinality(attempts) <= MaxAttempts
    PROVE  /\ Recent \subseteq attempts /\ IsFiniteSet(Recent)
           /\ Cardinality(Recent) \in Nat /\ Cardinality(Recent) <= MaxAttempts
<1>1. Recent \in SUBSET attempts
  BY DEF Recent
<1>2. IsFiniteSet(Recent) /\ Cardinality(Recent) <= Cardinality(attempts)
  BY <1>1, FS_Subset DEF Attempts
<1>3. Cardinality(Recent) \in Nat /\ Cardinality(attempts) \in Nat
  BY <1>2, FS_CardinalityType DEF Attempts
<1> QED BY <1>1, <1>2, <1>3, Bounds

-----------------------------------------------------------------------------
(* Type correctness.  Attempts is needed for the bound on the list.        *)

\* The parts of the type invariant, by the variables they are about.
AccountType == /\ enabled \in BOOLEAN /\ password \in Passwords
               /\ totpKey \in 0 .. keys /\ totpVerified \in BOOLEAN /\ keys \in 0 .. MaxKeys
               /\ proven \subseteq 1 .. keys
               /\ tokens \in [Tokens -> {"none", "valid", "expired", "deleted"}]
ChallengeType == /\ challenges \subseteq [id : 1 .. asked, age : 0 .. Minute + 1, used : BOOLEAN]
                 /\ asked \in 0 .. MaxChallenges /\ compared \in [Asked -> Nat]
AttemptType == /\ attempts \subseteq [request : 0 .. MaxRequests, boot : 0 .. MaxRestarts, age : 0 .. Minute]
               /\ Cardinality(attempts) <= MaxAttempts
               /\ tries \subseteq [request : 0 .. MaxRequests, boot : 0 .. MaxRestarts, age : 0 .. Minute - 1]
MemoryType == ChallengeType /\ AttemptType
LinkType   == link \in {"none", "live", "expired"} /\ cron \in {"idle", "delete"}
CookieType == cookies \subseteq Cookies
JobType    == job \in [Jobs -> Job]
BoundType  == requests \in 0 .. MaxRequests /\ restarts \in 0 .. MaxRestarts

LEMMA TypeParts ==
    /\ TypeOK <=> /\ AccountType /\ MemoryType /\ LinkType /\ CookieType /\ JobType /\ BoundType
    /\ TypeOK' <=> /\ AccountType' /\ MemoryType' /\ LinkType' /\ CookieType' /\ JobType'
                   /\ BoundType'
BY DEF TypeOK, AccountType, MemoryType, ChallengeType, AttemptType, LinkType, CookieType,
       JobType, BoundType

TypeInv == TypeOK /\ Attempts

LEMMA CountType ==
    ASSUME BoundType, requests < MaxRequests, Count
    PROVE  BoundType'
BY Bounds DEF BoundType, Count

LEMMA TypeInit == Init => TypeInv
<1> SUFFICES ASSUME Init PROVE TypeInv
  OBVIOUS
<1> USE Bounds DEF Init
<1>1. AccountType
  <2>1. enabled \in BOOLEAN /\ totpVerified \in BOOLEAN
    OBVIOUS
  <2>2. totpKey \in 0 .. keys /\ keys \in 0 .. MaxKeys /\ proven \subseteq 1 .. keys
    BY DEF NoKey
  <2> QED BY <2>1, <2>2 DEF AccountType
<1>4. LinkType /\ CookieType /\ BoundType
  BY DEF LinkType, CookieType, BoundType
<1>5. ChallengeType
  BY DEF ChallengeType
<1>2. AttemptType /\ Attempts
  BY FS_EmptySet DEF AttemptType, Attempts
<1>3. JobType
  BY IdleType DEF JobType
<1> QED BY <1>1, <1>2, <1>3, <1>4, <1>5, TypeParts DEF TypeInv, MemoryType

\* What leaves a part alone keeps its type.
LEMMA Unchanged ==
    ASSUME TypeInv
    PROVE  /\ UNCHANGED account => AccountType'
           /\ UNCHANGED memory => MemoryType' /\ Attempts'
           /\ UNCHANGED links => LinkType'
           /\ UNCHANGED cookies => CookieType'
           /\ UNCHANGED bounds => BoundType'
           /\ UNCHANGED job => JobType'
<1> USE TypeParts DEF TypeInv
<1>1. UNCHANGED account => AccountType'
  BY DEF AccountType, account
<1>2. UNCHANGED memory => MemoryType' /\ Attempts'
  BY DEF MemoryType, ChallengeType, AttemptType, Attempts, memory
<1>3. UNCHANGED links => LinkType'
  BY DEF LinkType, links
<1>4. UNCHANGED cookies => CookieType'
  BY DEF CookieType
<1>5. UNCHANGED bounds => BoundType'
  BY DEF BoundType, bounds
<1>6. UNCHANGED job => JobType'
  BY DEF JobType
<1> QED BY <1>1, <1>2, <1>3, <1>4, <1>5, <1>6

\* Steps of a request up to its handler, and after it.
LEMMA TypeArrive ==
    ASSUME TypeInv, NEW j \in Jobs,
           Request(j) \/ ReadTokens(j) \/ ReadUser(j) \/ NoCode(j) \/ View(j) \/ Login(j)
             \/ ReadClient(j) \/ Serve(j)
    PROVE  TypeInv'
<1> USE TypeParts, Unchanged DEF TypeInv
<1>1. CASE Request(j)
  <2>1. PICK op \in Ops, c \in Shown :
          job' = [job EXCEPT ![j] = [at |-> First(c), op |-> op, cred |-> c, again |-> FALSE,
                                     facts |-> Holding(c, enabled, password)]]
    BY <1>1 DEF Request
  <2>2. c \in Credential
    BY DEF Shown
  <2>3. [at |-> First(c), op |-> op, cred |-> c, again |-> FALSE,
         facts |-> Holding(c, enabled, password)] \in Job
    BY <2>2, FirstType, HoldingType DEF Job, Stages
  <2>4. JobType'
    BY <2>1, <2>3 DEF JobType
  <2> QED BY <1>1, <2>4, CountType DEF Request, Free
<1>2. CASE ReadTokens(j)
  <2>1. JobType'
    BY <1>2, GotoType, RefusedType DEF ReadTokens, JobType, Stages
  <2> QED BY <1>2, <2>1 DEF ReadTokens
<1>3. CASE ReadUser(j)
  <2>1. JobType'
    BY <1>3, GotoType, DoneType, RefusedType DEF ReadUser, JobType, Stages
  <2> QED BY <1>3, <2>1 DEF ReadUser
<1>4. CASE NoCode(j) \/ View(j)
  <2>1. JobType'
    BY <1>4, DoneType DEF NoCode, View, JobType
  <2> QED BY <1>4, <2>1 DEF NoCode, View
<1>5. CASE Login(j)
  <2>1. JobType'
    BY <1>5, GotoType DEF Login, JobType, Stages
  <2> QED BY <1>5, <2>1, CountType DEF Login, Free
<1>6. CASE ReadClient(j)
  <2>1. JobType'
    BY <1>6, GotoType, DoneType DEF ReadClient, JobType, Stages
  <2> QED BY <1>6, <2>1 DEF ReadClient
<1>7. CASE Serve(j)
  <2>1. JobType'
    BY <1>7, GotoType DEF Serve, JobType, Stages
  <2> QED BY <1>7, <2>1, CountType DEF Serve, Free
<1> QED BY <1>1, <1>2, <1>3, <1>4, <1>5, <1>6, <1>7

\* Steps that change the account.
LEMMA TypeAccount ==
    ASSUME TypeInv,
           \/ \E j \in Jobs : UpdatePassword(j) \/ UpdateTotpKey(j) \/ VerifyTotp(j)
                              \/ DeleteTotpKey(j) \/ CreateToken(j) \/ DeleteToken(j)
           \/ PatchEnabled \/ PatchPassword \/ ExpireToken
    PROVE  TypeInv'
<1> USE TypeParts, Unchanged DEF TypeInv
<1>1. ASSUME NEW j \in Jobs, UpdatePassword(j) PROVE TypeInv'
  <2>1. PICK current \in Passwords, new \in Passwords :
          LET pw == IF current = password THEN new ELSE password IN
          password' = pw /\ job' = Told([job EXCEPT ![j] = Idle], enabled, pw)
    BY <1>1 DEF UpdatePassword
  <2>2. [job EXCEPT ![j] = Idle] \in [Jobs -> Job]
    BY IdleType DEF JobType
  <2>3. JobType'
    BY <2>1, <2>2, ToldFacts DEF JobType
  <2>4. AccountType'
    BY <1>1, <2>1 DEF UpdatePassword, AccountType
  <2> QED BY <1>1, <2>3, <2>4 DEF UpdatePassword
<1>2. ASSUME NEW j \in Jobs, UpdateTotpKey(j) PROVE TypeInv'
  <2>0. keys \in 0 .. MaxKeys /\ keys' = keys + 1 /\ keys < MaxKeys /\ totpKey' = keys'
    BY <1>2 DEF UpdateTotpKey, AccountType
  <2>1. AccountType'
    <3>1. keys' \in 0 .. MaxKeys /\ totpKey' \in 0 .. keys' /\ 1 .. keys \subseteq 1 .. keys'
      BY <2>0, Bounds
    <3> QED BY <1>2, <3>1 DEF UpdateTotpKey, AccountType, NewVerified
  <2>2. JobType'
    BY <1>2, DoneType DEF UpdateTotpKey, JobType
  <2> QED BY <1>2, <2>1, <2>2 DEF UpdateTotpKey
<1>3. ASSUME NEW j \in Jobs, VerifyTotp(j) PROVE TypeInv'
  <2>1. AccountType'
    BY <1>3 DEF VerifyTotp, AccountType
  <2>2. JobType'
    BY <1>3, DoneType DEF VerifyTotp, JobType
  <2> QED BY <1>3, <2>1, <2>2 DEF VerifyTotp
<1>4. ASSUME NEW j \in Jobs, DeleteTotpKey(j) PROVE TypeInv'
  <2>1. AccountType'
    <3>1. 0 \in 0 .. keys
      BY DEF AccountType
    <3>2. totpKey' \in 0 .. keys /\ totpVerified' \in BOOLEAN
      BY <1>4, <3>1 DEF DeleteTotpKey, AccountType, NoKey
    <3> QED BY <1>4, <3>2 DEF DeleteTotpKey, AccountType
  <2>2. JobType'
    BY <1>4, DoneType DEF DeleteTotpKey, JobType
  <2> QED BY <1>4, <2>1, <2>2 DEF DeleteTotpKey
<1>5. ASSUME NEW j \in Jobs, CreateToken(j) \/ DeleteToken(j) PROVE TypeInv'
  <2>1. AccountType'
    BY <1>5 DEF CreateToken, DeleteToken, AccountType
  <2>2. JobType'
    BY <1>5, DoneType DEF CreateToken, DeleteToken, JobType
  <2> QED BY <1>5, <2>1, <2>2 DEF CreateToken, DeleteToken
<1>6. CASE PatchEnabled \/ PatchPassword
  <2>1. AccountType'
    BY <1>6 DEF PatchEnabled, PatchPassword, AccountType
  <2>2. JobType'
    BY <1>6, ToldFacts DEF PatchEnabled, PatchPassword, JobType
  <2>3. BoundType'
    BY <1>6, CountType DEF PatchEnabled, PatchPassword
  <2> QED BY <1>6, <2>1, <2>2, <2>3 DEF PatchEnabled, PatchPassword
<1>7. CASE ExpireToken
  <2>1. AccountType'
    BY <1>7 DEF ExpireToken, AccountType
  <2> QED BY <1>7, <2>1 DEF ExpireToken, bounds
<1> QED BY <1>1, <1>2, <1>3, <1>4, <1>5, <1>6, <1>7

\* Steps that change challenges and attempts.
LEMMA TypeMemory ==
    ASSUME TypeInv,
           Tick \/ \E j \in Jobs : CreateChallenge(j) \/ Verify(j) \/ Limited(j)
    PROVE  TypeInv'
<1> USE TypeParts, Unchanged, Bounds DEF TypeInv
<1>1. Recent \subseteq attempts /\ IsFiniteSet(Recent)
      /\ Cardinality(Recent) \in Nat /\ Cardinality(Recent) <= MaxAttempts
  BY RecentBounded DEF MemoryType, AttemptType
<1>3. ASSUME NEW j \in Jobs, CreateChallenge(j) PROVE TypeInv'
  <2>1. ChallengeType'
    <3>1. /\ asked' = asked + 1 /\ asked < MaxChallenges /\ asked \in 0 .. MaxChallenges
          /\ challenges' = Fresh(challenges) \union {[id |-> asked', age |-> 0, used |-> FALSE]}
      BY <1>3 DEF CreateChallenge, MemoryType, ChallengeType
    <3>2. asked' \in 0 .. MaxChallenges /\ asked' \in 1 .. asked' /\ 1 .. asked \subseteq 1 .. asked'
      BY <3>1
    <3>3. \A c \in Fresh(challenges) : c \in [id : 1 .. asked, age : 0 .. Minute + 1, used : BOOLEAN]
      BY DEF Fresh, MemoryType, ChallengeType
    <3>5. [id |-> asked', age |-> 0, used |-> FALSE]
            \in [id : 1 .. asked', age : 0 .. Minute + 1, used : BOOLEAN]
      BY <3>2, Bounds
    <3>6. \A c \in Fresh(challenges) :
            c \in [id : 1 .. asked', age : 0 .. Minute + 1, used : BOOLEAN]
      BY <3>2, <3>3
    <3>4. \A c \in challenges' : c \in [id : 1 .. asked', age : 0 .. Minute + 1, used : BOOLEAN]
      BY <3>1, <3>5, <3>6
    <3> QED BY <1>3, <3>2, <3>4 DEF CreateChallenge, MemoryType, ChallengeType
  <2>2. AttemptType' /\ Attempts'
    BY <1>3 DEF CreateChallenge, MemoryType, AttemptType, Attempts
  <2>3. BoundType'
    BY <1>3, CountType DEF CreateChallenge, Free
  <2> QED BY <1>3, <2>1, <2>2, <2>3 DEF CreateChallenge, MemoryType
<1>4. ASSUME NEW j \in Jobs, Verify(j) PROVE TypeInv'
  <2>1. PICK id \in 0 .. asked, good \in BOOLEAN :
          LET open == {c \in Fresh(challenges) : c.id = id /\ ~c.used} IN
          /\ challenges' = (Fresh(challenges) \ open)
                           \union {[c EXCEPT !.used = UsedUp(good)] : c \in open}
          /\ compared' = IF open = {} THEN compared ELSE [compared EXCEPT ![id] = @ + 1]
          /\ IF good /\ open # {} THEN Goto(j, "client") ELSE UNCHANGED job
    BY <1>4 DEF Verify
  <2>2. ChallengeType'
    <3>1. challenges' \subseteq [id : 1 .. asked, age : 0 .. Minute + 1, used : BOOLEAN]
      <4>1. \A c \in Fresh(challenges) :
              c \in [id : 1 .. asked, age : 0 .. Minute + 1, used : BOOLEAN]
        BY DEF Fresh, MemoryType, ChallengeType
      <4>2. \A c \in Fresh(challenges) :
              [c EXCEPT !.used = UsedUp(good)]
                \in [id : 1 .. asked, age : 0 .. Minute + 1, used : BOOLEAN]
        BY <4>1 DEF UsedUp
      <4> QED BY <2>1, <4>1, <4>2
    <3>2. compared' \in [Asked -> Nat]
      <4>1. asked \in 0 .. MaxChallenges /\ compared \in [Asked -> Nat]
        BY DEF MemoryType, ChallengeType
      <4>2. \A c \in Fresh(challenges) : c.id \in 1 .. asked
        BY DEF Fresh, MemoryType, ChallengeType
      <4>3. 1 .. asked \subseteq Asked
        BY <4>1, Bounds DEF Asked
      <4> QED BY <2>1, <4>1, <4>2, <4>3
    <3> QED BY <1>4, <3>1, <3>2 DEF Verify, memory, MemoryType, ChallengeType
  <2>3. JobType'
    BY <2>1, GotoType DEF JobType, Stages
  <2>4. AttemptType' /\ Attempts'
    <3>1. Now \in [request : 0 .. MaxRequests, boot : 0 .. MaxRestarts, age : 0 .. Minute - 1]
      BY DEF Now, BoundType
    <3>2. Cardinality(Recent) < MaxAttempts
      BY <1>1, <1>4 DEF Verify, IsRateLimited
    <3>4. attempts' = Recent \union {Now} /\ tries' = tries \union {Now}
      BY <1>4 DEF Verify
    <3>7. /\ IsFiniteSet(Recent \union {Now})
          /\ Cardinality(Recent \union {Now})
               = IF Now \in Recent THEN Cardinality(Recent) ELSE Cardinality(Recent) + 1
      BY <1>1, FS_AddElement
    <3>8. Cardinality(Recent \union {Now}) <= MaxAttempts
      BY <1>1, <3>2, <3>7, Bounds
    <3>3. IsFiniteSet(attempts') /\ Cardinality(attempts') <= MaxAttempts
      BY <3>4, <3>7, <3>8
    <3>5. Now \in [request : 0 .. MaxRequests, boot : 0 .. MaxRestarts, age : 0 .. Minute]
      BY <3>1
    <3>6. AttemptType'
      BY <1>1, <3>1, <3>3, <3>4, <3>5 DEF MemoryType, AttemptType
    <3> QED BY <3>3, <3>6 DEF Attempts
  <2>5. BoundType'
    BY <1>4, CountType DEF Verify, Free
  <2> QED BY <1>4, <2>2, <2>3, <2>4, <2>5 DEF Verify, MemoryType
<1>5. ASSUME NEW j \in Jobs, Limited(j) PROVE TypeInv'
  <2>1. AttemptType' /\ Attempts'
    BY <1>1, <1>5 DEF Limited, MemoryType, AttemptType, Attempts
  <2>2. ChallengeType'
    BY <1>5 DEF Limited, MemoryType, ChallengeType
  <2>3. BoundType'
    BY <1>5, CountType DEF Limited, Free
  <2> QED BY <1>5, <2>1, <2>2, <2>3 DEF Limited, MemoryType
<1>6. CASE Tick
  <2>1. ChallengeType'
    BY <1>6 DEF Tick, MemoryType, ChallengeType
  <2> DEFINE T == [request : 0 .. MaxRequests, boot : 0 .. MaxRestarts, age : 0 .. Minute]
  <2>2. attempts' \subseteq T /\ Older(tries) \subseteq T
    <3>1. attempts \in SUBSET T /\ tries \in SUBSET T
      BY DEF MemoryType, AttemptType
    <3>2. Older(attempts) \subseteq T /\ Older(tries) \subseteq T
      BY <3>1, OlderType
    <3> QED BY <1>6, <3>2 DEF Tick
  <2>3. IsFiniteSet(attempts') /\ Cardinality(attempts') <= Cardinality(attempts)
    BY <1>6, OlderBounded DEF Tick, Attempts
  <2>4. Cardinality(attempts) \in Nat /\ Cardinality(attempts') \in Nat
    BY <2>3, FS_CardinalityType DEF Attempts
  <2>5. AttemptType'
    BY <1>6, <2>2, <2>3, <2>4 DEF Tick, MemoryType, AttemptType
  <2>7. Attempts'
    BY <1>6, <2>3 DEF Tick, Attempts
  <2> QED BY <1>6, <2>1, <2>5, <2>7 DEF Tick, MemoryType
<1> QED BY <1>3, <1>4, <1>5, <1>6

\* Cookies, links, the cron job and restarts.
LEMMA TypeRest ==
    ASSUME TypeInv,
           \/ \E j \in Jobs : SetCookie(j) \/ Logout(j) \/ UserLogout(j) \/ Generate(j) \/ Erase(j)
           \/ CronRead \/ CronDelete \/ ExpireLink \/ Restart
    PROVE  TypeInv'
<1> USE TypeParts, Unchanged DEF TypeInv
<1>1. ASSUME NEW j \in Jobs, SetCookie(j) PROVE TypeInv'
  <2>1. CookieType' /\ JobType'
    BY <1>1, DoneType DEF SetCookie, CookieType, Cookies, JobType
  <2> QED BY <1>1, <2>1 DEF SetCookie
<1>2. ASSUME NEW j \in Jobs, Logout(j) \/ UserLogout(j) PROVE TypeInv'
  <2>1. CookieType' /\ BoundType'
    BY <1>2, CountType DEF Logout, UserLogout, CookieType, Free
  <2> QED BY <1>2, <2>1 DEF Logout, UserLogout
<1>3. ASSUME NEW j \in Jobs, Generate(j) \/ Erase(j) PROVE TypeInv'
  <2>1. LinkType' /\ JobType'
    BY <1>3, DoneType DEF Generate, Erase, LinkType, JobType
  <2> QED BY <1>3, <2>1 DEF Generate, Erase
<1>4. CASE CronRead \/ CronDelete \/ ExpireLink
  <2>1. LinkType'
    BY <1>4 DEF CronRead, CronDelete, ExpireLink, LinkType
  <2> QED BY <1>4, <2>1 DEF CronRead, CronDelete, ExpireLink
<1>5. CASE Restart
  <2>1. JobType'
    BY <1>5, IdleType DEF Restart, JobType
  <2>2. LinkType' /\ BoundType'
    BY <1>5, Bounds DEF Restart, LinkType, BoundType
  <2>3. ChallengeType'
    BY <1>5 DEF Restart, MemoryType, ChallengeType
  <2>4. AttemptType' /\ Attempts'
    BY <1>5, FS_EmptySet, Bounds DEF Restart, MemoryType, AttemptType, Attempts
  <2> QED BY <1>5, <2>1, <2>2, <2>3, <2>4 DEF Restart, MemoryType
<1> QED BY <1>1, <1>2, <1>3, <1>4, <1>5

LEMMA TypeStep == TypeInv /\ [Next]_vars => TypeInv'
<1> SUFFICES ASSUME TypeInv, [Next]_vars PROVE TypeInv'
  OBVIOUS
<1>1. CASE UNCHANGED vars
  BY <1>1, Unchanged, TypeParts DEF TypeInv, vars
<1>2. CASE Next
  BY <1>2, TypeArrive, TypeAccount, TypeMemory, TypeRest DEF Next, Arrive, Act, Continue
<1> QED BY <1>1, <1>2

\* Every variable keeps its type, and the list of attempts its bound.
THEOREM TypeCorrect == Spec => []TypeOK
<1>1. TypeInv => TypeOK
  BY DEF TypeInv
<1> QED BY <1>1, TypeInit, TypeStep, PTL DEF Spec

LEMMA TypeInvariant == Spec => []TypeInv
BY TypeInit, TypeStep, PTL DEF Spec

-----------------------------------------------------------------------------
(* Enrolment of a TOTP key: TotpProven is inductive as it stands.          *)

LEMMA TotpStep == TotpProven /\ [Next]_vars => TotpProven'
<1> SUFFICES ASSUME TotpProven, [Next]_vars PROVE TotpProven'
  OBVIOUS
<1>1. CASE UNCHANGED <<totpKey, totpVerified, proven>>
  BY <1>1 DEF TotpProven
<1>2. ASSUME NEW j \in Jobs, UpdateTotpKey(j) PROVE TotpProven'
  BY <1>2 DEF UpdateTotpKey, NewVerified, TotpProven
<1>3. ASSUME NEW j \in Jobs, VerifyTotp(j) PROVE TotpProven'
  BY <1>3 DEF VerifyTotp, TotpProven
<1>4. ASSUME NEW j \in Jobs, DeleteTotpKey(j) PROVE TotpProven'
  BY <1>4 DEF DeleteTotpKey, TotpProven
<1>5. CASE UNCHANGED vars
  BY <1>1, <1>5 DEF vars, account
<1>6. ASSUME NEW j \in Jobs, Arrive(j) PROVE TotpProven'
  BY <1>1, <1>6 DEF Arrive, Request, Login, Logout, UserLogout, CreateChallenge, Verify, Limited,
                    Serve, account
<1>7. ASSUME NEW j \in Jobs, Continue(j) PROVE TotpProven'
  <2>1. CASE ReadTokens(j) \/ ReadUser(j) \/ SetCookie(j) \/ ReadClient(j) \/ Erase(j)
    BY <1>1, <2>1 DEF ReadTokens, ReadUser, SetCookie, ReadClient, Erase, account
  <2>2. CASE UpdatePassword(j) \/ NoCode(j) \/ CreateToken(j) \/ DeleteToken(j) \/ View(j)
             \/ Generate(j)
    BY <1>1, <2>2 DEF UpdatePassword, NoCode, CreateToken, DeleteToken, View, Generate, account
  <2> QED BY <1>2, <1>3, <1>4, <1>7, <2>1, <2>2 DEF Continue, Act
<1>8. CASE PatchEnabled \/ PatchPassword \/ CronRead \/ CronDelete \/ Tick \/ ExpireLink
           \/ ExpireToken \/ Restart
  BY <1>1, <1>8 DEF PatchEnabled, PatchPassword, CronRead, CronDelete, Tick, ExpireLink,
                    ExpireToken, Restart, account
<1> QED BY <1>5, <1>6, <1>7, <1>8 DEF Next

\* No login asks for the code of a key its owner never had shown a code for.
THEOREM TotpIsProven == Spec => []TotpProven
<1>1. Init => TotpProven
  BY DEF Init, TotpProven
<1> QED BY <1>1, TotpStep, PTL DEF Spec

-----------------------------------------------------------------------------
(* Challenges: one that was compared is used, or gone.                     *)
OneAnswer ==
  /\ \A c, d \in challenges : c.id = d.id => c = d
  /\ \A c \in challenges : compared[c.id] = 0 \/ c.used
  /\ \A c \in Asked : compared[c] \in {0, 1} /\ (c > asked => compared[c] = 0)

\* Of the answers of the last minute, those of this process are in its list, no
\* process has looked at more than the limit, and those of the processes to come
\* are none.
Tries(boot) == {a \in tries : a.boot = boot}
Counted ==
  /\ \A a \in tries : a.boot <= restarts
  /\ Tries(restarts) \subseteq attempts
  /\ \A boot \in Nat : IsFiniteSet(Tries(boot)) /\ Cardinality(Tries(boot)) <= MaxAttempts

AnswerInv == TypeInv /\ OneAnswer /\ Counted

LEMMA AnswerStep == AnswerInv /\ [Next]_vars => OneAnswer'
<1> SUFFICES ASSUME AnswerInv, [Next]_vars PROVE OneAnswer'
  OBVIOUS
<1> USE DEF AnswerInv, TypeInv
<1>0. /\ challenges \subseteq [id : 1 .. asked, age : 0 .. Minute + 1, used : BOOLEAN]
      /\ asked \in 0 .. MaxChallenges /\ compared \in [Asked -> Nat] /\ 1 .. asked \subseteq Asked
  BY Bounds DEF TypeOK, Asked
<1>1. CASE UNCHANGED <<challenges, asked, compared>>
  BY <1>1 DEF OneAnswer
<1>2. ASSUME NEW j \in Jobs, CreateChallenge(j) PROVE OneAnswer'
  <2> DEFINE new == [id |-> asked + 1, age |-> 0, used |-> FALSE]
  <2>1. /\ asked' = asked + 1 /\ asked < MaxChallenges /\ compared' = compared
        /\ challenges' = Fresh(challenges) \union {new}
    BY <1>2 DEF CreateChallenge
  <2>2. Fresh(challenges) \subseteq challenges
    BY DEF Fresh
  <2>3. \A c \in challenges : c.id \in 1 .. asked /\ c.id # asked + 1
    BY <1>0
  <2>4. asked + 1 \in Asked /\ asked + 1 > asked /\ new.id = asked + 1
    BY <1>0, <2>1, Bounds DEF Asked
  <2>5. \A c, d \in challenges' : c.id = d.id => c = d
    BY <2>1, <2>2, <2>3, <2>4 DEF OneAnswer
  <2>6. compared[new.id] = 0
    BY <2>4 DEF OneAnswer
  <2>7. \A c \in challenges' : compared'[c.id] = 0 \/ c.used
    BY <2>1, <2>2, <2>6 DEF OneAnswer
  <2>8. \A c \in Asked : compared'[c] \in {0, 1} /\ (c > asked' => compared'[c] = 0)
    BY <1>0, <2>1, Bounds DEF OneAnswer, Asked
  <2> QED BY <2>5, <2>7, <2>8 DEF OneAnswer
<1>3. ASSUME NEW j \in Jobs, Verify(j) PROVE OneAnswer'
  <2>1. PICK id \in 0 .. asked, good \in BOOLEAN :
          LET open == {c \in Fresh(challenges) : c.id = id /\ ~c.used} IN
          /\ challenges' = (Fresh(challenges) \ open)
                           \union {[c EXCEPT !.used = UsedUp(good)] : c \in open}
          /\ compared' = IF open = {} THEN compared ELSE [compared EXCEPT ![id] = @ + 1]
    BY <1>3 DEF Verify
  <2> DEFINE open == {c \in Fresh(challenges) : c.id = id /\ ~c.used}
             Closed(c) == [c EXCEPT !.used = UsedUp(good)]
  <2>2. asked' = asked
    BY <1>3 DEF Verify
  <2>3. Fresh(challenges) \subseteq challenges /\ open \subseteq challenges
    BY DEF Fresh
  <2>4. \A c \in open : /\ c.id = id /\ ~c.used /\ id \in Asked /\ id <= asked
                        /\ Closed(c).id = id /\ Closed(c).used
    BY <1>0, <2>3 DEF UsedUp
  <2>5. \A c, d \in open : c = d
    BY <2>3, <2>4 DEF OneAnswer
  <2>6. \A c \in challenges' :
          \/ c \in Fresh(challenges) \ open
          \/ \E d \in open : c = Closed(d)
    BY <2>1
  <2>7. \A c \in Fresh(challenges) \ open, d \in open : c.id # d.id
    BY <2>3 DEF OneAnswer
  <2>11. compared' = IF open = {} THEN compared ELSE [compared EXCEPT ![id] = @ + 1]
    BY <2>1
  <2> HIDE DEF open, Closed
  <2>8. \A c, d \in challenges' : c.id = d.id => c = d
    BY <2>3, <2>4, <2>5, <2>6, <2>7 DEF OneAnswer
  <2>9. CASE open = {}
    BY <2>2, <2>3, <2>6, <2>8, <2>9, <2>11 DEF OneAnswer
  <2>10. CASE open # {}
    <3>1. id \in Asked /\ id <= asked /\ compared[id] = 0
      BY <2>3, <2>4, <2>10 DEF OneAnswer
    <3>2. compared'[id] = 1 /\ \A i \in Asked : i # id => compared'[i] = compared[i]
      BY <1>0, <2>10, <2>11, <3>1
    <3>3. \A i \in Asked : compared'[i] \in {0, 1} /\ (i > asked' => compared'[i] = 0)
      BY <1>0, <2>2, <3>1, <3>2 DEF OneAnswer, Asked
    <3>4. \A c \in Fresh(challenges) \ open : c.id \in Asked /\ c.id # id
      BY <1>0, <2>3, <2>4, <2>7, <2>10
    <3>5. \A c \in challenges' : compared'[c.id] = 0 \/ c.used
      BY <2>3, <2>4, <2>6, <3>2, <3>4 DEF OneAnswer
    <3> QED BY <2>8, <3>3, <3>5 DEF OneAnswer
  <2> QED BY <2>9, <2>10
<1>4. CASE Tick
  <2> DEFINE Aged(c) == [c EXCEPT !.age = IF @ <= Minute THEN @ + 1 ELSE @]
  <2>1. challenges' = {Aged(c) : c \in challenges} /\ UNCHANGED <<asked, compared>>
    BY <1>4 DEF Tick
  <2>2. \A c \in challenges : Aged(c).id = c.id /\ Aged(c).used = c.used
    BY <1>0
  <2> HIDE DEF Aged
  <2>3. \A c, d \in challenges' : c.id = d.id => c = d
    BY <2>1, <2>2 DEF OneAnswer
  <2> QED BY <2>1, <2>2, <2>3 DEF OneAnswer
<1>5. CASE Restart
  BY <1>5 DEF Restart, OneAnswer
<1>6. CASE UNCHANGED vars
  BY <1>1, <1>6 DEF vars, memory
<1>7. ASSUME NEW j \in Jobs, Arrive(j) PROVE OneAnswer'
  BY <1>1, <1>2, <1>3, <1>7 DEF Arrive, Request, Login, Logout, UserLogout, Limited, Serve, memory
<1>8. ASSUME NEW j \in Jobs, Continue(j) PROVE OneAnswer'
  <2>1. CASE ReadTokens(j) \/ ReadUser(j) \/ SetCookie(j) \/ ReadClient(j) \/ Erase(j)
    BY <1>1, <2>1 DEF ReadTokens, ReadUser, SetCookie, ReadClient, Erase, memory
  <2>2. CASE UpdatePassword(j) \/ NoCode(j) \/ CreateToken(j) \/ DeleteToken(j) \/ View(j)
             \/ Generate(j)
    BY <1>1, <2>2 DEF UpdatePassword, NoCode, CreateToken, DeleteToken, View, Generate, memory
  <2>3. CASE UpdateTotpKey(j) \/ VerifyTotp(j) \/ DeleteTotpKey(j)
    BY <1>1, <2>3 DEF UpdateTotpKey, VerifyTotp, DeleteTotpKey, memory
  <2> QED BY <1>8, <2>1, <2>2, <2>3 DEF Continue, Act
<1>9. CASE PatchEnabled \/ PatchPassword \/ CronRead \/ CronDelete \/ ExpireLink \/ ExpireToken
  BY <1>1, <1>9 DEF PatchEnabled, PatchPassword, CronRead, CronDelete, ExpireLink, ExpireToken,
                    memory
<1> QED BY <1>4, <1>5, <1>6, <1>7, <1>8, <1>9 DEF Next

\* The parts of a set that is bounded are bounded.
LEMMA PartBounded ==
    ASSUME NEW S, IsFiniteSet(S), Cardinality(S) <= MaxAttempts, NEW T \in SUBSET S
    PROVE  IsFiniteSet(T) /\ Cardinality(T) <= MaxAttempts
<1>1. IsFiniteSet(T) /\ Cardinality(T) <= Cardinality(S)
  BY FS_Subset
<1> QED BY <1>1, FS_CardinalityType, Bounds

LEMMA CountedStep == AnswerInv /\ [Next]_vars => Counted'
<1> SUFFICES ASSUME AnswerInv, [Next]_vars PROVE Counted'
  OBVIOUS
<1>0. TypeInv /\ Counted /\ restarts \in Nat /\ \A a \in tries : a.boot \in Nat /\ a.age < Minute
  BY Bounds DEF AnswerInv, TypeInv, TypeOK
<1>1. TypeInv'
  BY <1>0, TypeStep
<1>2. IsFiniteSet(attempts') /\ Cardinality(attempts') <= MaxAttempts
  BY <1>1 DEF TypeInv, TypeOK, Attempts
<1>3. CASE UNCHANGED <<attempts, tries, restarts>>
  BY <1>0, <1>3 DEF Counted, Tries
<1>4. ASSUME NEW j \in Jobs, Verify(j) PROVE Counted'
  <2>1. attempts' = Recent \union {Now} /\ tries' = tries \union {Now} /\ restarts' = restarts
    BY <1>4 DEF Verify, Count
  <2>2. Now.boot = restarts
    BY DEF Now
  <2>3. \A a \in tries' : a.boot <= restarts'
    BY <1>0, <2>1, <2>2 DEF Counted
  <2>4. Tries(restarts)' \subseteq attempts'
    BY <1>0, <2>1 DEF Counted, Tries, Recent
  <2>5. ASSUME NEW boot \in Nat
        PROVE  IsFiniteSet(Tries(boot)') /\ Cardinality(Tries(boot)') <= MaxAttempts
    <3>1. CASE boot = restarts
      <4>1. Tries(boot)' \in SUBSET attempts'
        BY <2>1, <2>4, <3>1 DEF Tries
      <4> QED BY <1>2, <4>1, PartBounded
    <3>2. CASE boot # restarts
      <4>1. Tries(boot)' = Tries(boot)
        BY <2>1, <2>2, <3>2 DEF Tries
      <4> QED BY <1>0, <4>1 DEF Counted
    <3> QED BY <3>1, <3>2
  <2> QED BY <2>3, <2>4, <2>5 DEF Counted, Tries
<1>5. ASSUME NEW j \in Jobs, Limited(j) PROVE Counted'
  <2>1. attempts' = Recent /\ UNCHANGED <<tries, restarts>>
    BY <1>5 DEF Limited, Count
  <2>2. Tries(restarts)' \subseteq attempts'
    BY <1>0, <2>1 DEF Counted, Tries, Recent
  <2> QED BY <1>0, <2>1, <2>2 DEF Counted, Tries
<1>6. CASE Tick
  <2>1. /\ attempts' = Older(attempts) /\ restarts' = restarts
        /\ tries' = {a \in Older(tries) : a.age < Minute}
    BY <1>6 DEF Tick, bounds
  <2>2. \A a \in tries : OneOlder(a).boot = a.boot
    BY <1>0 DEF OneOlder, TypeInv, TypeOK
  <2>3. \A boot \in Nat : Tries(boot)' \subseteq Older(Tries(boot))
    BY <2>1, <2>2 DEF Tries, Older, OneOlder
  <2>4. \A a \in tries' : a.boot <= restarts'
    BY <1>0, <2>1, <2>2 DEF Counted, Older, OneOlder
  <2>5. Tries(restarts)' \subseteq attempts'
    BY <1>0, <2>1, <2>3 DEF Counted, Older, Tries
  <2>6. ASSUME NEW boot \in Nat
        PROVE  IsFiniteSet(Tries(boot)') /\ Cardinality(Tries(boot)') <= MaxAttempts
    <3>1. IsFiniteSet(Tries(boot)) /\ Cardinality(Tries(boot)) <= MaxAttempts
      BY <1>0 DEF Counted
    <3>2. /\ IsFiniteSet(Older(Tries(boot)))
          /\ Cardinality(Older(Tries(boot))) <= Cardinality(Tries(boot))
      BY <3>1, OlderBounded
    <3>3. Cardinality(Older(Tries(boot))) <= MaxAttempts
      BY <3>1, <3>2, FS_CardinalityType, Bounds
    <3>4. Tries(boot)' \in SUBSET Older(Tries(boot))
      BY <2>3
    <3> QED BY <3>2, <3>3, <3>4, PartBounded
  <2> QED BY <2>4, <2>5, <2>6 DEF Counted, Tries
<1>7. CASE Restart
  <2>1. tries' = tries /\ restarts' = restarts + 1
    BY <1>7 DEF Restart
  <2>2. \A a \in tries : a.boot <= restarts' /\ a.boot # restarts'
    BY <1>0, <2>1 DEF Counted
  <2> QED BY <1>0, <2>1, <2>2 DEF Counted, Tries
<1>8. CASE UNCHANGED vars
  BY <1>3, <1>8 DEF vars, memory, bounds
<1>9. ASSUME NEW j \in Jobs, Arrive(j) PROVE Counted'
  BY <1>3, <1>4, <1>5, <1>9 DEF Arrive, Request, Login, Logout, UserLogout, CreateChallenge,
     Serve, Count, memory
<1>10. ASSUME NEW j \in Jobs, Continue(j) PROVE Counted'
  <2>1. CASE ReadTokens(j) \/ ReadUser(j) \/ SetCookie(j) \/ ReadClient(j) \/ Erase(j)
    BY <1>3, <2>1 DEF ReadTokens, ReadUser, SetCookie, ReadClient, Erase, memory, bounds
  <2>2. CASE UpdatePassword(j) \/ NoCode(j) \/ CreateToken(j) \/ DeleteToken(j) \/ View(j)
             \/ Generate(j)
    BY <1>3, <2>2 DEF UpdatePassword, NoCode, CreateToken, DeleteToken, View, Generate, memory,
                      bounds
  <2>3. CASE UpdateTotpKey(j) \/ VerifyTotp(j) \/ DeleteTotpKey(j)
    BY <1>3, <2>3 DEF UpdateTotpKey, VerifyTotp, DeleteTotpKey, memory, bounds
  <2> QED BY <1>10, <2>1, <2>2, <2>3 DEF Continue, Act
<1>11. CASE PatchEnabled \/ PatchPassword \/ CronRead \/ CronDelete \/ ExpireLink \/ ExpireToken
  BY <1>3, <1>11 DEF PatchEnabled, PatchPassword, CronRead, CronDelete, ExpireLink, ExpireToken,
                     Count, memory, bounds
<1> QED BY <1>6, <1>7, <1>8, <1>9, <1>10, <1>11 DEF Next

\* No challenge is answered twice, over restarts too, and of the answers of any
\* minute no process has looked at more than MaxAttempts.
THEOREM AnswersAreBounded == Spec => []AnswersBounded
<1>1. Init => OneAnswer /\ Counted
  <2> SUFFICES ASSUME Init PROVE OneAnswer /\ Counted
    OBVIOUS
  <2>1. OneAnswer
    BY Bounds DEF Init, OneAnswer, Asked
  <2>2. \A boot \in Nat : Tries(boot) = {}
    BY DEF Init, Tries
  <2>3. tries = {} /\ restarts \in Nat
    BY DEF Init
  <2> QED BY <2>1, <2>2, <2>3, FS_EmptySet, Bounds DEF Counted
<1>2. AnswerInv => AnswersBounded
  <2> SUFFICES ASSUME AnswerInv PROVE AnswersBounded
    OBVIOUS
  <2>1. \A c \in Asked : compared[c] <= 1
    BY DEF AnswerInv, OneAnswer
  <2>2. \A boot \in 0 .. restarts : boot \in Nat
    BY DEF AnswerInv, TypeInv, TypeOK
  <2> QED BY <2>1, <2>2 DEF AnswerInv, Counted, Tries, AnswersBounded
<1>3. AnswerInv /\ [Next]_vars => AnswerInv'
  BY AnswerStep, CountedStep, TypeStep DEF AnswerInv
<1>4. Init => AnswerInv
  BY <1>1, TypeInit DEF AnswerInv
<1> QED BY <1>2, <1>3, <1>4, PTL DEF Spec

-----------------------------------------------------------------------------
(* Who gets to a handler.  While a request is on its way, what is true now  *)
(* of its credential is among its facts; a token that was read as valid was *)
(* so when the request arrived, since no token becomes valid again.         *)
Active == {"token", "user", "act"}
Known(r) ==
  /\ enabled => "enabled" \in r.facts
  /\ r.cred.kind = "bearer" => /\ tokens[r.cred.token] # "none"
                               /\ tokens[r.cred.token] = "valid" => "token" \in r.facts
  /\ r.cred.kind = "basic" /\ r.cred.password = password => "password" \in r.facts
Entry(r) == r.at \in Active => /\ Known(r)
                               /\ r.at = "token" => r.cred.kind = "bearer"
                               /\ r.at = "user" /\ r.cred.kind = "bearer" => "token" \in r.facts
                               /\ r.at = "act" => Needs(r.cred) \subseteq r.facts
Admission == \A j \in Jobs : Entry(job[j])

EntryInv == TypeInv /\ Admission

\* A token that is not valid does not become so, and none is forgotten.
TokensKept == \A t \in Tokens : tokens[t] # "none" =>
                /\ tokens'[t] # "none"
                /\ tokens'[t] = "valid" => tokens[t] = "valid"

LEMMA CredentialOf ==
    ASSUME TypeInv, NEW j \in Jobs
    PROVE  /\ job[j] \in Job /\ job[j].cred \in Credential
           /\ job[j].cred.kind = "bearer" => job[j].cred.token \in Tokens
<1>1. job[j] \in Job /\ job[j].cred \in Credential
  BY DEF TypeInv, TypeOK, Job
<1> QED BY <1>1, CredentialType

\* A request that stays where it is and learns of what changes.
LEMMA Carried ==
    ASSUME EntryInv, NEW j \in Jobs, TokensKept,
           job'[j].cred = job[j].cred, job'[j].at = job[j].at, job[j].facts \subseteq job'[j].facts,
           job[j].at \in Active /\ enabled' => enabled \/ "enabled" \in job'[j].facts,
           job[j].at \in Active /\ job[j].cred.kind = "basic" /\ job[j].cred.password = password' =>
             job[j].cred.password = password \/ "password" \in job'[j].facts
    PROVE  Entry(job[j])'
<1>1. CASE job[j].at \notin Active
  BY <1>1 DEF Entry
<1>2. CASE job[j].at \in Active
  <2>1. Entry(job[j]) /\ Known(job[j])
    BY <1>2 DEF EntryInv, Admission, Entry
  <2>2. job[j].cred.kind = "bearer" => job[j].cred.token \in Tokens
    BY CredentialOf DEF EntryInv
  <2>3. Known(job[j])'
    BY <1>2, <2>1, <2>2 DEF Known, TokensKept
  <2>4. job[j].at = "act" => Needs(job'[j].cred) \subseteq job'[j].facts
    BY <1>2, <2>1 DEF Entry
  <2> QED BY <1>2, <2>1, <2>3, <2>4 DEF Entry
<1> QED BY <1>1, <1>2

\* A step of one request, of which the others see nothing.
LEMMA OneMoves ==
    ASSUME EntryInv, NEW j \in Jobs, TokensKept, enabled' = enabled, password' = password,
           \A k \in Jobs \ {j} : job'[k] = job[k],
           Entry(job[j])'
    PROVE  Admission'
<1>1. ASSUME NEW k \in Jobs \ {j} PROVE Entry(job[k])'
  BY <1>1, Carried
<1> QED BY <1>1 DEF Admission

LEMMA NothingMoves ==
    ASSUME EntryInv, TokensKept, enabled' = enabled, password' = password, job' = job
    PROVE  Admission'
<1>1. ASSUME NEW k \in Jobs PROVE Entry(job[k])'
  BY <1>1, Carried
<1> QED BY <1>1 DEF Admission

\* A request that ends, or goes on where no credential is looked at.
LEMMA EntryDone ==
    ASSUME EntryInv, NEW j \in Jobs, TokensKept, enabled' = enabled, password' = password,
           \/ Done(j)
           \/ \E at \in Stages \ Active : Goto(j, at)
    PROVE  Admission'
<1>1. job \in [Jobs -> Job]
  BY DEF EntryInv, TypeInv, TypeOK
<1>2. \A k \in Jobs \ {j} : job'[k] = job[k]
  BY <1>1 DEF Done, Goto
<1>3. job'[j].at \notin Active
  <2>1. CASE Done(j)
    BY <1>1, <2>1, IdleType DEF Done, Active
  <2>2. CASE \E at \in Stages \ Active : Goto(j, at)
    BY <1>1, <2>2 DEF Goto, Job
  <2> QED BY <2>1, <2>2
<1>4. Entry(job[j])'
  BY <1>3 DEF Entry
<1> QED BY <1>2, <1>4, OneMoves

LEMMA EntryRefused ==
    ASSUME EntryInv, NEW j \in Jobs, UNCHANGED account, job[j].at \in {"token", "user"}, Refused(j)
    PROVE  Admission'
<1>1. job \in [Jobs -> Job] /\ TokensKept /\ enabled' = enabled /\ password' = password
  BY DEF EntryInv, TypeInv, TypeOK, TokensKept, account
<1>2. CASE Done(j)
  BY <1>1, <1>2, EntryDone
<1>3. CASE job' = [job EXCEPT ![j].at = First(job[j].cred), ![j].again = TRUE]
  <2>1. \A k \in Jobs \ {j} : job'[k] = job[k]
    BY <1>1, <1>3
  <2>2. job'[j].at = First(job[j].cred) /\ job'[j].cred = job[j].cred /\ job'[j].facts = job[j].facts
    BY <1>1, <1>3 DEF Job
  <2>3. Known(job[j])
    BY DEF EntryInv, Admission, Entry, Active
  <2>4. Known(job[j])'
    BY <1>1, <2>2, <2>3 DEF Known, account
  <2>5. Entry(job[j])'
    BY <2>2, <2>4 DEF Entry, First
  <2> QED BY <1>1, <2>1, <2>5, OneMoves
<1> QED BY <1>2, <1>3 DEF Refused

LEMMA EntryArrive ==
    ASSUME EntryInv, NEW j \in Jobs, Arrive(j)
    PROVE  Admission'
<1>1. UNCHANGED account
  BY DEF Arrive, Request, Login, Logout, UserLogout, CreateChallenge, Verify, Limited, Serve
<1>2. job \in [Jobs -> Job] /\ TokensKept /\ enabled' = enabled /\ password' = password
  BY <1>1 DEF EntryInv, TypeInv, TypeOK, TokensKept, account
<1>3. CASE Request(j)
  <2>1. PICK op \in Ops, c \in Shown :
          job' = [job EXCEPT ![j] = [at |-> First(c), op |-> op, cred |-> c, again |-> FALSE,
                                     facts |-> Holding(c, enabled, password)]]
    BY <1>3 DEF Request
  <2>2. \A k \in Jobs \ {j} : job'[k] = job[k]
    BY <1>2, <2>1
  <2>3. job'[j].at = First(c) /\ job'[j].cred = c /\ job'[j].facts = Holding(c, enabled, password)
    BY <1>2, <2>1
  <2>4. c.kind = "bearer" => tokens[c.token] # "none"
    BY DEF Shown
  <2>5. Known(job[j])'
    BY <1>1, <2>3, <2>4 DEF Known, Holding, account
  <2>6. Entry(job[j])'
    BY <2>3, <2>5 DEF Entry, First
  <2> QED BY <1>2, <2>2, <2>6, OneMoves
<1>4. CASE Login(j) \/ Serve(j)
  <2>1. Goto(j, "adminCookie") \/ Goto(j, "erase")
    BY <1>4 DEF Login, Serve
  <2>2. {"adminCookie", "erase"} \subseteq Stages \ Active
    BY DEF Stages, Active
  <2> QED BY <1>2, <2>1, <2>2, EntryDone
<1>5. CASE Verify(j)
  <2>1. Goto(j, "client") \/ job' = job
    BY <1>5 DEF Verify
  <2>2. "client" \in Stages \ Active
    BY DEF Stages, Active
  <2> QED BY <1>2, <2>1, <2>2, EntryDone, NothingMoves
<1>6. CASE Logout(j) \/ UserLogout(j) \/ CreateChallenge(j) \/ Limited(j)
  <2>1. job' = job
    BY <1>6 DEF Logout, UserLogout, CreateChallenge, Limited
  <2> QED BY <1>2, <2>1, NothingMoves
<1> QED BY <1>3, <1>4, <1>5, <1>6 DEF Arrive

LEMMA EntryRead ==
    ASSUME EntryInv, NEW j \in Jobs, ReadTokens(j) \/ ReadUser(j)
    PROVE  Admission'
<1>1. UNCHANGED account
  BY DEF ReadTokens, ReadUser
<1>2. job \in [Jobs -> Job] /\ TokensKept /\ enabled' = enabled /\ password' = password
  BY <1>1 DEF EntryInv, TypeInv, TypeOK, TokensKept, account
<1>3. Entry(job[j])
  BY DEF EntryInv, Admission
<1>4. CASE Refused(j)
  BY <1>1, <1>4, EntryRefused DEF ReadTokens, ReadUser
<1>5. CASE Done(j)
  BY <1>2, <1>5, EntryDone
<1>6. CASE ReadTokens(j) /\ Listed(job[j].cred.token)
  <2>1. Goto(j, "user") /\ job[j].at = "token"
    BY <1>6 DEF ReadTokens
  <2>2. Known(job[j]) /\ job[j].cred.kind = "bearer" /\ "token" \in job[j].facts
    BY <1>3, <1>6, <2>1 DEF Entry, Known, Listed, Active
  <2>3. \A k \in Jobs \ {j} : job'[k] = job[k]
    BY <1>2, <2>1 DEF Goto
  <2>4. job'[j].at = "user" /\ job'[j].cred = job[j].cred /\ job'[j].facts = job[j].facts
    BY <1>2, <2>1 DEF Goto, Job
  <2>5. Known(job[j])'
    BY <1>1, <2>2, <2>4 DEF Known, account
  <2>6. Entry(job[j])'
    BY <2>2, <2>4, <2>5 DEF Entry
  <2> QED BY <1>2, <2>3, <2>6, OneMoves
<1>7. CASE ReadUser(j) /\ Admits(job[j].cred) /\ Goto(j, "act")
  <2>1. Known(job[j]) /\ (job[j].cred.kind = "bearer" => "token" \in job[j].facts)
    BY <1>3, <1>7 DEF ReadUser, Entry, Active
  <2>2. Needs(job[j].cred) \subseteq job[j].facts
    BY <1>7, <2>1 DEF Admits, Known, Needs
  <2>3. \A k \in Jobs \ {j} : job'[k] = job[k]
    BY <1>2, <1>7 DEF Goto
  <2>4. job'[j].at = "act" /\ job'[j].cred = job[j].cred /\ job'[j].facts = job[j].facts
    BY <1>2, <1>7 DEF Goto, Job
  <2>5. Known(job[j])'
    BY <1>1, <2>1, <2>4 DEF Known, account
  <2>6. Entry(job[j])'
    BY <2>2, <2>4, <2>5 DEF Entry
  <2> QED BY <1>2, <2>3, <2>6, OneMoves
<1> QED BY <1>4, <1>5, <1>6, <1>7 DEF ReadTokens, ReadUser

\* The account's row is written, and the requests on their way know.
LEMMA EntryTold ==
    ASSUME EntryInv, NEW jobs \in [Jobs -> Job], UNCHANGED tokens,
           \A k \in Jobs : jobs[k] = job[k] \/ jobs[k] = Idle,
           job' = Told(jobs, enabled', password')
    PROVE  Admission'
<1>1. TokensKept
  BY DEF TokensKept
<1>2. ASSUME NEW k \in Jobs PROVE Entry(job[k])'
  <2>1. /\ job'[k].at = jobs[k].at /\ job'[k].cred = jobs[k].cred /\ jobs[k].facts \subseteq job'[k].facts
        /\ jobs[k].at # "idle" => Holding(jobs[k].cred, enabled', password') \subseteq job'[k].facts
    BY ToldFacts
  <2>2. CASE jobs[k] = Idle
    BY <2>1, <2>2, IdleType DEF Entry, Active
  <2>3. CASE jobs[k] = job[k]
    <3>1. job[k].at \in Active => Holding(job[k].cred, enabled', password') \subseteq job'[k].facts
      BY <2>1, <2>3 DEF Active
    <3>2. job[k].at \in Active /\ enabled' => "enabled" \in job'[k].facts
      BY <3>1 DEF Holding
    <3>3. job[k].at \in Active /\ job[k].cred.kind = "basic" /\ job[k].cred.password = password' =>
            "password" \in job'[k].facts
      BY <3>1 DEF Holding
    <3> QED BY <1>1, <2>1, <2>3, <3>2, <3>3, Carried
  <2> QED BY <2>2, <2>3
<1> QED BY <1>2 DEF Admission

LEMMA EntryAct ==
    ASSUME EntryInv, NEW j \in Jobs, Act(j) \/ SetCookie(j) \/ ReadClient(j) \/ Erase(j)
    PROVE  Admission'
<1>1. job \in [Jobs -> Job] /\ tokens \in [Tokens -> {"none", "valid", "expired", "deleted"}]
  BY DEF EntryInv, TypeInv, TypeOK
<1>2. CASE UpdatePassword(j)
  <2>1. UNCHANGED tokens /\ enabled' = enabled /\ job' = Told([job EXCEPT ![j] = Idle], enabled', password')
    BY <1>2 DEF UpdatePassword
  <2>2. /\ [job EXCEPT ![j] = Idle] \in [Jobs -> Job]
        /\ \A k \in Jobs : \/ [job EXCEPT ![j] = Idle][k] = job[k]
                           \/ [job EXCEPT ![j] = Idle][k] = Idle
    BY <1>1, IdleType
  <2> QED BY <2>1, <2>2, EntryTold
<1>3. CASE CreateToken(j) \/ DeleteToken(j)
  <2>1. TokensKept
    BY <1>1, <1>3 DEF CreateToken, DeleteToken, TokensKept
  <2> QED BY <1>3, <2>1, EntryDone DEF CreateToken, DeleteToken
<1>4. CASE UpdateTotpKey(j) \/ VerifyTotp(j) \/ DeleteTotpKey(j)
  BY <1>4, EntryDone DEF UpdateTotpKey, VerifyTotp, DeleteTotpKey, TokensKept
<1>5. CASE NoCode(j) \/ View(j) \/ Generate(j) \/ SetCookie(j) \/ Erase(j)
  BY <1>5, EntryDone DEF NoCode, View, Generate, SetCookie, Erase, TokensKept, account
<1>6. CASE ReadClient(j)
  <2>1. "userCookie" \in Stages \ Active
    BY DEF Stages, Active
  <2> QED BY <1>6, <2>1, EntryDone DEF ReadClient, TokensKept, account
<1> QED BY <1>2, <1>3, <1>4, <1>5, <1>6 DEF Act

LEMMA EntryStep == EntryInv /\ [Next]_vars => Admission'
<1> SUFFICES ASSUME EntryInv, [Next]_vars PROVE Admission'
  OBVIOUS
<1>1. job \in [Jobs -> Job] /\ tokens \in [Tokens -> {"none", "valid", "expired", "deleted"}]
  BY DEF EntryInv, TypeInv, TypeOK
<1>2. CASE UNCHANGED vars \/ CronRead \/ CronDelete \/ Tick \/ ExpireLink
  <2>1. UNCHANGED account /\ job' = job
    BY <1>2 DEF vars, CronRead, CronDelete, Tick, ExpireLink
  <2> QED BY <2>1, NothingMoves DEF TokensKept, account
<1>3. CASE ExpireToken
  <2>1. TokensKept
    BY <1>1, <1>3 DEF ExpireToken, TokensKept
  <2> QED BY <1>3, <2>1, NothingMoves DEF ExpireToken
<1>4. CASE PatchEnabled \/ PatchPassword
  <2>1. UNCHANGED tokens /\ job' = Told(job, enabled', password')
    BY <1>4 DEF PatchEnabled, PatchPassword
  <2> QED BY <1>1, <2>1, EntryTold
<1>5. CASE Restart
  BY <1>5, IdleType DEF Restart, Admission, Entry, Active
<1>6. ASSUME NEW j \in Jobs, Arrive(j) \/ Continue(j) PROVE Admission'
  BY <1>6, EntryArrive, EntryRead, EntryAct DEF Continue
<1> QED BY <1>2, <1>3, <1>4, <1>5, <1>6 DEF Next

\* A handler runs for an account that was enabled, with a credential that was
\* good, at moments after the request had arrived.
THEOREM AdmittedHolds == Spec => []Admitted
<1>1. Init => Admission
  BY IdleType DEF Init, Admission, Entry, Active
<1>2. EntryInv => Admitted
  BY DEF EntryInv, Admission, Entry, Active, Admitted
<1>3. EntryInv /\ [Next]_vars => EntryInv'
  BY EntryStep, TypeStep DEF EntryInv
<1>4. Init => EntryInv
  BY <1>1, TypeInit DEF EntryInv
<1> QED BY <1>2, <1>3, <1>4, PTL DEF Spec
=============================================================================
