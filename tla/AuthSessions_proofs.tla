------------------------ MODULE AuthSessions_proofs -------------------------
(***************************************************************************)
(* Proofs about AuthSessions, for any number of requests, sessions, tokens *)
(* and versions.                                                           *)
(***************************************************************************)
EXTENDS AuthSessions, WellFoundedInduction, TLAPS

-----------------------------------------------------------------------------
(* The inductive invariant.                                                 *)

Exists(s) == session[s].status # "none"
Created(t) == token[t].status # "none"

(* Every credential belongs to a session and has the version that the session
   was created with: a refresh never moves a session to another version.    *)
TokenFits(t) ==
    Created(t) =>
        /\ token[t].session \in Sessions /\ Exists(token[t].session)
        /\ token[t].version = session[token[t].session].version
        /\ token[t].status = "consumed" =>
              token[t].next \in Tokens /\ Created(token[t].next)

StoresFit ==
    /\ \A t \in Tokens : TokenFits(t)
    /\ \A t \in held : Created(t)
    /\ \A c \in issued : Exists(c.session) /\ c.version = session[c.session].version
    /\ \A s \in Sessions : session[s].version <= user.version

(* The request works with a refresh token that the client presented.        *)
Presented(j) ==
    \/ j.at \in {"check", "lock", "create", "consume", "extend", "reuse"}
    \/ j.at = "user" /\ j.op = "refresh"

(* What a request remembers of the stores is still true of them, as far as it
   acts on it.                                                              *)
JobFits(j) ==
    /\ j.version <= user.version
    /\ Presented(j) => j.token \in held /\ j.session = token[j.token].session
    /\ j.at \in {"readToken", "writeToken"} => j.token \in held
    /\ j.at = "revoke" => j.token \in held \cup {0}
    /\ j.at \in {"revoke", "token", "readToken", "writeToken"} =>
          j.session \in Sessions /\ Exists(j.session)
    /\ j.at \in {"create", "consume", "writeToken"} =>
          /\ j.record.status # "none"
          /\ j.record.session = token[j.token].session
          /\ j.record.version = token[j.token].version
    /\ j.at \in {"consume", "extend"} =>
          j.next \in Tokens /\ Created(j.next) /\ token[j.next].session = j.session
    /\ j.at = "check" => session[j.session].version <= j.version
    /\ j.at \in {"lock", "create", "consume", "extend", "reuse", "token"} =>
          j.version = session[j.session].version

JobsFit == \A r \in Requests : JobFits(job[r])

(* An ended session is dead or behind the account's version, and what a
   sign-out of the other sessions still has to end is on its list.          *)
EndedFits(s) == Exists(s) /\ (session[s].version < user.version \/ ~Live(s))
LoopFits(j) ==
    j.at = "loop" => \A s \in j.goal : j.op = "others" /\ Exists(s) /\ (s \in j.todo \/ ~Live(s))

EndedIsDead ==
    "unindexed" \notin races =>
        /\ \A s \in ended : EndedFits(s)
        /\ \A r \in Requests : LoopFits(job[r])

(* A client has, or a rotation that went through will hand out, the token.  *)
Obtainable(t) ==
    \/ t \in held
    \/ \E u \in Tokens : token[u].status = "consumed" /\ token[u].next = t
    \/ \E r \in Requests : job[r].at = "extend" /\ job[r].next = t

Rotating(r) == job[r].at \in {"create", "consume"}

(* A session that is being signed in has no token and one sign-in.          *)
SignInIsFirst ==
    \A r \in Requests : job[r].at = "token" =>
        /\ \A t \in Tokens : Created(t) => token[t].session # job[r].session
        /\ \A q \in Requests : job[q].at = "token" /\ job[q].session = job[r].session => q = r

(* One line of tokens per session: while locks last, a token is rotated by one
   request, and it is then the only one of its session.                     *)
Rotatable(t) == token[t].status = "active" /\ Obtainable(t)
LockedRotations == \A r \in Requests : Rotating(r) => lock[job[r].token] = r
OneRotation ==
    \A r, q \in Requests :
        Rotating(r) /\ Rotating(q) /\ job[r].session = job[q].session => r = q
OneObtainable ==
    \A t, u \in Tokens :
        Rotatable(t) /\ Rotatable(u) /\ token[u].session = token[t].session => u = t
RotationsOfIt ==
    \A t \in Tokens, r \in Requests :
        Rotatable(t) /\ Rotating(r) /\ job[r].session = token[t].session => job[r].token = t

OneLine ==
    "lapse" \notin races => LockedRotations /\ OneRotation /\ OneObtainable /\ RotationsOfIt

SessionsInv == TypeOK /\ StoresFit /\ JobsFit /\ EndedIsDead /\ SignInIsFirst /\ OneLine

-----------------------------------------------------------------------------
(* Type correctness.  It needs what the requests know of the stores.        *)

(* The next identity is a new one.                                          *)
LEMMA FirstMember ==
  ASSUME NEW S, S \subseteq Nat, S # {}
  PROVE  First(S) \in S
<1>1. \E x \in S : \A y \in S : ~(<<y, x>> \in OpToRel(<, Nat))
  BY NatLessThanWellFounded, WFMin
<1>2. PICK x \in S : \A y \in S : ~(<<y, x>> \in OpToRel(<, Nat))
  BY <1>1
<1>3. \A y \in S : x <= y
  <2> SUFFICES ASSUME NEW y \in S, ~(x <= y) PROVE FALSE
    OBVIOUS
  <2>1. <<y, x>> \in Nat \X Nat /\ y < x
    OBVIOUS
  <2>2. <<y, x>> \in {ss \in Nat \X Nat : ss[1] < ss[2]}
    BY <2>1
  <2> QED
    BY <1>2, <2>2, Zenon DEF OpToRel
<1> QED
  BY <1>3 DEF First

(* The next session id is a session that does not exist yet.                *)
LEMMA NewSessionMember ==
  ASSUME NewSessions # {}
  PROVE  First(NewSessions) \in Sessions /\ session[First(NewSessions)].status = "none"
  BY FirstMember, SessionsAssumption DEF NewSessions, Sessions

(* The next token is one that was not created yet.                          *)
LEMMA NewTokenMember ==
  ASSUME NewTokens # {}
  PROVE  First(NewTokens) \in Tokens /\ token[First(NewTokens)].status = "none"
  BY FirstMember, SessionsAssumption DEF NewTokens, Tokens

(* Records of the stores and jobs have their types.                         *)
LEMMA NoTokenType == NoToken \in Token
  BY SessionsAssumption DEF NoToken, Token, Versions

(* An idle request has a job record.                                        *)
LEMMA IdleType == Idle \in Job
  BY NoTokenType, SessionsAssumption DEF Idle, Job, Versions, Statuses

(* The stores start with their types.                                       *)
LEMMA InitType == Init => TypeOK
<1> SUFFICES ASSUME Init PROVE TypeOK
  OBVIOUS
<1>1. user \in [status : Statuses, version : Versions]
  BY SessionsAssumption DEF Init, Statuses, Versions
<1>2. session \in [Sessions -> Session]
  BY SessionsAssumption DEF Init, NoSession, Session, Versions
<1>3. token \in [Tokens -> Token] /\ job \in [Requests -> Job]
  BY NoTokenType, IdleType DEF Init
<1>4. begun \in 0 .. MaxBegun
  BY SessionsAssumption DEF Init
<1> QED
  BY <1>1, <1>2, <1>3, <1>4 DEF Init, TypeOK

(* A request's job keeps its type, and no other request's job changes.      *)
OthersKept(r) == \A q \in Requests : q # r => job'[q] = job[q]

(* Going on changes one job.                                                *)
LEMMA GotoStep ==
  ASSUME TypeOK, NEW r \in Requests, NEW j \in Job, Goto(r, j)
  PROVE  job' \in [Requests -> Job] /\ job'[r] = j /\ OthersKept(r)
  BY DEF TypeOK, Goto, OthersKept

(* A finished request is idle.                                              *)
LEMMA FinishStep ==
  ASSUME TypeOK, NEW r \in Requests, Finish(r)
  PROVE  job' \in [Requests -> Job] /\ job'[r] = Idle /\ OthersKept(r)
  BY IdleType, GotoStep DEF Finish

(* A request begins one operation.                                          *)
LEMMA BeginStep ==
  ASSUME TypeOK, NEW r \in Requests, NEW op \in AllOperations, NEW j \in Job, Begin(r, op, j)
  PROVE  /\ job' \in [Requests -> Job] /\ job'[r] = [j EXCEPT !.op = op] /\ OthersKept(r)
         /\ begun' \in 0 .. MaxBegun
<1>1. [j EXCEPT !.op = op] \in Job
  BY DEF Job
<1>2. begun' \in 0 .. MaxBegun
  BY SessionsAssumption DEF Begin, TypeOK
<1> QED
  BY <1>1, <1>2, GotoStep DEF Begin

(* The scripts keep the types of the session records and the index.         *)
LEMMA UpdateType ==
  ASSUME TypeOK, NEW s \in Sessions, NEW v \in Versions, UpdateIndexedSession(s, v)
  PROVE  session' \in [Sessions -> Session] /\ index' \subseteq Sessions
  BY DEF TypeOK, UpdateIndexedSession, Session

(* Revoking a session writes a session and its index.                       *)
LEMMA RevokeType ==
  ASSUME TypeOK, NEW s \in Sessions, RevokeKnownSession(s)
  PROVE  session' \in [Sessions -> Session] /\ index' \subseteq Sessions
  BY DEF TypeOK, RevokeKnownSession, Session

(* Rotating the version of the account.                                     *)
LEMMA RotateType ==
  ASSUME TypeOK, RotateTokenVersion
  PROVE  /\ user' \in [status : Statuses, version : Versions] /\ ended' \subseteq Sessions
         /\ user'.version = user.version + 1 /\ user'.status = user.status
<1>1. user.version + 1 \in Versions
  BY SessionsAssumption DEF TypeOK, RotateTokenVersion, Versions
<1> QED
  BY <1>1 DEF TypeOK, RotateTokenVersion, SessionsToEnd

(* Returning a rotation lock.                                               *)
LEMMA LeaveType ==
  ASSUME TypeOK, NEW r \in Requests, Leave(r)
  PROVE  lock' \in [Tokens -> Requests \cup {Nobody}]
  BY DEF TypeOK, Leave

(* What a request knows of the session and tokens it is about.              *)
LEMMA JobFacts ==
  ASSUME TypeOK, StoresFit, JobsFit, NEW r \in Requests
  PROVE  /\ job[r] \in Job
         /\ Presented(job[r]) => job[r].token \in Tokens /\ job[r].session \in Sessions
         /\ job[r].at \in {"readToken", "writeToken"} => job[r].token \in Tokens
         /\ job[r].at \in {"consume", "extend"} => job[r].next \in Tokens
         /\ job[r].at \in {"revoke", "token"} => job[r].session \in Sessions
<1>1. job[r] \in Job /\ held \subseteq Tokens
  BY DEF TypeOK
<1>2. Presented(job[r]) => job[r].session \in Sessions
  BY <1>1 DEF StoresFit, TokenFits, JobsFit, JobFits
<1> QED
  BY <1>1, <1>2 DEF JobsFit, JobFits

(* Beginning an operation keeps the types.                                  *)
LEMMA BeginType ==
  ASSUME TypeOK, NEW r \in Requests, BeginJob(r)
  PROVE  TypeOK'
<1>1. CASE BeginLogin(r)
  <2>1. [Idle EXCEPT !.at = "session", !.version = user.version] \in Job
    BY IdleType DEF Job, TypeOK
  <2> QED
    BY <1>1, <2>1, BeginStep DEF BeginLogin, TypeOK, clients, AllOperations
<1>2. CASE BeginReset(r)
  <2>1. [Idle EXCEPT !.at = "lift"] \in Job
    BY IdleType DEF Job
  <2> QED
    BY <1>2, <2>1, BeginStep DEF BeginReset, TypeOK, clients, AllOperations
<1>3. ASSUME NEW t \in Tokens, BeginRefresh(r, t) PROVE TypeOK'
  <2>1. [Idle EXCEPT !.at = "user", !.token = t, !.session = token[t].session] \in Job
    BY IdleType DEF Job, TypeOK, Token
  <2> QED
    BY <1>3, <2>1, BeginStep DEF BeginRefresh, TypeOK, clients, AllOperations
<1>4. ASSUME NEW op \in {"logout", "one", "others", "all", "list", "change"}, NEW c \in issued,
             NEW s \in Sessions, NEW t \in Cookies(c.session), BeginRequest(r, op, c, s, t)
      PROVE  TypeOK'
  <2>1. c.session \in Sessions /\ c.version \in Versions /\ t \in Tokens \cup {0}
    BY DEF TypeOK, Credential, Cookies
  <2>2. FirstStep(op, t) \in {"revoke", "readToken", "list", "user"}
    BY DEF FirstStep
  <2>3. [Idle EXCEPT !.at = FirstStep(op, t), !.session = s, !.token = t,
                     !.version = c.version] \in Job
    BY <2>1, <2>2, IdleType DEF Job
  <2>4. session[c.session].version \in Versions
    BY <2>1 DEF TypeOK, Session
  <2>5. session' \in [Sessions -> Session] /\ index' \subseteq Sessions
    BY <1>4, <2>1, <2>4, UpdateType DEF BeginRequest, Authenticated
  <2>6. op \in AllOperations
    BY DEF AllOperations
  <2>7. job' \in [Requests -> Job] /\ begun' \in 0 .. MaxBegun
    BY <1>4, <2>3, <2>6, BeginStep DEF BeginRequest
  <2> QED
    BY <1>4, <2>5, <2>7 DEF BeginRequest, TypeOK, clients
<1>5. ASSUME NEW op \in {"lock", "suspend"}, NEW status \in {"locked", "suspended"},
             Restrict(r, op, status)
      PROVE  TypeOK'
  <2>1. [Idle EXCEPT !.at = "list"] \in Job
    BY IdleType DEF Job
  <2>2. user' \in [status : Statuses, version : Versions] /\ ended' \subseteq Sessions
    <3>1. user.version + 1 \in Versions
      BY <1>5, SessionsAssumption DEF Restrict, UpdateAccountStatus, TypeOK, Versions
    <3> QED
      BY <1>5, <3>1 DEF Restrict, UpdateAccountStatus, TypeOK, Statuses, SessionsToEnd
  <2>3. op \in AllOperations
    BY DEF AllOperations
  <2>4. job' \in [Requests -> Job] /\ begun' \in 0 .. MaxBegun
    BY <1>5, <2>1, <2>3, BeginStep DEF Restrict
  <2> QED
    BY <1>5, <2>2, <2>4 DEF Restrict, TypeOK, clients
<1> QED
  BY <1>1, <1>2, <1>3, <1>4, <1>5 DEF BeginJob

(* A sign-in and the steps of a refresh keep the types.                     *)
LEMMA RefreshType ==
  ASSUME TypeOK, StoresFit, JobsFit, NEW r \in Requests,
         \/ CreateSession(r) \/ CreateToken(r) \/ ReadUser(r) \/ CheckRotation(r)
         \/ EnterRotation(r) \/ CreateNext(r) \/ ConsumeToken(r) \/ ExtendSession(r)
         \/ PunishReuse(r)
  PROVE  TypeOK'
<1> DEFINE j == job[r]
<1>0. /\ j \in Job
      /\ Presented(j) => j.token \in Tokens /\ j.session \in Sessions
      /\ j.at \in {"consume", "extend"} => j.next \in Tokens
      /\ j.at \in {"revoke", "token"} => j.session \in Sessions
  BY JobFacts
<1>1. CASE CreateSession(r)
  <2> DEFINE s == First(NewSessions)
  <2>1. s \in Sessions
    BY <1>1, NewSessionMember DEF CreateSession
  <2>2. [j EXCEPT !.at = "token", !.session = s] \in Job
    BY <1>0, <2>1 DEF Job
  <2>3. [status |-> "active", version |-> j.version] \in Session
    BY <1>0 DEF Job, Session
  <2>4. session' \in [Sessions -> Session]
    BY <1>1, <2>1, <2>3 DEF CreateSession, TypeOK
  <2>5. index' \subseteq Sessions /\ ended' \subseteq Sessions
    BY <1>1, <2>1 DEF CreateSession, TypeOK
  <2> QED
    BY <1>1, <2>2, <2>4, <2>5, GotoStep DEF CreateSession, TypeOK, clients
<1>2. CASE CreateToken(r)
  <2> DEFINE t == First(NewTokens)
  <2>1. t \in Tokens
    BY <1>2, NewTokenMember DEF CreateToken
  <2>2. NewToken(j.session, j.version) \in Token
    BY <1>0, NoTokenType DEF NewToken, Token, Job
  <2>3. token' \in [Tokens -> Token]
    BY <1>2, <2>1, <2>2 DEF CreateToken, TypeOK
  <2>4. [session |-> j.session, version |-> j.version] \in Credential
    BY <1>0, <1>2 DEF CreateToken, Credential, Job
  <2> QED
    BY <1>2, <2>1, <2>3, <2>4, FinishStep DEF CreateToken, TypeOK
<1>3. CASE ReadUser(r)
  <2>1. [j EXCEPT !.at = "check", !.version = user.version] \in Job
    BY <1>0 DEF Job, TypeOK
  <2> QED
    BY <1>3, <2>1, GotoStep DEF ReadUser, TypeOK, clients
<1>4. CASE CheckRotation(r)
  <2>1. [j EXCEPT !.at = "lock"] \in Job
    BY <1>0 DEF Job
  <2>2. job' \in [Requests -> Job]
    BY <1>4, <2>1, GotoStep, FinishStep DEF CheckRotation
  <2> QED
    BY <1>4, <2>2 DEF CheckRotation, TypeOK, clients
<1>5. CASE EnterRotation(r)
  <2> DEFINE record == token[j.token]
  <2>1. j.token \in Tokens /\ j.session \in Sessions
    BY <1>0, <1>5 DEF EnterRotation, Presented
  <2>2. record \in Token
    BY <2>1 DEF TypeOK
  <2>3. /\ [j EXCEPT !.at = "create", !.record = record] \in Job
        /\ [j EXCEPT !.at = "reuse", !.record = record] \in Job
    BY <1>0, <2>2 DEF Job
  <2>4. job' \in [Requests -> Job]
    BY <1>5, <2>3, GotoStep, FinishStep DEF EnterRotation
  <2>5. lock' \in [Tokens -> Requests \cup {Nobody}]
    BY <1>5 DEF EnterRotation, TypeOK
  <2>6. record.status = "consumed" => record.next \in Tokens
    BY <2>1 DEF StoresFit, TokenFits, Created
  <2>7. [session |-> j.session, version |-> j.version] \in Credential
    BY <1>0, <2>1 DEF Credential, Job
  <2>8. issued' \subseteq Credential /\ held' \subseteq Tokens
    BY <1>5, <2>6, <2>7 DEF EnterRotation, Deliver, clients, TypeOK
  <2> QED
    BY <1>5, <2>4, <2>5, <2>8 DEF EnterRotation, TypeOK
<1>6. CASE CreateNext(r)
  <2> DEFINE t == First(NewTokens)
  <2>1. t \in Tokens
    BY <1>6, NewTokenMember DEF CreateNext
  <2>2. NewToken(j.session, j.version) \in Token
    BY <1>0, NoTokenType DEF NewToken, Token, Job
  <2>3. [j EXCEPT !.at = "consume", !.next = t] \in Job
    BY <1>0, <2>1 DEF Job
  <2>4. token' \in [Tokens -> Token]
    BY <1>6, <2>1, <2>2 DEF CreateNext, TypeOK
  <2> QED
    BY <1>6, <2>3, <2>4, GotoStep DEF CreateNext, TypeOK, clients
<1>7. CASE ConsumeToken(r)
  <2>1. [j.record EXCEPT !.status = "consumed", !.next = j.next, !.grace = TRUE] \in Token
    <3>1. j.record \in Token /\ j.next \in Tokens \cup {0}
      BY <1>0 DEF Job
    <3> QED
      BY <3>1 DEF Token
  <2>2. [j EXCEPT !.at = "extend"] \in Job
    BY <1>0 DEF Job
  <2>3. token' \in [Tokens -> Token]
    BY <1>7, <2>1 DEF ConsumeToken, TypeOK
  <2> QED
    BY <1>7, <2>2, <2>3, GotoStep DEF ConsumeToken, TypeOK, clients
<1>8. CASE ExtendSession(r)
  <2>1. j.session \in Sessions /\ j.version \in Versions /\ j.next \in Tokens
    BY <1>0, <1>8 DEF ExtendSession, Presented, Job
  <2>2. session' \in [Sessions -> Session] /\ index' \subseteq Sessions
    BY <1>8, <2>1, UpdateType DEF ExtendSession, TypeOK
  <2>3. [session |-> j.session, version |-> j.version] \in Credential
    BY <2>1 DEF Credential
  <2>4. issued' \subseteq Credential /\ held' \subseteq Tokens
    BY <1>8, <2>1, <2>3 DEF ExtendSession, Deliver, clients, TypeOK
  <2> QED
    BY <1>8, <2>2, <2>4, LeaveType, FinishStep DEF ExtendSession, TypeOK
<1>9. CASE PunishReuse(r)
  <2>1. j.session \in Sessions
    BY <1>0, <1>9 DEF PunishReuse, Presented
  <2>2. [j EXCEPT !.at = "list"] \in Job
    BY <1>0 DEF Job
  <2>3. CASE RotateTokenVersion /\ Goto(r, [j EXCEPT !.at = "list"])
             /\ UNCHANGED <<session, index, lock>>
    BY <1>9, <2>2, <2>3, RotateType, GotoStep DEF PunishReuse, TypeOK, clients
  <2>4. CASE RevokeKnownSession(j.session) /\ ended' = ended \cup {j.session}
             /\ Leave(r) /\ Finish(r) /\ UNCHANGED user
    BY <1>9, <2>1, <2>4, RevokeType, LeaveType, FinishStep DEF PunishReuse, TypeOK, clients
  <2> QED
    BY <1>9, <2>3, <2>4 DEF PunishReuse
<1> QED
  BY <1>1, <1>2, <1>3, <1>4, <1>5, <1>6, <1>7, <1>8, <1>9

(* The sign-out operations, the passwords and a crash keep the types.       *)
LEMMA SignOutType ==
  ASSUME TypeOK, StoresFit, JobsFit, NEW r \in Requests,
         \/ RevokeSession(r) \/ ReadToken(r) \/ WriteToken(r) \/ ListSessions(r)
         \/ ListToRevoke(r) \/ EndLoop(r) \/ (\E s \in Sessions : RevokeListed(r, s))
         \/ LiftSecurityHold(r) \/ ReadAccount(r) \/ Rotate(r) \/ Crash(r)
  PROVE  TypeOK'
<1> DEFINE j == job[r]
<1>0. /\ j \in Job
      /\ j.at \in {"readToken", "writeToken"} => j.token \in Tokens
      /\ j.at = "revoke" => j.session \in Sessions
  BY JobFacts
<1>1. CASE RevokeSession(r)
  <2>1. [j EXCEPT !.at = "readToken"] \in Job
    BY <1>0 DEF Job
  <2>2. job' \in [Requests -> Job]
    BY <1>1, <2>1, GotoStep, FinishStep DEF RevokeSession
  <2>3. /\ session' \in [Sessions -> Session] /\ index' \subseteq Sessions
        /\ ended' \subseteq Sessions
    BY <1>0, <1>1, RevokeType DEF RevokeSession, TypeOK
  <2> QED
    BY <1>1, <2>2, <2>3 DEF RevokeSession, TypeOK, clients
<1>2. CASE ReadToken(r)
  <2>1. token[j.token] \in Token
    BY <1>0, <1>2 DEF ReadToken, TypeOK
  <2>2. [j EXCEPT !.at = "writeToken", !.record = token[j.token]] \in Job
    BY <1>0, <2>1 DEF Job
  <2> QED
    BY <1>2, <2>2, GotoStep DEF ReadToken, TypeOK, clients
<1>3. CASE WriteToken(r)
  <2>1. RevokedRecord(j.record) \in Token
    <3>1. j.record \in Token
      BY <1>0 DEF Job
    <3> QED
      BY <3>1 DEF RevokedRecord, Token
  <2>2. [j EXCEPT !.at = "revoke", !.record = NoToken] \in Job
    BY <1>0, NoTokenType DEF Job
  <2>3. job' \in [Requests -> Job]
    BY <1>3, <2>2, GotoStep, FinishStep DEF WriteToken
  <2>4. token' \in [Tokens -> Token]
    BY <1>3, <2>1 DEF WriteToken, TypeOK
  <2> QED
    BY <1>3, <2>3, <2>4 DEF WriteToken, TypeOK, clients
<1>4. CASE ListSessions(r)
  <2>1. [j EXCEPT !.at = "rotate"] \in Job
    BY <1>0 DEF Job
  <2>2. job' \in [Requests -> Job]
    BY <1>4, <2>1, GotoStep, FinishStep DEF ListSessions
  <2> QED
    BY <1>4, <2>2 DEF ListSessions, Listed, TypeOK, clients
<1>5. CASE ListToRevoke(r)
  <2> DEFINE except == IF j.op = "others" THEN {j.session} ELSE {}
             others == {s \in Sessions : Usable([session |-> s, version |-> session[s].version])}
                       \ except
             goal == IF j.op = "others" THEN others ELSE {}
             todo == Listed(Versions) \ except
  <2>1. Listed(Versions) \subseteq Sessions
    BY DEF Listed, TypeOK
  <2>2. todo \in SUBSET Sessions /\ goal \in SUBSET Sessions
    BY <2>1
  <2>3. [j EXCEPT !.at = "loop", !.todo = todo, !.goal = goal] \in Job
    <3> HIDE DEF todo, goal
    <3> QED
      BY <1>0, <2>2 DEF Job
  <2>4. job' \in [Requests -> Job]
    BY <1>5, <2>3, GotoStep DEF ListToRevoke
  <2>5. races' \subseteq Races
    BY <1>5, SessionsAssumption DEF ListToRevoke, Happens, TypeOK
  <2> QED
    BY <1>5, <2>1, <2>4, <2>5 DEF ListToRevoke, TypeOK, clients
<1>6. CASE EndLoop(r)
  <2>1. ended' \subseteq Sessions
    BY <1>0, <1>6 DEF EndLoop, TypeOK, Job
  <2> QED
    BY <1>6, <2>1, LeaveType, FinishStep DEF EndLoop, TypeOK, clients
<1>7. ASSUME NEW s \in Sessions, RevokeListed(r, s) PROVE TypeOK'
  <2>1. [j EXCEPT !.todo = @ \ {s}] \in Job
    <3>1. j.todo \ {s} \in SUBSET Sessions
      BY <1>0 DEF Job
    <3> QED
      BY <1>0, <3>1 DEF Job
  <2> QED
    BY <1>7, <2>1, GotoStep, RevokeType DEF RevokeListed, TypeOK, clients
<1>8. CASE LiftSecurityHold(r)
  <2>1. [j EXCEPT !.at = "rotate"] \in Job
    BY <1>0 DEF Job
  <2>2. job' \in [Requests -> Job]
    BY <1>8, <2>1, GotoStep, FinishStep DEF LiftSecurityHold
  <2>3. user' \in [status : Statuses, version : Versions]
    BY <1>8 DEF LiftSecurityHold, TypeOK, Statuses
  <2> QED
    BY <1>8, <2>2, <2>3 DEF LiftSecurityHold, TypeOK, clients
<1>9. CASE ReadAccount(r)
  <2>1. [j EXCEPT !.at = "rotate", !.status = user.status] \in Job
    BY <1>0 DEF Job, TypeOK
  <2> QED
    BY <1>9, <2>1, GotoStep DEF ReadAccount, TypeOK, clients
<1>10. CASE Rotate(r)
  <2>1. user' \in [status : Statuses, version : Versions] /\ ended' \subseteq Sessions
    BY <1>10, RotateType DEF Rotate
  <2>2. /\ [j EXCEPT !.op = "everyone", !.at = "list"] \in Job
        /\ [j EXCEPT !.at = "session", !.version = user'.version] \in Job
    BY <1>0, <2>1 DEF Job, AllOperations
  <2>3. job' \in [Requests -> Job]
    BY <1>10, <2>2, GotoStep, FinishStep DEF Rotate
  <2> QED
    BY <1>10, <2>1, <2>3 DEF Rotate, TypeOK, clients
<1>11. CASE Crash(r)
  BY <1>11, LeaveType, FinishStep DEF Crash, TypeOK, clients
<1> QED
  BY <1>1, <1>2, <1>3, <1>4, <1>5, <1>6, <1>7, <1>8, <1>9, <1>10, <1>11

(* Reinstatement, time and lapsing locks keep the types.                    *)
LEMMA TimeType ==
  ASSUME TypeOK,
         \/ Reinstate \/ (\E s \in Sessions : SessionExpires(s))
         \/ (\E t \in Tokens : GracePasses(t) \/ LockLapses(t))
  PROVE  TypeOK'
<1>1. CASE Reinstate
  BY <1>1 DEF Reinstate, TypeOK, Statuses, clients
<1>2. ASSUME NEW s \in Sessions, SessionExpires(s) PROVE TypeOK'
  BY <1>2 DEF SessionExpires, TypeOK, Session, clients
<1>3. ASSUME NEW t \in Tokens, GracePasses(t) PROVE TypeOK'
  <2>1. [token[t] EXCEPT !.grace = FALSE] \in Token
    <3>1. token[t] \in Token
      BY DEF TypeOK
    <3> QED
      BY <3>1 DEF Token
  <2>2. token' \in [Tokens -> Token]
    BY <1>3, <2>1 DEF GracePasses, TypeOK
  <2> QED
    BY <1>3, <2>2 DEF GracePasses, TypeOK, clients
<1>4. ASSUME NEW t \in Tokens, LockLapses(t) PROVE TypeOK'
  BY <1>4, SessionsAssumption DEF LockLapses, Happens, TypeOK, clients
<1> QED
  BY <1>1, <1>2, <1>3, <1>4

(* Every step keeps the types.                                              *)
LEMMA NextType ==
  ASSUME TypeOK, StoresFit, JobsFit, [Next]_vars
  PROVE  TypeOK'
<1>1. CASE UNCHANGED vars
  BY <1>1 DEF vars, TypeOK
<1> QED
  BY <1>1, BeginType, RefreshType, SignOutType, TimeType DEF Next, JobStep

-----------------------------------------------------------------------------
(* What no step takes back.                                                 *)

(* A session keeps its version and stays dead; a token keeps its session and
   version and is not made active again.                                    *)
SessionsKept ==
    \A s \in Sessions : session[s].status # "none" =>
        /\ session'[s].status # "none" /\ session'[s].version = session[s].version
        /\ session[s].status # "active" => session'[s].status # "active"
TokensKept ==
    \A t \in Tokens : token[t].status # "none" =>
        /\ token'[t].status # "none"
        /\ token'[t].session = token[t].session /\ token'[t].version = token[t].version
        /\ token[t].status # "active" => token'[t].status # "active"
Grows ==
    /\ SessionsKept /\ TokensKept /\ user.version <= user'.version
    /\ held \subseteq held' /\ races \subseteq races'

(* Touching or extending a session rewrites its record as it is.            *)
LEMMA UpdateKeepsRecord ==
  ASSUME TypeOK, NEW s \in Sessions, Live(s), UpdateIndexedSession(s, session[s].version)
  PROVE  session' = session
<1>1. session[s] = [status |-> "active", version |-> session[s].version]
  BY DEF TypeOK, Session, Live
<1> QED
  BY <1>1 DEF UpdateIndexedSession, TypeOK

(* Revoking a session leaves the others alone.                              *)
LEMMA RevokeKeeps ==
  ASSUME TypeOK, NEW s \in Sessions, RevokeKnownSession(s)
  PROVE  /\ SessionsKept /\ session'[s].status # "active"
         /\ \A x \in Sessions : session'[x].status # "none" => session[x].status # "none"
  BY DEF TypeOK, Session, RevokeKnownSession, Live, SessionsKept

(* A new token takes an identity of its own.                                *)
LEMMA NewTokenKeeps ==
  ASSUME TypeOK, NEW t \in Tokens, token[t].status = "none", NEW new \in Token,
         new.status # "none", token' = [token EXCEPT ![t] = new]
  PROVE  TokensKept
  BY DEF TypeOK, TokensKept

(* Consuming and revoking write the record back as it was read.             *)
LEMMA WriteKeeps ==
  ASSUME TypeOK, NEW t \in Tokens, NEW new \in Token, new.status \in {"consumed", "revoked"},
         new.session = token[t].session, new.version = token[t].version,
         token' = [token EXCEPT ![t] = new]
  PROVE  TokensKept
  BY DEF TypeOK, TokensKept

(* Versions can be compared.                                                *)
LEMMA VersionsAreNumbers ==
  ASSUME TypeOK
  PROVE  /\ user.version \in Int
         /\ \A s \in Sessions : session[s].version \in Int
         /\ \A t \in Tokens : token[t].version \in Int
         /\ \A r \in Requests : job[r].version \in Int
  BY SessionsAssumption DEF TypeOK, Session, Token, Job, Versions

(* Every step only adds tokens, sessions and credentials, and never lowers
   a version.                                                               *)
LEMMA GrowsStep ==
  ASSUME TypeOK, StoresFit, JobsFit, [Next]_vars
  PROVE  Grows
<1> USE DEF clients
<1>0. user.version \in Int
  BY VersionsAreNumbers
<1>1. ASSUME UNCHANGED session PROVE SessionsKept
  BY <1>1 DEF SessionsKept
<1>2. ASSUME UNCHANGED token PROVE TokensKept
  BY <1>2 DEF TokensKept
<1>3. ASSUME NEW r \in Requests, BeginJob(r) PROVE Grows
  <2>1. CASE BeginLogin(r) \/ BeginReset(r) \/ \E t \in Tokens : BeginRefresh(r, t)
    <3>1. UNCHANGED <<user, session, token, held, races>>
      BY <2>1 DEF BeginLogin, BeginReset, BeginRefresh
    <3> QED
      BY <1>0, <1>1, <1>2, <3>1 DEF Grows
  <2>2. ASSUME NEW op \in {"logout", "one", "others", "all", "list", "change"}, NEW c \in issued,
               NEW s \in Sessions, NEW t \in Cookies(c.session), BeginRequest(r, op, c, s, t)
        PROVE  Grows
    <3>1. c.session \in Sessions
      BY DEF TypeOK, Credential
    <3>2. session' = session
      BY <2>2, <3>1, UpdateKeepsRecord DEF BeginRequest, Authenticated, Usable
    <3> QED
      BY <1>0, <1>1, <1>2, <2>2, <3>2 DEF BeginRequest, Grows
  <2>3. ASSUME NEW op, NEW status, Restrict(r, op, status) PROVE Grows
    <3>1. user'.version = user.version + 1
      BY <2>3 DEF Restrict, UpdateAccountStatus
    <3> QED
      BY <1>0, <1>1, <1>2, <2>3, <3>1 DEF Restrict, Grows
  <2> QED
    BY <1>3, <2>1, <2>2, <2>3 DEF BeginJob
<1>4. ASSUME NEW r \in Requests, JobStep(r) PROVE Grows
  <2> DEFINE j == job[r]
  <2>0. /\ j \in Job
        /\ Presented(j) => j.token \in Tokens /\ j.session \in Sessions
        /\ j.at \in {"readToken", "writeToken"} => j.token \in Tokens
        /\ j.at = "revoke" => j.session \in Sessions
    BY JobFacts
  <2>1. CASE \/ ReadUser(r) \/ CheckRotation(r) \/ ReadToken(r) \/ ListSessions(r)
             \/ EndLoop(r) \/ ReadAccount(r)
    BY <1>0, <1>1, <1>2, <2>1 DEF ReadUser, CheckRotation, ReadToken, ListSessions, EndLoop,
                                  ReadAccount, Grows
  <2>2. CASE CreateSession(r)
    <3>1. SessionsKept
      BY <2>2, NewSessionMember DEF CreateSession, TypeOK, SessionsKept
    <3> QED
      BY <1>0, <1>2, <2>2, <3>1 DEF CreateSession, Grows
  <2>3. CASE CreateToken(r) \/ CreateNext(r)
    <3>1. NewToken(j.session, j.version) \in Token /\ NewToken(j.session, j.version).status = "active"
      BY <2>0, NoTokenType DEF NewToken, Token, Job, NoToken
    <3>2. TokensKept
      BY <2>3, <3>1, NewTokenMember, NewTokenKeeps DEF CreateToken, CreateNext
    <3> QED
      BY <1>0, <1>1, <2>3, <3>2 DEF CreateToken, CreateNext, Grows
  <2>4. CASE EnterRotation(r)
    BY <1>0, <1>1, <1>2, <2>4 DEF EnterRotation, Deliver, Grows
  <2>5. CASE ConsumeToken(r)
    <3> DEFINE new == [j.record EXCEPT !.status = "consumed", !.next = j.next, !.grace = TRUE]
    <3>1. j.record \in Token /\ j.next \in Tokens \cup {0} /\ j.token \in Tokens
      BY <2>0, <2>5 DEF ConsumeToken, Job, Presented
    <3>2. /\ new \in Token /\ new.status = "consumed"
          /\ new.session = j.record.session /\ new.version = j.record.version
      BY <3>1 DEF Token
    <3>3. new.session = token[j.token].session /\ new.version = token[j.token].version
      BY <2>5, <3>2 DEF ConsumeToken, JobsFit, JobFits
    <3>4. token' = [token EXCEPT ![j.token] = new]
      BY <2>5 DEF ConsumeToken
    <3>5. TokensKept
      <4> HIDE DEF new
      <4> QED
        BY <3>1, <3>2, <3>3, <3>4, WriteKeeps
    <3> QED
      BY <1>0, <1>1, <2>5, <3>5 DEF ConsumeToken, Grows
  <2>6. CASE ExtendSession(r)
    <3>1. j.session \in Sessions /\ j.version = session[j.session].version
      BY <2>0, <2>6 DEF ExtendSession, Presented, JobsFit, JobFits
    <3>2. session' = session
      BY <2>6, <3>1, UpdateKeepsRecord DEF ExtendSession, UpdateApplies
    <3> QED
      BY <1>0, <1>1, <1>2, <2>6, <3>2 DEF ExtendSession, Deliver, Grows
  <2>7. CASE PunishReuse(r)
    <3>1. j.session \in Sessions
      BY <2>0, <2>7 DEF PunishReuse, Presented
    <3>2. SessionsKept
      BY <1>1, <2>7, <3>1, RevokeKeeps DEF PunishReuse
    <3>3. user.version <= user'.version
      BY <1>0, <2>7, RotateType DEF PunishReuse
    <3> QED
      BY <1>2, <2>7, <3>2, <3>3 DEF PunishReuse, Grows
  <2>8. CASE RevokeSession(r) \/ \E s \in Sessions : RevokeListed(r, s)
    <3>1. SessionsKept /\ UNCHANGED <<user, token, held, races>>
      <4>1. CASE RevokeSession(r)
        BY <2>0, <4>1, RevokeKeeps DEF RevokeSession
      <4>2. ASSUME NEW s \in Sessions, RevokeListed(r, s)
            PROVE  SessionsKept /\ UNCHANGED <<user, token, held, races>>
        BY <4>2, RevokeKeeps DEF RevokeListed
      <4> QED
        BY <2>8, <4>1, <4>2
    <3> QED
      BY <1>0, <1>2, <3>1 DEF Grows
  <2>9. CASE WriteToken(r)
    <3> DEFINE new == RevokedRecord(j.record)
    <3>1. j.record \in Token /\ j.token \in Tokens
      BY <2>0, <2>9 DEF WriteToken, Job
    <3>2. /\ new \in Token /\ new.status = "revoked"
          /\ new.session = j.record.session /\ new.version = j.record.version
      BY <3>1 DEF Token, RevokedRecord
    <3>3. new.session = token[j.token].session /\ new.version = token[j.token].version
      BY <2>9, <3>2 DEF WriteToken, JobsFit, JobFits
    <3>4. token' = [token EXCEPT ![j.token] = new]
      BY <2>9 DEF WriteToken
    <3>5. TokensKept
      <4> HIDE DEF new
      <4> QED
        BY <3>1, <3>2, <3>3, <3>4, WriteKeeps
    <3> QED
      BY <1>0, <1>1, <2>9, <3>5 DEF WriteToken, Grows
  <2>10. CASE ListToRevoke(r)
    BY <1>0, <1>1, <1>2, <2>10 DEF ListToRevoke, Happens, Grows
  <2>11. CASE LiftSecurityHold(r)
    <3>1. user'.version = user.version
      BY <2>11 DEF LiftSecurityHold, TypeOK
    <3> QED
      BY <1>0, <1>1, <1>2, <2>11, <3>1 DEF LiftSecurityHold, Grows
  <2>12. CASE Rotate(r)
    BY <1>0, <1>1, <1>2, <2>12, RotateType DEF Rotate, Grows
  <2> QED
    BY <1>4, <2>1, <2>2, <2>3, <2>4, <2>5, <2>6, <2>7, <2>8, <2>9, <2>10, <2>11, <2>12
       DEF JobStep
<1>5. CASE UNCHANGED vars \/ \E r \in Requests : Crash(r)
  BY <1>0, <1>1, <1>2, <1>5 DEF vars, Crash, Grows
<1>6. CASE Reinstate
  <2>1. user'.version = user.version
    BY <1>6 DEF Reinstate, TypeOK
  <2> QED
    BY <1>0, <1>1, <1>2, <1>6, <2>1 DEF Reinstate, Grows
<1>7. ASSUME NEW s \in Sessions, SessionExpires(s) PROVE Grows
  <2>1. SessionsKept
    BY <1>7 DEF SessionExpires, TypeOK, Session, SessionsKept
  <2> QED
    BY <1>0, <1>2, <1>7, <2>1 DEF SessionExpires, Grows
<1>8. ASSUME NEW t \in Tokens, GracePasses(t) PROVE Grows
  <2>1. TokensKept
    BY <1>8 DEF GracePasses, TypeOK, Token, TokensKept
  <2> QED
    BY <1>0, <1>1, <1>8, <2>1 DEF GracePasses, Grows
<1>9. ASSUME NEW t \in Tokens, LockLapses(t) PROVE Grows
  BY <1>0, <1>1, <1>2, <1>9 DEF LockLapses, Happens, Grows
<1> QED
  BY <1>3, <1>4, <1>5, <1>6, <1>7, <1>8, <1>9 DEF Next

-----------------------------------------------------------------------------
(* The stores agree, and so do the requests with them.                      *)

(* A token whose record stays, or is read back with the same next token, goes
   on fitting.                                                              *)
LEMMA TokenKept ==
  ASSUME TypeOK, StoresFit, Grows, NEW t \in Tokens, Created(t),
         token'[t].status = "consumed" =>
            token[t].status = "consumed" /\ token'[t].next = token[t].next
  PROVE  TokenFits(t)'
<1>1. TokenFits(t)
  BY DEF StoresFit
<1>2. token[t].session \in Sessions /\ Exists(token[t].session)
  BY <1>1 DEF TokenFits
<1>3. token'[t].session = token[t].session /\ token'[t].version = token[t].version
  BY DEF Grows, TokensKept, Created
<1>4. /\ session'[token[t].session].status # "none"
      /\ session'[token[t].session].version = session[token[t].session].version
  BY <1>2 DEF Grows, SessionsKept, Exists
<1>5. token'[t].status = "consumed" => token'[t].next \in Tokens /\ token'[token'[t].next].status # "none"
  BY <1>1 DEF TokenFits, Grows, TokensKept, Created
<1> QED
  BY <1>1, <1>2, <1>3, <1>4, <1>5 DEF TokenFits, Created, Exists

(* What StoresFit says of the access tokens and the account's version.      *)
LEMMA IssuedKept ==
  ASSUME TypeOK, StoresFit, Grows, NEW c \in issued
  PROVE  session'[c.session].status # "none" /\ c.version = session'[c.session].version
<1>1. c.session \in Sessions
  BY DEF TypeOK, Credential
<1> QED
  BY <1>1 DEF StoresFit, Grows, SessionsKept, Exists

(* A session is never ahead of its account.                                 *)
LEMMA VersionKept ==
  ASSUME TypeOK, TypeOK', StoresFit, Grows, NEW s \in Sessions,
         Exists(s) \/ session'[s] = session[s]
  PROVE  session'[s].version <= user'.version
<1>1. session'[s].version = session[s].version /\ session[s].version <= user.version
  BY DEF StoresFit, Grows, SessionsKept, Exists
<1>2. user.version \in Int /\ user'.version \in Int /\ session[s].version \in Int
  BY VersionsAreNumbers, SessionsAssumption DEF TypeOK, Versions
<1> QED
  BY <1>1, <1>2 DEF Grows

(* A step that touches neither tokens nor credentials.                      *)
LEMMA StoresQuiet ==
  ASSUME TypeOK, TypeOK', StoresFit, Grows, UNCHANGED <<token, held, issued>>,
         \A s \in Sessions : Exists(s) \/ session'[s] = session[s]
  PROVE  StoresFit'
<1>1. ASSUME NEW t \in Tokens PROVE TokenFits(t)'
  BY TokenKept DEF TokenFits, Created
<1>2. \A t \in held' : Created(t)'
  BY DEF StoresFit, Created
<1>3. \A c \in issued' : Exists(c.session)' /\ c.version = session'[c.session].version
  BY IssuedKept DEF Exists
<1>4. \A s \in Sessions : session'[s].version <= user'.version
  BY VersionKept
<1> QED
  BY <1>1, <1>2, <1>3, <1>4 DEF StoresFit

(* A request that the step leaves alone.                                    *)
LEMMA KeptJob ==
  ASSUME TypeOK, TypeOK', StoresFit, Grows, NEW q \in Requests, job'[q] = job[q], JobFits(job[q])
  PROVE  JobFits(job[q])'
<1> DEFINE j == job[q]
<1>1. j.version <= user'.version
  <2>1. user.version \in Int /\ user'.version \in Int /\ j.version \in Int
    BY VersionsAreNumbers, SessionsAssumption DEF TypeOK, Versions
  <2> QED
    BY <2>1 DEF JobFits, Grows
<1>2. \A t \in held : /\ t \in Tokens /\ t \in held' /\ token[t].session \in Sessions
                      /\ token'[t].session = token[t].session
                      /\ token'[t].version = token[t].version
  BY DEF TypeOK, StoresFit, TokenFits, Created, Grows, TokensKept
<1>3. \A t \in Tokens : Created(t) => token'[t].status # "none" /\ token'[t].session = token[t].session
  BY DEF Created, Grows, TokensKept
<1>4. \A s \in Sessions : Exists(s) =>
          session'[s].status # "none" /\ session'[s].version = session[s].version
  BY DEF Exists, Grows, SessionsKept
<1>5. Presented(j) => j.token \in held /\ j.session = token[j.token].session
                      /\ j.session \in Sessions /\ Exists(j.session)
  BY <1>2 DEF JobFits, StoresFit, TokenFits
<1>6. Presented(j) => /\ j.token \in held' /\ j.session = token'[j.token].session
                      /\ session'[j.session].version = session[j.session].version
  BY <1>2, <1>4, <1>5
<1>7. j.at = "token" => session'[j.session].version = session[j.session].version
  BY <1>4 DEF JobFits
<1>8. j.at \in {"create", "consume", "writeToken"} =>
          /\ j.record.status # "none" /\ j.record.session = token'[j.token].session
          /\ j.record.version = token'[j.token].version
  BY <1>2, <1>5 DEF JobFits, Presented
<1>9. j.at \in {"consume", "extend"} =>
          j.next \in Tokens /\ token'[j.next].status # "none" /\ token'[j.next].session = j.session
  BY <1>3 DEF JobFits
<1>10. j.at \in {"check", "lock", "create", "consume", "extend", "reuse"} => Presented(j)
  BY DEF Presented
<1>11. /\ j.at \in {"readToken", "writeToken"} => j.token \in held'
       /\ j.at = "revoke" => j.token \in held' \cup {0}
  BY <1>2 DEF JobFits
<1>12. j.at \in {"revoke", "token", "readToken", "writeToken"} =>
          j.session \in Sessions /\ session'[j.session].status # "none"
  BY <1>4 DEF JobFits
<1>13. j.at = "check" => session'[j.session].version <= j.version
  BY <1>6, <1>10 DEF JobFits
<1>14. j.at \in {"lock", "create", "consume", "extend", "reuse", "token"} =>
          j.version = session'[j.session].version
  BY <1>6, <1>7, <1>10 DEF JobFits
<1>15. job'[q] = j
  OBVIOUS
<1>16. Presented(job'[q]) <=> Presented(j)
  BY <1>15 DEF Presented
<1> HIDE DEF j
<1> QED
  BY <1>1, <1>6, <1>8, <1>9, <1>11, <1>12, <1>13, <1>14, <1>15, <1>16
  DEF JobFits, Created, Exists, Presented

(* A request that is done.                                                  *)
LEMMA IdleFits ==
  ASSUME TypeOK', NEW r \in Requests, job'[r] = Idle
  PROVE  JobFits(job[r])'
<1>1. 0 <= user'.version
  BY SessionsAssumption DEF TypeOK, Versions
<1>2. /\ job'[r].at = "idle" /\ job'[r].version = 0
  BY DEF Idle
<1> QED
  BY <1>1, <1>2 DEF JobFits, Presented

(* One request acts.                                                        *)
LEMMA JobsStep ==
  ASSUME TypeOK, TypeOK', StoresFit, JobsFit, Grows, NEW r \in Requests, OthersKept(r),
         JobFits(job[r])'
  PROVE  JobsFit'
<1> SUFFICES ASSUME NEW q \in Requests PROVE JobFits(job[q])'
  BY DEF JobsFit
<1>1. CASE q = r
  BY <1>1
<1>2. CASE q # r
  BY <1>2, KeptJob DEF OthersKept, JobsFit
<1> QED
  BY <1>1, <1>2

(* Beginning an operation.                                                  *)
LEMMA BeginFits ==
  ASSUME TypeOK, TypeOK', StoresFit, JobsFit, Grows, NEW r \in Requests, BeginJob(r)
  PROVE  StoresFit' /\ JobsFit'
<1> USE DEF clients
<1>0. \A s \in Sessions : session'[s] = session[s]
  <2>1. ASSUME NEW op, NEW c \in issued, NEW s, NEW t, BeginRequest(r, op, c, s, t)
        PROVE  session' = session
    <3>1. c.session \in Sessions
      BY DEF TypeOK, Credential
    <3> QED
      BY <2>1, <3>1, UpdateKeepsRecord DEF BeginRequest, Authenticated, Usable
  <2> QED
    BY <2>1 DEF BeginJob, BeginLogin, BeginReset, BeginRefresh, Restrict
<1>1. UNCHANGED <<token, held, issued>>
  BY DEF BeginJob, BeginLogin, BeginReset, BeginRefresh, BeginRequest, Restrict
<1>2. StoresFit'
  BY <1>0, <1>1, StoresQuiet
<1>3. user.version \in Int /\ user'.version \in Int /\ user.version <= user'.version
      /\ 0 <= user'.version
  BY VersionsAreNumbers, SessionsAssumption DEF Grows, TypeOK, Versions
<1>4. CASE BeginLogin(r) \/ BeginReset(r) \/ Restrict(r, "lock", "locked")
           \/ Restrict(r, "suspend", "suspended")
  <2>1. OthersKept(r)
    BY <1>4 DEF BeginLogin, BeginReset, Restrict, Begin, Goto, OthersKept, TypeOK
  <2>2. job'[r].at \in {"session", "lift", "list"} /\ job'[r].version \in {0, user.version}
    <3>1. CASE BeginLogin(r)
      BY <3>1 DEF BeginLogin, Begin, Goto, Idle, TypeOK
    <3>2. CASE BeginReset(r)
      BY <3>2 DEF BeginReset, Begin, Goto, Idle, TypeOK
    <3>3. ASSUME NEW op, NEW status, Restrict(r, op, status)
          PROVE  job'[r].at = "list" /\ job'[r].version = 0
      BY <3>3 DEF Restrict, Begin, Goto, Idle, TypeOK
    <3> QED
      BY <1>4, <3>1, <3>2, <3>3
  <2>3. JobFits(job[r])'
    BY <1>3, <2>2 DEF JobFits, Presented
  <2> QED
    BY <1>2, <2>1, <2>3, JobsStep
<1>5. ASSUME NEW t \in Tokens, BeginRefresh(r, t) PROVE JobsFit'
  <2>1. OthersKept(r)
    BY <1>5 DEF BeginRefresh, Begin, Goto, OthersKept, TypeOK
  <2>2. /\ job'[r].at = "user" /\ job'[r].version = 0 /\ job'[r].token = t
        /\ job'[r].session = token[t].session
    BY <1>5 DEF BeginRefresh, Begin, Goto, Idle, TypeOK
  <2>3. JobFits(job[r])'
    BY <1>1, <1>3, <1>5, <2>2 DEF BeginRefresh, JobFits, Presented
  <2> QED
    BY <1>2, <2>1, <2>3, JobsStep
<1>6. ASSUME NEW op \in {"logout", "one", "others", "all", "list", "change"}, NEW c \in issued,
             NEW s \in Sessions, NEW t \in Cookies(c.session), BeginRequest(r, op, c, s, t)
      PROVE  JobsFit'
  <2>1. OthersKept(r)
    BY <1>6 DEF BeginRequest, Begin, Goto, OthersKept, TypeOK
  <2>2. /\ job'[r].at = FirstStep(op, t) /\ job'[r].version = c.version /\ job'[r].token = t
        /\ job'[r].session = s /\ job'[r].op = op
    BY <1>6 DEF BeginRequest, Begin, Goto, Idle, TypeOK
  <2>3. /\ job'[r].at \in {"revoke", "readToken", "list", "user"} /\ t \in held \cup {0}
        /\ job'[r].at = "readToken" => t \in held
    BY <2>2 DEF FirstStep, Cookies
  <2>4. c.version <= user'.version
    <3>1. c.session \in Sessions /\ c.version = session[c.session].version
      BY DEF TypeOK, Credential, StoresFit
    <3> QED
      BY <1>3, <3>1, VersionsAreNumbers DEF StoresFit
  <2>5. session'[s].status # "none"
    BY <1>0, <1>6 DEF BeginRequest
  <2>6. ~Presented(job'[r])
    BY <2>2, <2>3 DEF Presented
  <2>7. JobFits(job[r])'
    BY <1>1, <2>2, <2>3, <2>4, <2>5, <2>6 DEF JobFits, Exists, Presented
  <2> QED
    BY <1>2, <2>1, <2>7, JobsStep
<1> QED
  BY <1>2, <1>4, <1>5, <1>6 DEF BeginJob

(* Signing in and refreshing.                                               *)
LEMMA RefreshFits ==
  ASSUME TypeOK, TypeOK', StoresFit, JobsFit, Grows, NEW r \in Requests,
         \/ CreateSession(r) \/ CreateToken(r) \/ ReadUser(r) \/ CheckRotation(r)
         \/ EnterRotation(r) \/ CreateNext(r) \/ ConsumeToken(r) \/ ExtendSession(r)
         \/ PunishReuse(r)
  PROVE  StoresFit' /\ JobsFit'
<1> USE DEF clients
<1> DEFINE j == job[r]
<1>0. /\ j \in Job /\ JobFits(j)
      /\ Presented(j) => j.token \in Tokens /\ j.session \in Sessions
      /\ j.at \in {"consume", "extend"} => j.next \in Tokens
  BY JobFacts DEF JobsFit
<1>a. user.version \in Int /\ user'.version \in Int /\ user.version <= user'.version
      /\ j.version \in Int /\ j.version <= user'.version
      /\ \A s \in Sessions : session[s].version \in Int
  BY <1>0, VersionsAreNumbers, SessionsAssumption DEF Grows, TypeOK, Versions, JobFits
<1>b. Presented(j) => /\ j.token \in held' /\ j.session = token'[j.token].session
                      /\ token'[j.token].version = token[j.token].version
                      /\ j.session = token[j.token].session
                      /\ token[j.token].status # "none" /\ Exists(j.session)
                      /\ session'[j.session].version = session[j.session].version
                      /\ token[j.token].version = session[j.session].version
  BY <1>0
     DEF JobFits, StoresFit, TokenFits, Created, Exists, Grows, SessionsKept, TokensKept
<1>c. ASSUME Finish(r) PROVE JobsFit'
  BY <1>c, FinishStep, IdleFits, JobsStep
<1> HIDE DEF j
<1>1. CASE CreateSession(r)
  <2> DEFINE s == First(NewSessions)
  <2>1. s \in Sessions /\ session[s].status = "none"
    BY <1>1, NewSessionMember DEF CreateSession
  <2>2. /\ session'[s] = [status |-> "active", version |-> j.version]
        /\ \A x \in Sessions : x # s => session'[x] = session[x]
    BY <1>1, <2>1 DEF CreateSession, TypeOK, j
  <2>3. OthersKept(r) /\ job'[r] = [j EXCEPT !.at = "token", !.session = s]
    BY <1>1 DEF CreateSession, Goto, OthersKept, TypeOK, j
  <2>4. job'[r].at = "token" /\ job'[r].session = s /\ job'[r].version = j.version
    BY <1>0, <2>3 DEF Job
  <2> HIDE DEF s
  <2>5. JobFits(job[r])'
    BY <1>a, <2>1, <2>2, <2>4 DEF JobFits, Presented, Exists
  <2>6. \A t \in Tokens : TokenFits(t)'
    BY <1>1, TokenKept DEF CreateSession, TokenFits, Created
  <2>7. \A t \in held' : Created(t)'
    BY <1>1 DEF CreateSession, StoresFit, Created
  <2>8. \A c \in issued' : Exists(c.session)' /\ c.version = session'[c.session].version
    BY <1>1, IssuedKept DEF CreateSession, Exists
  <2>9. \A x \in Sessions : session'[x].version <= user'.version
    BY <1>a, <2>2, VersionKept
  <2> QED
    BY <2>3, <2>5, <2>6, <2>7, <2>8, <2>9, JobsStep DEF StoresFit
<1>2. CASE CreateToken(r) \/ CreateNext(r)
  <2> DEFINE t == First(NewTokens)
  <2>1. t \in Tokens /\ token[t].status = "none"
    BY <1>2, NewTokenMember DEF CreateToken, CreateNext
  <2>2. /\ token'[t] = NewToken(j.session, j.version)
        /\ \A u \in Tokens : u # t => token'[u] = token[u]
    BY <1>2, <2>1 DEF CreateToken, CreateNext, TypeOK, j
  <2>3. token'[t].status = "active" /\ token'[t].session = j.session /\ token'[t].version = j.version
    BY <2>2 DEF NewToken, NoToken
  <2>4. j.session \in Sessions /\ Exists(j.session) /\ j.version = session[j.session].version
    BY <1>0, <1>2, <1>b DEF CreateToken, CreateNext, JobFits, Presented, j
  <2>5. /\ session'[j.session].status # "none"
        /\ session'[j.session].version = session[j.session].version
    BY <2>4 DEF Exists, Grows, SessionsKept
  <2>6. held' \subseteq held \cup {t} /\ UNCHANGED session
        /\ issued' \subseteq issued \cup {[session |-> j.session, version |-> j.version]}
    BY <1>2 DEF CreateToken, CreateNext, j
  <2>7. JobsFit'
    <3>1. CASE CreateToken(r)
      BY <1>c, <3>1 DEF CreateToken
    <3>2. CASE CreateNext(r)
      <4>1. OthersKept(r) /\ job'[r] = [j EXCEPT !.at = "consume", !.next = t]
        BY <3>2 DEF CreateNext, Goto, OthersKept, TypeOK, j
      <4>2. /\ job'[r].at = "consume" /\ job'[r].session = j.session
            /\ job'[r].version = j.version /\ job'[r].token = j.token
            /\ job'[r].record = j.record /\ job'[r].next = t
        BY <1>0, <4>1 DEF Job
      <4>3. j.at = "create" /\ Presented(j)
        BY <3>2 DEF CreateNext, j, Presented
      <4>4. /\ j.record.status # "none" /\ j.record.session = token'[j.token].session
            /\ j.record.version = token'[j.token].version
        BY <1>0, <1>b, <4>3 DEF JobFits
      <4> HIDE DEF t
      <4>5. JobFits(job[r])'
        BY <1>a, <1>b, <2>1, <2>3, <2>4, <2>5, <4>2, <4>3, <4>4 DEF JobFits, Created, Exists
      <4> QED
        BY <4>1, <4>5, JobsStep
    <3> QED
      BY <1>2, <3>1, <3>2
  <2> HIDE DEF t
  <2>8. \A u \in Tokens : TokenFits(u)'
    <3> SUFFICES ASSUME NEW u \in Tokens PROVE TokenFits(u)'
      OBVIOUS
    <3>1. CASE u = t
      BY <2>3, <2>4, <2>5, <3>1 DEF TokenFits, Exists
    <3>2. CASE u # t
      BY <2>2, <3>2, TokenKept DEF TokenFits, Created
    <3> QED
      BY <3>1, <3>2
  <2>9. \A u \in held' : Created(u)'
    <3>1. \A u \in held : token'[u].status # "none"
      BY DEF StoresFit, Created, Grows, TokensKept, TypeOK
    <3> QED
      BY <2>3, <2>6, <3>1 DEF Created
  <2>10. \A c \in issued' : Exists(c.session)' /\ c.version = session'[c.session].version
    BY <2>4, <2>5, <2>6, IssuedKept DEF Exists
  <2>11. \A x \in Sessions : session'[x].version <= user'.version
    BY <2>6, VersionKept
  <2> QED
    BY <2>7, <2>8, <2>9, <2>10, <2>11 DEF StoresFit
<1>3. CASE ReadUser(r)
  <2>1. OthersKept(r) /\ job'[r] = [j EXCEPT !.at = "check", !.version = user.version]
    BY <1>3 DEF ReadUser, Goto, OthersKept, TypeOK, j
  <2>2. /\ job'[r].at = "check" /\ job'[r].session = j.session
        /\ job'[r].version = user.version /\ job'[r].token = j.token
    BY <1>0, <2>1 DEF Job
  <2>3. Presented(j)
    BY <1>3 DEF ReadUser, Presented, j
  <2>4. session'[j.session].version <= user.version
    BY <1>0, <1>b, <2>3 DEF StoresFit
  <2>5. JobFits(job[r])'
    BY <1>a, <1>b, <2>2, <2>3, <2>4 DEF JobFits
  <2>6. UNCHANGED <<token, held, issued, session>>
    BY <1>3 DEF ReadUser
  <2> QED
    BY <2>1, <2>5, <2>6, JobsStep, StoresQuiet
<1>4. CASE CheckRotation(r)
  <2>1. UNCHANGED <<token, held, issued, session>>
    BY <1>4 DEF CheckRotation
  <2>2. CASE RotationCheck(j)
    <3>1. OthersKept(r) /\ job'[r] = [j EXCEPT !.at = "lock"]
      BY <1>4, <2>2 DEF CheckRotation, Goto, OthersKept, TypeOK, j
    <3>2. /\ job'[r].at = "lock" /\ job'[r].session = j.session
          /\ job'[r].version = j.version /\ job'[r].token = j.token
      BY <1>0, <3>1 DEF Job
    <3>3. j.at = "check" /\ Presented(j)
      BY <1>4 DEF CheckRotation, Presented, j
    <3>4. user.version = session[j.session].version
      BY <1>b, <2>2, <3>3 DEF RotationCheck, Current
    <3>5. j.version = session[j.session].version
      BY <1>0, <1>a, <3>3, <3>4 DEF JobFits
    <3>6. JobFits(job[r])'
      BY <1>a, <1>b, <3>2, <3>3, <3>5 DEF JobFits
    <3> QED
      BY <2>1, <3>1, <3>6, JobsStep, StoresQuiet
  <2>3. CASE ~RotationCheck(j)
    BY <1>4, <1>c, <2>1, <2>3, StoresQuiet DEF CheckRotation, j
  <2> QED
    BY <2>2, <2>3
<1>5. CASE EnterRotation(r)
  <2>1. j.at = "lock" /\ Presented(j) /\ UNCHANGED <<token, session>>
    BY <1>5 DEF EnterRotation, Presented, j
  <2>2. \/ Finish(r)
        \/ \E at \in {"create", "reuse"} :
              Goto(r, [j EXCEPT !.at = at, !.record = token[j.token]])
    BY <1>5 DEF EnterRotation, j
  <2>3. JobsFit'
    <3> SUFFICES ASSUME NEW at \in {"create", "reuse"},
                        Goto(r, [j EXCEPT !.at = at, !.record = token[j.token]])
                 PROVE  JobsFit'
      BY <1>c, <2>2
    <3>1. OthersKept(r) /\ job'[r] = [j EXCEPT !.at = at, !.record = token[j.token]]
      BY DEF Goto, OthersKept, TypeOK
    <3>2. /\ job'[r].at = at /\ job'[r].session = j.session
          /\ job'[r].version = j.version /\ job'[r].token = j.token
          /\ job'[r].record = token[j.token]
      BY <1>0, <3>1 DEF Job
    <3>3. JobFits(job[r])'
      BY <1>0, <1>a, <1>b, <2>1, <3>2 DEF JobFits
    <3> QED
      BY <3>1, <3>3, JobsStep
  <2>4. \A t \in Tokens : TokenFits(t)'
    BY <2>1, TokenKept DEF TokenFits, Created
  <2>5. \/ UNCHANGED <<issued, held>>
        \/ token[j.token].status = "consumed" /\ Deliver(j, token[j.token].next)
    BY <1>5 DEF EnterRotation, j
  <2>6. token[j.token].status = "consumed" => token[token[j.token].next].status # "none"
    BY <1>0, <2>1 DEF StoresFit, TokenFits, Created
  <2>7. \A t \in held' : Created(t)'
    BY <2>1, <2>5, <2>6 DEF Deliver, StoresFit, Created
  <2>8. Exists(j.session) /\ j.version = session[j.session].version
    BY <1>0, <1>b, <2>1 DEF JobFits
  <2>9. issued' \subseteq issued \cup {[session |-> j.session, version |-> j.version]}
    BY <2>5 DEF Deliver
  <2>10. \A c \in issued' : Exists(c.session)' /\ c.version = session'[c.session].version
    BY <2>1, <2>8, <2>9, IssuedKept DEF Exists
  <2>11. \A s \in Sessions : session'[s].version <= user'.version
    BY <2>1, VersionKept
  <2> QED
    BY <2>3, <2>4, <2>7, <2>10, <2>11 DEF StoresFit
<1>6. CASE ConsumeToken(r)
  <2>1. j.at = "consume" /\ Presented(j) /\ UNCHANGED <<session, held, issued>>
    BY <1>6 DEF ConsumeToken, Presented, j
  <2>2. OthersKept(r) /\ job'[r] = [j EXCEPT !.at = "extend"]
    BY <1>6 DEF ConsumeToken, Goto, OthersKept, TypeOK, j
  <2>3. /\ job'[r].at = "extend" /\ job'[r].session = j.session
        /\ job'[r].version = j.version /\ job'[r].token = j.token /\ job'[r].next = j.next
    BY <1>0, <2>2 DEF Job
  <2>4. j.next \in Tokens /\ token'[j.next].status # "none" /\ token'[j.next].session = j.session
    BY <1>0, <2>1 DEF JobFits, Created, Grows, TokensKept
  <2>5. JobFits(job[r])'
    BY <1>0, <1>a, <1>b, <2>1, <2>3, <2>4 DEF JobFits, Created
  <2>6. token'[j.token].status = "consumed" /\ token'[j.token].next = j.next
        /\ \A t \in Tokens : t # j.token => token'[t] = token[t]
    <3>1. token' = [token EXCEPT ![j.token] = [j.record EXCEPT !.status = "consumed",
                                                 !.next = j.next, !.grace = TRUE]]
      BY <1>6 DEF ConsumeToken, j
    <3>2. j.record \in Token
      BY <1>0 DEF Job
    <3> QED
      BY <1>0, <2>1, <3>1, <3>2 DEF TypeOK, Token
  <2>7. \A t \in Tokens : TokenFits(t)'
    <3> SUFFICES ASSUME NEW t \in Tokens PROVE TokenFits(t)'
      OBVIOUS
    <3>1. CASE t = j.token
      <4>1. token'[t].version = session'[j.session].version /\ token'[t].session = j.session
        BY <1>b, <2>1, <3>1
      <4>2. session'[j.session].status # "none" /\ j.session \in Sessions
        BY <1>0, <1>b, <2>1 DEF Exists
      <4> QED
        BY <2>4, <2>6, <3>1, <4>1, <4>2 DEF TokenFits, Created, Exists
    <3>2. CASE t # j.token
      BY <2>6, <3>2, TokenKept DEF TokenFits, Created
    <3> QED
      BY <3>1, <3>2
  <2>8. \A t \in held' : Created(t)'
    BY <2>1 DEF StoresFit, Created, Grows, TokensKept, TypeOK
  <2>9. \A c \in issued' : Exists(c.session)' /\ c.version = session'[c.session].version
    BY <2>1, IssuedKept DEF Exists
  <2>10. \A s \in Sessions : session'[s].version <= user'.version
    BY <2>1, VersionKept
  <2> QED
    BY <2>2, <2>5, <2>7, <2>8, <2>9, <2>10, JobsStep DEF StoresFit
<1>7. CASE ExtendSession(r)
  <2>1. j.at = "extend" /\ Presented(j) /\ UNCHANGED token /\ Finish(r)
    BY <1>7 DEF ExtendSession, Presented, j
  <2>2. UNCHANGED <<issued, held>> \/ Deliver(j, j.next)
    BY <1>7 DEF ExtendSession, j
  <2>3. \A s \in Sessions : session'[s].version <= user'.version
    <3>1. j.session \in Sessions /\ j.version = session[j.session].version
      BY <1>0, <2>1 DEF JobFits
    <3>2. session' = session
      BY <1>7, <3>1, UpdateKeepsRecord DEF ExtendSession, UpdateApplies, j
    <3> QED
      BY <3>2, VersionKept
  <2>4. \A t \in Tokens : TokenFits(t)'
    BY <2>1, TokenKept DEF TokenFits, Created
  <2>5. \A t \in held' : Created(t)'
    BY <1>0, <2>1, <2>2 DEF Deliver, StoresFit, Created, JobFits
  <2>6. session'[j.session].status # "none" /\ j.version = session'[j.session].version
    BY <1>0, <1>b, <2>1 DEF JobFits, Grows, SessionsKept, Exists
  <2>7. issued' \subseteq issued \cup {[session |-> j.session, version |-> j.version]}
    BY <2>2 DEF Deliver
  <2>8. \A c \in issued' : Exists(c.session)' /\ c.version = session'[c.session].version
    BY <2>6, <2>7, IssuedKept DEF Exists
  <2> QED
    BY <1>c, <2>1, <2>3, <2>4, <2>5, <2>8 DEF StoresFit
<1>8. CASE PunishReuse(r)
  <2>1. j.at = "reuse" /\ Presented(j) /\ UNCHANGED <<token, held, issued>>
    BY <1>8 DEF PunishReuse, Presented, j
  <2>2. \A s \in Sessions : Exists(s) \/ session'[s] = session[s]
    BY <1>0, <1>8, <2>1 DEF PunishReuse, RevokeKnownSession, Live, Exists, TypeOK, j
  <2>3. Finish(r) \/ Goto(r, [j EXCEPT !.at = "list"])
    BY <1>8 DEF PunishReuse, j
  <2>4. ASSUME Goto(r, [j EXCEPT !.at = "list"]) PROVE JobsFit'
    <3>1. OthersKept(r) /\ job'[r] = [j EXCEPT !.at = "list"]
      BY <2>4 DEF Goto, OthersKept, TypeOK
    <3>2. job'[r].at = "list" /\ job'[r].version = j.version
      BY <1>0, <3>1 DEF Job
    <3>3. JobFits(job[r])'
      BY <1>a, <3>2 DEF JobFits, Presented
    <3> QED
      BY <3>1, <3>3, JobsStep
  <2> QED
    BY <1>c, <2>1, <2>2, <2>3, <2>4, StoresQuiet
<1> QED
  BY <1>1, <1>2, <1>3, <1>4, <1>5, <1>6, <1>7, <1>8

(* Signing out, listing, passwords.                                         *)
LEMMA SignOutFits ==
  ASSUME TypeOK, TypeOK', StoresFit, JobsFit, Grows, NEW r \in Requests,
         \/ RevokeSession(r) \/ ReadToken(r) \/ WriteToken(r) \/ ListSessions(r)
         \/ ListToRevoke(r) \/ EndLoop(r) \/ (\E s \in Sessions : RevokeListed(r, s))
         \/ LiftSecurityHold(r) \/ ReadAccount(r) \/ Rotate(r) \/ Crash(r)
  PROVE  StoresFit' /\ JobsFit'
<1> USE DEF clients
<1> DEFINE j == job[r]
<1>0. /\ j \in Job /\ JobFits(j)
      /\ j.at \in {"readToken", "writeToken"} => j.token \in Tokens
      /\ j.at = "revoke" => j.session \in Sessions
  BY JobFacts DEF JobsFit
<1>a. user.version \in Int /\ user'.version \in Int /\ user.version <= user'.version
      /\ j.version \in Int /\ j.version <= user'.version
  BY <1>0, VersionsAreNumbers, SessionsAssumption DEF Grows, TypeOK, Versions, JobFits
<1>b. /\ \A t \in held : t \in held'
      /\ \A s \in Sessions : Exists(s) => session'[s].status # "none"
  BY DEF Grows, SessionsKept, Exists
<1>c. ASSUME Finish(r) PROVE JobsFit'
  BY <1>c, FinishStep, IdleFits, JobsStep
<1>d. ASSUME OthersKept(r), job'[r].at \in {"list", "rotate", "loop", "session"},
             job'[r].version <= user'.version
      PROVE  JobsFit'
  BY <1>d, JobsStep DEF JobFits, Presented
<1>e. ASSUME UNCHANGED <<token, held, issued, session>> PROVE StoresFit'
  BY <1>e, StoresQuiet
<1> HIDE DEF j
<1>1. CASE RevokeSession(r)
  <2>1. StoresFit'
    <3>1. \A s \in Sessions : Exists(s) \/ session'[s] = session[s]
      BY <1>0, <1>1 DEF RevokeSession, RevokeKnownSession, Live, Exists, TypeOK, j
    <3> QED
      BY <1>1, <3>1, StoresQuiet DEF RevokeSession
  <2>2. CASE Goto(r, [j EXCEPT !.at = "readToken"]) /\ j.token # 0
    <3>1. OthersKept(r) /\ job'[r] = [j EXCEPT !.at = "readToken"]
      BY <2>2 DEF Goto, OthersKept, TypeOK
    <3>2. /\ job'[r].at = "readToken" /\ job'[r].version = j.version
          /\ job'[r].token = j.token /\ job'[r].session = j.session
      BY <1>0, <3>1 DEF Job
    <3>3. j.token \in held /\ j.session \in Sessions /\ Exists(j.session)
      BY <1>0, <1>1, <2>2 DEF RevokeSession, JobFits, j
    <3>4. JobFits(job[r])'
      BY <1>a, <1>b, <3>2, <3>3 DEF JobFits, Presented, Exists
    <3> QED
      BY <2>1, <3>1, <3>4, JobsStep
  <2> QED
    BY <1>1, <1>c, <2>1, <2>2 DEF RevokeSession, j
<1>2. CASE ReadToken(r)
  <2>1. OthersKept(r) /\ job'[r] = [j EXCEPT !.at = "writeToken", !.record = token[j.token]]
    BY <1>2 DEF ReadToken, Goto, OthersKept, TypeOK, j
  <2>2. /\ job'[r].at = "writeToken" /\ job'[r].version = j.version /\ job'[r].token = j.token
        /\ job'[r].session = j.session /\ job'[r].record = token[j.token]
    BY <1>0, <2>1 DEF Job
  <2>3. /\ j.token \in held /\ token[j.token].status # "none" /\ UNCHANGED token
        /\ j.session \in Sessions /\ Exists(j.session)
    BY <1>0, <1>2 DEF ReadToken, JobFits, StoresFit, Created, j
  <2>4. JobFits(job[r])'
    BY <1>a, <1>b, <2>2, <2>3 DEF JobFits, Presented, Exists
  <2> QED
    BY <1>2, <1>e, <2>1, <2>4, JobsStep DEF ReadToken
<1>3. CASE WriteToken(r)
  <2>1. /\ j.at = "writeToken" /\ j.token \in held /\ j.session \in Sessions /\ Exists(j.session)
    BY <1>0, <1>3 DEF WriteToken, JobFits, j
  <2>2. JobsFit'
    <3>1. CASE Goto(r, [j EXCEPT !.at = "revoke", !.record = NoToken])
      <4>1. OthersKept(r) /\ job'[r] = [j EXCEPT !.at = "revoke", !.record = NoToken]
        BY <3>1 DEF Goto, OthersKept, TypeOK
      <4>2. /\ job'[r].at = "revoke" /\ job'[r].version = j.version
            /\ job'[r].token = j.token /\ job'[r].session = j.session
        BY <1>0, <4>1 DEF Job
      <4>3. JobFits(job[r])'
        BY <1>a, <1>b, <2>1, <4>2 DEF JobFits, Presented, Exists
      <4> QED
        BY <4>1, <4>3, JobsStep
    <3> QED
      BY <1>3, <1>c, <3>1 DEF WriteToken, j
  <2>3. \A t \in Tokens : t # j.token => token'[t] = token[t]
    BY <1>3 DEF WriteToken, TypeOK, j
  <2>4. token'[j.token].status = "revoked"
    <3>1. token' = [token EXCEPT ![j.token] = RevokedRecord(j.record)] /\ j.record \in Token
      BY <1>0, <1>3 DEF WriteToken, Job, j
    <3> QED
      BY <1>0, <2>1, <3>1 DEF RevokedRecord, Token, TypeOK
  <2>5. Created(j.token)
    BY <2>1 DEF StoresFit
  <2>6. \A t \in Tokens : TokenFits(t)'
    <3> SUFFICES ASSUME NEW t \in Tokens PROVE TokenFits(t)'
      OBVIOUS
    <3>1. CASE t = j.token
      BY <2>4, <2>5, <3>1, TokenKept
    <3>2. CASE t # j.token
      BY <2>3, <3>2, TokenKept DEF TokenFits, Created
    <3> QED
      BY <3>1, <3>2
  <2>7. \A t \in held' : Created(t)'
    BY <1>3 DEF WriteToken, StoresFit, Created, Grows, TokensKept, TypeOK
  <2>8. \A c \in issued' : Exists(c.session)' /\ c.version = session'[c.session].version
    BY <1>3, IssuedKept DEF WriteToken, Exists
  <2>9. \A s \in Sessions : session'[s].version <= user'.version
    BY <1>3, VersionKept DEF WriteToken
  <2> QED
    BY <2>2, <2>6, <2>7, <2>8, <2>9 DEF StoresFit
<1>4. CASE ListSessions(r)
  <2>1. StoresFit'
    BY <1>4, <1>e DEF ListSessions
  <2>2. CASE Goto(r, [j EXCEPT !.at = "rotate"])
    <3>1. OthersKept(r) /\ job'[r] = [j EXCEPT !.at = "rotate"]
      BY <2>2 DEF Goto, OthersKept, TypeOK
    <3>2. job'[r].at = "rotate" /\ job'[r].version = j.version
      BY <1>0, <3>1 DEF Job
    <3> QED
      BY <1>a, <1>d, <2>1, <3>1, <3>2
  <2> QED
    BY <1>4, <1>c, <2>1, <2>2 DEF ListSessions, j
<1>5. CASE ListToRevoke(r)
  <2>1. StoresFit'
    BY <1>5, <1>e DEF ListToRevoke
  <2>2. \E todo, goal : Goto(r, [j EXCEPT !.at = "loop", !.todo = todo, !.goal = goal])
    BY <1>5 DEF ListToRevoke, j
  <2>3. PICK todo, goal : Goto(r, [j EXCEPT !.at = "loop", !.todo = todo, !.goal = goal])
    BY <2>2
  <2>4. OthersKept(r) /\ job'[r] = [j EXCEPT !.at = "loop", !.todo = todo, !.goal = goal]
    BY <2>3 DEF Goto, OthersKept, TypeOK
  <2>5. job'[r].at = "loop" /\ job'[r].version = j.version
    BY <1>0, <2>4 DEF Job
  <2> QED
    BY <1>a, <1>d, <2>1, <2>4, <2>5
<1>6. CASE EndLoop(r) \/ Crash(r)
  BY <1>6, <1>c, <1>e DEF EndLoop, Crash
<1>7. ASSUME NEW s \in Sessions, RevokeListed(r, s) PROVE StoresFit' /\ JobsFit'
  <2>1. StoresFit'
    <3>1. \A x \in Sessions : Exists(x) \/ session'[x] = session[x]
      BY <1>7 DEF RevokeListed, RevokeKnownSession, Live, Exists, TypeOK
    <3> QED
      BY <1>7, <3>1, StoresQuiet DEF RevokeListed
  <2>2. OthersKept(r) /\ job'[r] = [j EXCEPT !.todo = @ \ {s}]
    BY <1>7 DEF RevokeListed, Goto, OthersKept, TypeOK, j
  <2>3. job'[r].at = "loop" /\ job'[r].version = j.version
    BY <1>0, <1>7, <2>2 DEF RevokeListed, Job, j
  <2> QED
    BY <1>a, <1>d, <2>1, <2>2, <2>3
<1>8. CASE LiftSecurityHold(r) \/ ReadAccount(r)
  <2>1. StoresFit'
    BY <1>8, <1>e DEF LiftSecurityHold, ReadAccount
  <2>2. \/ Finish(r)
        \/ Goto(r, [j EXCEPT !.at = "rotate"])
        \/ Goto(r, [j EXCEPT !.at = "rotate", !.status = user.status])
    BY <1>8 DEF LiftSecurityHold, ReadAccount, j
  <2>3. \/ Finish(r)
        \/ OthersKept(r) /\ job'[r].at = "rotate" /\ job'[r].version = j.version
    <3>1. CASE Goto(r, [j EXCEPT !.at = "rotate"])
      BY <1>0, <3>1 DEF Goto, OthersKept, TypeOK, Job
    <3>2. CASE Goto(r, [j EXCEPT !.at = "rotate", !.status = user.status])
      BY <1>0, <3>2 DEF Goto, OthersKept, TypeOK, Job
    <3> QED
      BY <2>2, <3>1, <3>2
  <2> QED
    BY <1>a, <1>c, <1>d, <2>1, <2>3
<1>9. CASE Rotate(r)
  <2>1. StoresFit'
    BY <1>9, <1>e DEF Rotate
  <2>2. \/ Finish(r)
        \/ Goto(r, [j EXCEPT !.op = "everyone", !.at = "list"])
        \/ Goto(r, [j EXCEPT !.at = "session", !.version = user'.version])
    BY <1>9 DEF Rotate, j
  <2>3. \/ Finish(r)
        \/ OthersKept(r) /\ job'[r].at = "list" /\ job'[r].version = j.version
        \/ OthersKept(r) /\ job'[r].at = "session" /\ job'[r].version = user'.version
    <3>1. CASE Goto(r, [j EXCEPT !.op = "everyone", !.at = "list"])
      BY <1>0, <3>1 DEF Goto, OthersKept, TypeOK, Job
    <3>2. CASE Goto(r, [j EXCEPT !.at = "session", !.version = user'.version])
      BY <1>0, <3>2 DEF Goto, OthersKept, TypeOK, Job
    <3> QED
      BY <2>2, <3>1, <3>2
  <2> QED
    BY <1>a, <1>c, <1>d, <2>1, <2>3
<1> QED
  BY <1>1, <1>2, <1>3, <1>4, <1>5, <1>6, <1>7, <1>8, <1>9

(* Reinstatement, time and lapsing locks.                                   *)
LEMMA TimeFits ==
  ASSUME TypeOK, TypeOK', StoresFit, JobsFit, Grows,
         \/ UNCHANGED vars \/ Reinstate \/ (\E s \in Sessions : SessionExpires(s))
         \/ (\E t \in Tokens : GracePasses(t) \/ LockLapses(t))
  PROVE  StoresFit' /\ JobsFit'
<1> USE DEF clients
<1>1. JobsFit'
  <2>1. UNCHANGED job
    BY DEF vars, Reinstate, SessionExpires, GracePasses, LockLapses
  <2> QED
    BY <2>1, KeptJob DEF JobsFit
<1>2. CASE UNCHANGED vars \/ Reinstate \/ \E t \in Tokens : LockLapses(t)
  <2>1. UNCHANGED <<token, held, issued, session>>
    BY <1>2 DEF vars, Reinstate, LockLapses
  <2> QED
    BY <1>1, <2>1, StoresQuiet
<1>3. ASSUME NEW s \in Sessions, SessionExpires(s) PROVE StoresFit'
  <2>1. \A x \in Sessions : Exists(x) \/ session'[x] = session[x]
    BY <1>3 DEF SessionExpires, Live, Exists, TypeOK
  <2> QED
    BY <1>3, <2>1, StoresQuiet DEF SessionExpires
<1>4. ASSUME NEW t \in Tokens, GracePasses(t) PROVE StoresFit'
  <2>1. \A u \in Tokens : token'[u].status = token[u].status /\ token'[u].next = token[u].next
    BY <1>4 DEF GracePasses, TypeOK, Token
  <2>2. \A u \in Tokens : TokenFits(u)'
    BY <2>1, TokenKept DEF TokenFits, Created
  <2>3. \A u \in held' : Created(u)'
    BY <1>4, <2>1 DEF GracePasses, StoresFit, Created, TypeOK
  <2>4. \A c \in issued' : Exists(c.session)' /\ c.version = session'[c.session].version
    BY <1>4, IssuedKept DEF GracePasses, Exists
  <2>5. \A s \in Sessions : session'[s].version <= user'.version
    BY <1>4, VersionKept DEF GracePasses
  <2> QED
    BY <2>2, <2>3, <2>4, <2>5 DEF StoresFit
<1> QED
  BY <1>1, <1>2, <1>3, <1>4

(* The stores and the requests agree in every reachable state.              *)
Agree == TypeOK /\ StoresFit /\ JobsFit

(* The stores agree at first.                                               *)
LEMMA InitAgree == Init => Agree
<1> SUFFICES ASSUME Init PROVE Agree
  OBVIOUS
<1>1. TypeOK
  BY InitType
<1>2. StoresFit
  BY SessionsAssumption DEF Init, StoresFit, TokenFits, Created, NoToken, NoSession
<1>3. JobsFit
  BY DEF Init, JobsFit, JobFits, Presented, Idle
<1> QED
  BY <1>1, <1>2, <1>3 DEF Agree

(* Every step keeps stores and requests in agreement.                       *)
LEMMA AgreeStep == Agree /\ [Next]_vars => Agree'
<1> SUFFICES ASSUME TypeOK, StoresFit, JobsFit, [Next]_vars PROVE Agree'
  BY DEF Agree
<1>1. TypeOK' /\ Grows
  BY NextType, GrowsStep
<1>2. StoresFit' /\ JobsFit'
  BY <1>1, BeginFits, RefreshFits, SignOutFits, TimeFits DEF Next, JobStep
<1> QED
  BY <1>1, <1>2 DEF Agree

(* Every record and every job keeps its type, whatever requests run at once. *)
THEOREM TypeCorrect == Spec => []TypeOK
<1>1. Spec => []Agree
  BY InitAgree, AgreeStep, PTL DEF Spec
<1>2. Agree => TypeOK
  BY DEF Agree
<1> QED
  BY <1>1, <1>2, PTL

-----------------------------------------------------------------------------
(* Sessions that were ended.                                                *)

(* The steps of a request that the other invariants are about.              *)
Watched == {"token", "create", "consume", "extend", "loop"}

(* All other operations bring their request to a step of another kind.      *)
LEMMA Unwatched ==
  ASSUME TypeOK, NEW r \in Requests,
         \/ BeginJob(r) \/ CreateToken(r) \/ ReadUser(r) \/ CheckRotation(r)
         \/ ExtendSession(r) \/ PunishReuse(r) \/ RevokeSession(r) \/ ReadToken(r)
         \/ WriteToken(r) \/ ListSessions(r) \/ EndLoop(r) \/ LiftSecurityHold(r)
         \/ ReadAccount(r) \/ Rotate(r) \/ Crash(r)
  PROVE  OthersKept(r) /\ job'[r].at \notin Watched
<1> DEFINE j == job[r]
           Done == OthersKept(r) /\ job'[r].at \notin Watched
<1>0. j \in Job
  BY DEF TypeOK
<1>1. ASSUME Finish(r) PROVE Done
  BY <1>1, FinishStep DEF Idle, Watched
<1> HIDE DEF j
<1>2. CASE BeginJob(r)
  <2>2. CASE BeginLogin(r)
    BY <2>2 DEF BeginLogin, Begin, Goto, Idle, OthersKept, TypeOK, Watched
  <2>3. CASE BeginReset(r)
    BY <2>3 DEF BeginReset, Begin, Goto, Idle, OthersKept, TypeOK, Watched
  <2>4. ASSUME NEW t \in Tokens, BeginRefresh(r, t) PROVE Done
    BY <2>4 DEF BeginRefresh, Begin, Goto, Idle, OthersKept, TypeOK, Watched
  <2>5. ASSUME NEW op \in {"logout", "one", "others", "all", "list", "change"}, NEW c, NEW s, NEW t,
               BeginRequest(r, op, c, s, t)
        PROVE  Done
    <3>1. FirstStep(op, t) \notin Watched
      BY DEF FirstStep, Watched
    <3> QED
      BY <2>5, <3>1 DEF BeginRequest, Begin, Goto, Idle, OthersKept, TypeOK
  <2>6. ASSUME NEW op, NEW status, Restrict(r, op, status) PROVE Done
    BY <2>6 DEF Restrict, Begin, Goto, Idle, OthersKept, TypeOK, Watched
  <2> QED
    BY <1>2, <2>2, <2>3, <2>4, <2>5, <2>6 DEF BeginJob
<1>3. ASSUME NEW new, Goto(r, new), new.at \notin Watched PROVE Done
  BY <1>3 DEF Goto, OthersKept, TypeOK
<1>4. /\ \A v : [j EXCEPT !.at = "check", !.version = v].at \notin Watched
      /\ [j EXCEPT !.at = "lock"].at \notin Watched
      /\ [j EXCEPT !.at = "list"].at \notin Watched
      /\ [j EXCEPT !.at = "readToken"].at \notin Watched
      /\ \A x : [j EXCEPT !.at = "writeToken", !.record = x].at \notin Watched
      /\ \A x : [j EXCEPT !.at = "revoke", !.record = x].at \notin Watched
      /\ [j EXCEPT !.at = "rotate"].at \notin Watched
      /\ \A v : [j EXCEPT !.at = "rotate", !.status = v].at \notin Watched
      /\ \A v : [j EXCEPT !.at = "session", !.version = v].at \notin Watched
      /\ [j EXCEPT !.op = "everyone", !.at = "list"].at \notin Watched
  BY <1>0 DEF Job, Watched
<1>5. CASE CreateToken(r) \/ ExtendSession(r) \/ EndLoop(r) \/ Crash(r)
  BY <1>1, <1>5 DEF CreateToken, ExtendSession, EndLoop, Crash
<1>6. CASE ReadUser(r)
  BY <1>3, <1>4, <1>6 DEF ReadUser, j
<1>7. CASE CheckRotation(r)
  BY <1>1, <1>3, <1>4, <1>7 DEF CheckRotation, j
<1>8. CASE PunishReuse(r)
  BY <1>1, <1>3, <1>4, <1>8 DEF PunishReuse, j
<1>9. CASE RevokeSession(r)
  BY <1>1, <1>3, <1>4, <1>9 DEF RevokeSession, j
<1>10. CASE ReadToken(r)
  BY <1>3, <1>4, <1>10 DEF ReadToken, j
<1>11. CASE WriteToken(r)
  BY <1>1, <1>3, <1>4, <1>11 DEF WriteToken, j
<1>12. CASE ListSessions(r)
  BY <1>1, <1>3, <1>4, <1>12 DEF ListSessions, j
<1>13. CASE LiftSecurityHold(r)
  BY <1>1, <1>3, <1>4, <1>13 DEF LiftSecurityHold, j
<1>14. CASE ReadAccount(r)
  BY <1>3, <1>4, <1>14 DEF ReadAccount, j
<1>15. CASE Rotate(r)
  BY <1>1, <1>3, <1>4, <1>15 DEF Rotate, j
<1> QED
  BY <1>2, <1>5, <1>6, <1>7, <1>8, <1>9, <1>10, <1>11, <1>12, <1>13, <1>14, <1>15 DEF Done

(* An ended session stays behind or dead; a sign-out's list stays good.     *)
LEMMA EndedKept ==
  ASSUME TypeOK, TypeOK', Grows, NEW s \in Sessions, EndedFits(s)
  PROVE  EndedFits(s)'
<1>1. /\ session'[s].status # "none" /\ session'[s].version = session[s].version
      /\ session[s].status # "active" => session'[s].status # "active"
  BY DEF EndedFits, Exists, Grows, SessionsKept
<1>2. user.version \in Int /\ user'.version \in Int /\ session[s].version \in Int
  BY VersionsAreNumbers, SessionsAssumption DEF TypeOK, Versions
<1> QED
  BY <1>1, <1>2 DEF EndedFits, Exists, Live, Grows

(* A sign-out that goes on still has its goal on its list.                  *)
LEMMA LoopKept ==
  ASSUME TypeOK, Grows, NEW q \in Requests, job'[q] = job[q], LoopFits(job[q])
  PROVE  LoopFits(job[q])'
<1>1. job[q].goal \subseteq Sessions
  BY DEF TypeOK, Job
<1>2. \A s \in Sessions : Exists(s) =>
          /\ session'[s].status # "none"
          /\ session[s].status # "active" => session'[s].status # "active"
  BY DEF Exists, Grows, SessionsKept
<1> QED
  BY <1>1, <1>2 DEF LoopFits, Exists, Live

(* What a step has to show: the sessions that it ends, and its own list.    *)
LEMMA EndedParts ==
  ASSUME TypeOK, TypeOK', Grows, EndedIsDead,
         "unindexed" \notin races' => \A s \in ended' \ ended : EndedFits(s)',
         "unindexed" \notin races' =>
            \A q \in Requests : job'[q] = job[q] \/ LoopFits(job[q])'
  PROVE  EndedIsDead'
<1> SUFFICES ASSUME "unindexed" \notin races'
             PROVE  /\ \A s \in ended' : EndedFits(s)'
                    /\ \A q \in Requests : LoopFits(job[q])'
  BY DEF EndedIsDead
<1>1. "unindexed" \notin races
  BY DEF Grows
<1>2. \A s \in ended : EndedFits(s)'
  BY <1>1, EndedKept DEF EndedIsDead, TypeOK
<1>3. \A q \in Requests : LoopFits(job[q])'
  BY <1>1, LoopKept DEF EndedIsDead
<1> QED
  BY <1>2, <1>3

(* A rotation of the version leaves every session behind.                   *)
LEMMA RotationEnds ==
  ASSUME TypeOK, StoresFit, NEW s \in SessionsToEnd, user'.version = user.version + 1,
         UNCHANGED session
  PROVE  EndedFits(s)'
<1>1. s \in Sessions /\ Exists(s) /\ session[s].version <= user.version
  BY DEF SessionsToEnd, Exists, StoresFit
<1>2. user.version \in Int /\ session[s].version \in Int
  BY <1>1, VersionsAreNumbers
<1> QED
  BY <1>1, <1>2 DEF EndedFits, Exists

(* Revoking a session ends it.                                              *)
LEMMA RevokedEnds ==
  ASSUME TypeOK, NEW s \in Sessions, Exists(s), RevokeKnownSession(s)
  PROVE  EndedFits(s)'
<1>1. session'[s].status # "active" /\ session'[s].status # "none"
  BY RevokeKeeps DEF SessionsKept, Exists
<1> QED
  BY <1>1 DEF EndedFits, Exists, Live

(* Every step keeps ended sessions dead.                                    *)
LEMMA EndedStep ==
  ASSUME Agree, Agree', Grows, EndedIsDead, [Next]_vars
  PROVE  EndedIsDead'
<1> USE DEF clients
<1>0. TypeOK /\ TypeOK' /\ StoresFit /\ JobsFit
  BY DEF Agree
<1>1. ASSUME UNCHANGED <<ended, job>> PROVE EndedIsDead'
  BY <1>0, <1>1, EndedParts
<1>2. ASSUME NEW r \in Requests, OthersKept(r), job'[r].at # "loop",
             \A s \in ended' \ ended : EndedFits(s)'
      PROVE  EndedIsDead'
  <2>1. \A q \in Requests : job'[q] = job[q] \/ LoopFits(job[q])'
    BY <1>2 DEF OthersKept, LoopFits
  <2> QED
    BY <1>0, <1>2, <2>1, EndedParts
<1>3. ASSUME NEW r \in Requests, OthersKept(r), UNCHANGED ended,
             "unindexed" \notin races' => LoopFits(job[r])'
      PROVE  EndedIsDead'
  <2>1. "unindexed" \notin races' => \A q \in Requests : job'[q] = job[q] \/ LoopFits(job[q])'
    BY <1>3 DEF OthersKept
  <2> QED
    BY <1>0, <1>3, <2>1, EndedParts
<1>4. ASSUME NEW r \in Requests, BeginJob(r) PROVE EndedIsDead'
  <2>1. OthersKept(r) /\ job'[r].at # "loop"
    BY <1>0, <1>4, Unwatched DEF Watched
  <2>2. \/ UNCHANGED ended
        \/ ended' = ended \cup SessionsToEnd /\ UNCHANGED session /\ user'.version = user.version + 1
    <3>1. ASSUME NEW op, NEW status, Restrict(r, op, status)
          PROVE  /\ ended' = ended \cup SessionsToEnd /\ UNCHANGED session
                 /\ user'.version = user.version + 1
      BY <3>1 DEF Restrict, UpdateAccountStatus
    <3> QED
      BY <1>4, <3>1 DEF BeginJob, BeginLogin, BeginReset, BeginRefresh, BeginRequest
  <2>3. \A s \in ended' \ ended : EndedFits(s)'
    BY <1>0, <2>2, RotationEnds
  <2> QED
    BY <1>2, <2>1, <2>3
<1>5. ASSUME NEW r \in Requests, JobStep(r) PROVE EndedIsDead'
  <2> DEFINE j == job[r]
  <2>0. /\ j \in Job /\ JobFits(j)
        /\ Presented(j) => j.token \in Tokens /\ j.session \in Sessions
    BY <1>0, JobFacts DEF JobsFit
  <2> HIDE DEF j
  <2>1. CASE \/ CreateToken(r) \/ ReadUser(r) \/ CheckRotation(r) \/ ExtendSession(r)
             \/ ReadToken(r) \/ WriteToken(r) \/ ListSessions(r) \/ LiftSecurityHold(r)
             \/ ReadAccount(r)
    <3>1. OthersKept(r) /\ job'[r].at # "loop"
      BY <1>0, <2>1, Unwatched DEF Watched
    <3>2. UNCHANGED ended
      BY <2>1
         DEF CreateToken, ReadUser, CheckRotation, ExtendSession, ReadToken, WriteToken,
                  ListSessions, LiftSecurityHold, ReadAccount
    <3> QED
      BY <1>2, <3>1, <3>2
  <2>2. CASE CreateSession(r)
    <3> DEFINE s == First(NewSessions)
    <3>1. s \in Sessions
      BY <2>2, NewSessionMember DEF CreateSession
    <3>2. session'[s] = [status |-> "active", version |-> j.version] /\ UNCHANGED user
      BY <1>0, <2>2, <3>1 DEF CreateSession, TypeOK, j
    <3>3. OthersKept(r) /\ job'[r] = [j EXCEPT !.at = "token", !.session = s]
      BY <1>0, <2>2 DEF CreateSession, Goto, OthersKept, TypeOK, j
    <3>4. job'[r].at # "loop"
      BY <2>0, <3>3 DEF Job
    <3>5. ended' = IF j.version # user.version THEN ended \cup {s} ELSE ended
      BY <2>2 DEF CreateSession, j
    <3>6. j.version # user.version => j.version < user.version
      BY <1>0, <2>0, VersionsAreNumbers DEF JobFits, j
    <3> HIDE DEF s
    <3>7. \A x \in ended' \ ended : EndedFits(x)'
      BY <3>2, <3>5, <3>6 DEF EndedFits, Exists
    <3> QED
      BY <1>2, <3>3, <3>4, <3>7
  <2>3. CASE EnterRotation(r)
    <3>1. \/ Finish(r)
          \/ \E at \in {"create", "reuse"} :
                Goto(r, [j EXCEPT !.at = at, !.record = token[j.token]])
      BY <2>3 DEF EnterRotation, j
    <3>2. OthersKept(r) /\ job'[r].at # "loop"
      <4>1. CASE Finish(r)
        BY <1>0, <4>1, FinishStep DEF Idle
      <4>2. ASSUME NEW at \in {"create", "reuse"},
                   Goto(r, [j EXCEPT !.at = at, !.record = token[j.token]])
            PROVE  OthersKept(r) /\ job'[r].at # "loop"
        BY <1>0, <2>0, <4>2 DEF Goto, OthersKept, TypeOK, Job
      <4> QED
        BY <3>1, <4>1, <4>2
    <3> QED
      BY <1>2, <2>3, <3>2 DEF EnterRotation
  <2>4. CASE CreateNext(r)
    <3>1. OthersKept(r) /\ job'[r] = [j EXCEPT !.at = "consume", !.next = First(NewTokens)]
      BY <1>0, <2>4 DEF CreateNext, Goto, OthersKept, TypeOK, j
    <3>2. job'[r].at # "loop"
      BY <2>0, <3>1 DEF Job
    <3> QED
      BY <1>2, <2>4, <3>1, <3>2 DEF CreateNext
  <2>5. CASE ConsumeToken(r)
    <3>1. OthersKept(r) /\ job'[r] = [j EXCEPT !.at = "extend"]
      BY <1>0, <2>5 DEF ConsumeToken, Goto, OthersKept, TypeOK, j
    <3>2. job'[r].at # "loop"
      BY <2>0, <3>1 DEF Job
    <3> QED
      BY <1>2, <2>5, <3>1, <3>2 DEF ConsumeToken
  <2>6. CASE PunishReuse(r)
    <3>1. OthersKept(r) /\ job'[r].at # "loop"
      BY <1>0, <2>6, Unwatched DEF Watched
    <3>2. j.session \in Sessions /\ Exists(j.session)
      <4>1. Presented(j)
        BY <2>6 DEF PunishReuse, Presented, j
      <4> QED
        BY <1>0, <2>0, <4>1 DEF JobFits, StoresFit, TokenFits
    <3>3. CASE RevokeKnownSession(j.session) /\ ended' = ended \cup {j.session}
      <4>1. \A s \in ended' \ ended : s \in Sessions /\ Exists(s) /\ RevokeKnownSession(s)
        BY <3>2, <3>3
      <4>2. \A s \in ended' \ ended : EndedFits(s)'
        BY <1>0, <4>1, RevokedEnds
      <4> QED
        BY <1>2, <3>1, <4>2
    <3>4. CASE RotateTokenVersion /\ UNCHANGED session
      <4>1. ended' = ended \cup SessionsToEnd /\ user'.version = user.version + 1
        BY <1>0, <3>4, RotateType DEF RotateTokenVersion
      <4> QED
        BY <1>0, <1>2, <3>1, <3>4, <4>1, RotationEnds
    <3> QED
      BY <2>6, <3>3, <3>4 DEF PunishReuse, j
  <2>7. CASE RevokeSession(r)
    <3>1. OthersKept(r) /\ job'[r].at # "loop"
      BY <1>0, <2>7, Unwatched DEF Watched
    <3>2. /\ j.session \in Sessions /\ Exists(j.session)
          /\ RevokeKnownSession(j.session) /\ ended' = ended \cup {j.session}
      BY <2>0, <2>7 DEF RevokeSession, JobFits, j
    <3>3. \A s \in ended' \ ended : s \in Sessions /\ Exists(s) /\ RevokeKnownSession(s)
      BY <3>2
    <3>4. \A s \in ended' \ ended : EndedFits(s)'
      BY <1>0, <3>3, RevokedEnds
    <3> QED
      BY <1>2, <3>1, <3>4
  <2>8. CASE ListToRevoke(r)
    <3> DEFINE except == IF j.op = "others" THEN {j.session} ELSE {}
               others == {s \in Sessions :
                            Usable([session |-> s, version |-> session[s].version])} \ except
               todo == Listed(Versions) \ except
               goal == IF j.op = "others" THEN others ELSE {}
    <3>1. OthersKept(r) /\ job'[r] = [j EXCEPT !.at = "loop", !.todo = todo, !.goal = goal]
      BY <1>0, <2>8 DEF ListToRevoke, Goto, OthersKept, TypeOK, j
    <3>2. UNCHANGED <<session, ended>>
          /\ races' = races \cup {x \in {"unindexed"} : j.op = "others" /\ ~(others \subseteq index)}
      BY <2>8 DEF ListToRevoke, Happens, j
    <3>3. ASSUME "unindexed" \notin races', NEW s \in goal
          PROVE  j.op = "others" /\ Exists(s) /\ s \in todo
      <4>1. j.op = "others" /\ s \in others
        BY <3>3
      <4>2. s \in index
        BY <3>2, <3>3, <4>1
      <4>3. s \in Sessions /\ Live(s) /\ s \notin except
        BY <4>1 DEF Usable
      <4>4. session[s].version \in Versions
        BY <1>0, <4>3 DEF TypeOK, Session
      <4> QED
        BY <4>1, <4>2, <4>3, <4>4 DEF Listed, Exists, Live
    <3> HIDE DEF todo, goal
    <3>4. job'[r].op = j.op /\ job'[r].todo = todo /\ job'[r].goal = goal
      BY <2>0, <3>1 DEF Job
    <3>5. "unindexed" \notin races' => LoopFits(job[r])'
      BY <3>2, <3>3, <3>4 DEF LoopFits, Exists
    <3> QED
      BY <1>3, <3>1, <3>2, <3>5
  <2>9. CASE EndLoop(r)
    <3>1. OthersKept(r) /\ job'[r].at # "loop"
      BY <1>0, <2>9, Unwatched DEF Watched
    <3>2. UNCHANGED <<session, user, races>> /\ ended' = ended \cup j.goal /\ j.at = "loop"
          /\ (j.todo = {} \/ j.op # "others")
      BY <2>9 DEF EndLoop, j
    <3>3. "unindexed" \notin races => LoopFits(j)
      BY DEF EndedIsDead, j
    <3>4. "unindexed" \notin races' => \A s \in ended' \ ended : EndedFits(s)'
      BY <3>2, <3>3 DEF LoopFits, EndedFits, Exists, Live
    <3>5. \A q \in Requests : job'[q] = job[q] \/ LoopFits(job[q])'
      BY <3>1 DEF OthersKept, LoopFits
    <3> QED
      BY <1>0, <3>4, <3>5, EndedParts
  <2>10. ASSUME NEW s \in Sessions, RevokeListed(r, s) PROVE EndedIsDead'
    <3>1. OthersKept(r) /\ job'[r] = [j EXCEPT !.todo = @ \ {s}] /\ UNCHANGED <<ended, races>>
      BY <1>0, <2>10 DEF RevokeListed, Goto, OthersKept, TypeOK, j
    <3>2. /\ job'[r].todo = j.todo \ {s} /\ job'[r].goal = j.goal /\ job'[r].op = j.op
          /\ j.at = "loop" /\ j.goal \subseteq Sessions
      BY <2>0, <2>10, <3>1 DEF RevokeListed, Job, j
    <3>3. session'[s].status # "active"
      BY <1>0, <2>10, RevokeKeeps DEF RevokeListed
    <3>4. "unindexed" \notin races => LoopFits(j)
      BY DEF EndedIsDead, j
    <3>5. \A x \in Sessions : Exists(x) =>
              /\ session'[x].status # "none"
              /\ session[x].status # "active" => session'[x].status # "active"
      BY DEF Exists, Grows, SessionsKept
    <3>6. "unindexed" \notin races' => LoopFits(job[r])'
      BY <3>1, <3>2, <3>3, <3>4, <3>5 DEF LoopFits, Exists, Live
    <3> QED
      BY <1>3, <3>1, <3>6
  <2>11. CASE Rotate(r)
    <3>1. OthersKept(r) /\ job'[r].at # "loop"
      BY <1>0, <2>11, Unwatched DEF Watched
    <3>2. /\ ended' = ended \cup SessionsToEnd /\ user'.version = user.version + 1
          /\ UNCHANGED session
      BY <1>0, <2>11, RotateType DEF Rotate, RotateTokenVersion
    <3> QED
      BY <1>0, <1>2, <3>1, <3>2, RotationEnds
  <2> QED
    BY <1>5, <2>1, <2>2, <2>3, <2>4, <2>5, <2>6, <2>7, <2>8, <2>9, <2>10, <2>11 DEF JobStep
<1>6. ASSUME NEW r \in Requests, Crash(r) PROVE EndedIsDead'
  <2>1. OthersKept(r) /\ job'[r].at # "loop"
    BY <1>0, <1>6, Unwatched DEF Watched
  <2> QED
    BY <1>2, <1>6, <2>1 DEF Crash
<1>7. CASE \/ UNCHANGED vars \/ Reinstate \/ (\E s \in Sessions : SessionExpires(s))
           \/ (\E t \in Tokens : GracePasses(t) \/ LockLapses(t))
  BY <1>1, <1>7 DEF vars, Reinstate, SessionExpires, GracePasses, LockLapses
<1> QED
  BY <1>4, <1>5, <1>6, <1>7 DEF Next

(* An ended session has no credential that lets anyone in.                  *)
LEMMA EndedUnreachable == Agree /\ EndedIsDead => EndedUnlessUnindexed
<1> SUFFICES ASSUME TypeOK, StoresFit, NEW s \in ended, EndedFits(s), Reachable(s) PROVE FALSE
  BY DEF Agree, EndedIsDead, EndedUnlessUnindexed, EndedStaysEnded
<1>0. s \in Sessions
  BY DEF TypeOK
<1>a. user.version \in Int /\ session[s].version \in Int
  BY <1>0, VersionsAreNumbers
<1>1. CASE \E c \in issued : c.session = s /\ Usable(c)
  BY <1>1, <1>a DEF StoresFit, Usable, Current, EndedFits
<1>2. CASE \E t \in held : /\ token[t].session = s /\ token[t].status = "active"
                          /\ Live(s) /\ Current(token[t].version)
  <2>1. PICK t \in held : /\ token[t].session = s /\ token[t].status = "active"
                          /\ Live(s) /\ Current(token[t].version)
    BY <1>2
  <2>2. token[t].version = session[s].version
    BY <2>1 DEF StoresFit, TokenFits, Created, TypeOK
  <2> QED
    BY <1>a, <2>1, <2>2 DEF Current, EndedFits
<1> QED
  BY <1>1, <1>2 DEF Reachable

(* Whatever sign-ins and refreshes are under way, no credential of a session
   that a sign-out, a password change, a hold or a suspension has ended lets
   anyone in again, but for the sessions that "sign out the others" did not
   find in the index.                                                       *)
THEOREM EndedSessions == Spec => []EndedUnlessUnindexed
<1>1. Init => Agree /\ EndedIsDead
  <2>1. Init => EndedIsDead
    BY DEF Init, EndedIsDead, LoopFits, Idle
  <2> QED
    BY <2>1, InitAgree
<1>2. Agree /\ EndedIsDead /\ [Next]_vars => Agree' /\ EndedIsDead'
  <2> SUFFICES ASSUME Agree, EndedIsDead, [Next]_vars PROVE Agree' /\ EndedIsDead'
    OBVIOUS
  <2>1. Agree' /\ Grows
    BY AgreeStep, GrowsStep DEF Agree
  <2> QED
    BY <2>1, EndedStep
<1> QED
  BY <1>1, <1>2, EndedUnreachable, PTL DEF Spec

-----------------------------------------------------------------------------
(* One refresh token per session.                                           *)

(* No request begins to create a session's first token, and no other token is
   created.                                                                 *)
LEMMA SignInQuiet ==
  ASSUME TypeOK, Grows, SignInIsFirst,
         \A t \in Tokens : token'[t].status # "none" => token[t].status # "none",
         \A q \in Requests : job'[q].at = "token" => job'[q] = job[q]
  PROVE  SignInIsFirst'
<1>1. \A t \in Tokens : token'[t].status # "none" =>
          token[t].status # "none" /\ token'[t].session = token[t].session
  BY DEF Grows, TokensKept
<1> QED
  BY <1>1 DEF SignInIsFirst, Created

(* Every step keeps a sign-in the first of its session.                     *)
LEMMA SignInStep ==
  ASSUME Agree, Agree', Grows, SignInIsFirst, [Next]_vars
  PROVE  SignInIsFirst'
<1> USE DEF clients
<1>0. TypeOK /\ StoresFit /\ JobsFit
  BY DEF Agree
<1>a. ASSUME NEW r \in Requests, OthersKept(r), job'[r].at # "token",
             \A t \in Tokens : token'[t].status # "none" => token[t].status # "none"
      PROVE  SignInIsFirst'
  BY <1>0, <1>a, SignInQuiet DEF OthersKept
<1>1. ASSUME NEW r \in Requests, BeginJob(r) \/ Crash(r) PROVE SignInIsFirst'
  <2>1. OthersKept(r) /\ job'[r].at # "token"
    BY <1>0, <1>1, Unwatched DEF Watched
  <2>2. UNCHANGED token
    BY <1>1
       DEF BeginJob, BeginLogin, BeginReset, BeginRefresh, BeginRequest, Restrict, Crash
  <2> QED
    BY <1>a, <2>1, <2>2
<1>2. ASSUME NEW r \in Requests, JobStep(r) PROVE SignInIsFirst'
  <2> DEFINE j == job[r]
  <2>0. /\ j \in Job /\ JobFits(j)
        /\ Presented(j) => j.token \in Tokens /\ j.session \in Sessions
        /\ j.at = "writeToken" => j.token \in Tokens
    BY <1>0, JobFacts DEF JobsFit
  <2> HIDE DEF j
  <2>1. CASE \/ ReadUser(r) \/ CheckRotation(r) \/ ExtendSession(r) \/ PunishReuse(r)
             \/ RevokeSession(r) \/ ReadToken(r) \/ ListSessions(r) \/ EndLoop(r)
             \/ LiftSecurityHold(r) \/ ReadAccount(r) \/ Rotate(r)
    <3>1. OthersKept(r) /\ job'[r].at # "token"
      BY <1>0, <2>1, Unwatched DEF Watched
    <3>2. UNCHANGED token
      BY <2>1
         DEF ReadUser, CheckRotation, ExtendSession, PunishReuse, RevokeSession, ReadToken,

                  ListSessions, EndLoop, LiftSecurityHold, ReadAccount, Rotate
    <3> QED
      BY <1>a, <3>1, <3>2
  <2>2. CASE CreateSession(r)
    <3> DEFINE s == First(NewSessions)
    <3>1. s \in Sessions /\ session[s].status = "none" /\ UNCHANGED token
      BY <2>2, NewSessionMember DEF CreateSession
    <3>2. OthersKept(r) /\ job'[r] = [j EXCEPT !.at = "token", !.session = s]
      BY <1>0, <2>2 DEF CreateSession, Goto, OthersKept, TypeOK, j
    <3>3. job'[r].session = s
      BY <2>0, <3>2 DEF Job
    <3> HIDE DEF s
    <3>4. \A t \in Tokens : Created(t) => token[t].session # s
      BY <1>0, <3>1 DEF StoresFit, TokenFits, Exists
    <3>5. \A q \in Requests : job[q].at = "token" => job[q].session # s
      BY <1>0, <3>1 DEF JobsFit, JobFits, Exists
    <3>6. \A q \in Requests : q # r => job'[q] = job[q]
      BY <3>2 DEF OthersKept
    <3>7. ASSUME NEW p \in Requests, job'[p].at = "token"
          PROVE  /\ \A t \in Tokens : Created(t)' => token'[t].session # job'[p].session
                 /\ \A q \in Requests :
                       job'[q].at = "token" /\ job'[q].session = job'[p].session => q = p
      <4>1. CASE p = r
        BY <3>1, <3>3, <3>4, <3>5, <3>6, <3>7, <4>1 DEF Created
      <4>2. CASE p # r
        BY <3>1, <3>3, <3>5, <3>6, <3>7, <4>2 DEF Created, SignInIsFirst
      <4> QED
        BY <4>1, <4>2
    <3> QED
      BY <3>7 DEF SignInIsFirst
  <2>3. CASE CreateToken(r) \/ CreateNext(r)
    <3> DEFINE t == First(NewTokens)
    <3>1. t \in Tokens
      BY <2>3, NewTokenMember DEF CreateToken, CreateNext
    <3>2. /\ token'[t] = NewToken(j.session, j.version)
          /\ \A u \in Tokens : u # t => token'[u] = token[u]
      BY <1>0, <2>3, <3>1 DEF CreateToken, CreateNext, TypeOK, j
    <3>3. token'[t].session = j.session
      BY <3>2 DEF NewToken, NoToken
    <3>4. OthersKept(r) /\ job'[r].at # "token"
      <4>1. CASE CreateToken(r)
        BY <1>0, <4>1, Unwatched DEF Watched
      <4>2. CASE CreateNext(r)
        BY <1>0, <2>0, <4>2 DEF CreateNext, Goto, OthersKept, TypeOK, Job, j
      <4> QED
        BY <2>3, <4>1, <4>2
    <3>5. \A q \in Requests : q # r /\ job[q].at = "token" => job[q].session # j.session
      <4>1. CASE j.at = "token"
        BY <4>1 DEF SignInIsFirst, j
      <4>2. CASE Presented(j)
        <5>1. j.token \in Tokens /\ Created(j.token) /\ token[j.token].session = j.session
          BY <1>0, <2>0, <4>2 DEF JobFits, StoresFit
        <5> QED
          BY <5>1 DEF SignInIsFirst
      <4> QED
        BY <2>3, <4>1, <4>2 DEF CreateToken, CreateNext, Presented, j
    <3> HIDE DEF t
    <3> QED
      BY <3>1, <3>2, <3>3, <3>4, <3>5 DEF SignInIsFirst, OthersKept, Created
  <2>4. CASE EnterRotation(r)
    <3>1. \/ Finish(r)
          \/ \E at \in {"create", "reuse"} :
                Goto(r, [j EXCEPT !.at = at, !.record = token[j.token]])
      BY <2>4 DEF EnterRotation, j
    <3>2. OthersKept(r) /\ job'[r].at # "token"
      <4>1. CASE Finish(r)
        BY <1>0, <4>1, FinishStep DEF Idle
      <4>2. ASSUME NEW at \in {"create", "reuse"},
                   Goto(r, [j EXCEPT !.at = at, !.record = token[j.token]])
            PROVE  OthersKept(r) /\ job'[r].at # "token"
        BY <1>0, <2>0, <4>2 DEF Goto, OthersKept, TypeOK, Job
      <4> QED
        BY <3>1, <4>1, <4>2
    <3> QED
      BY <1>a, <2>4, <3>2 DEF EnterRotation
  <2>5. CASE ConsumeToken(r)
    <3>1. OthersKept(r) /\ job'[r].at # "token"
      BY <1>0, <2>0, <2>5 DEF ConsumeToken, Goto, OthersKept, TypeOK, Job, j
    <3>2. \A t \in Tokens : t # j.token => token'[t] = token[t]
      BY <1>0, <2>5 DEF ConsumeToken, TypeOK, j
    <3>3. Created(j.token)
      BY <1>0, <2>0, <2>5 DEF ConsumeToken, JobFits, Presented, StoresFit, j
    <3> QED
      BY <1>a, <3>1, <3>2, <3>3 DEF Created
  <2>6. CASE WriteToken(r)
    <3>1. OthersKept(r) /\ job'[r].at # "token"
      BY <1>0, <2>6, Unwatched DEF Watched
    <3>2. \A t \in Tokens : t # j.token => token'[t] = token[t]
      BY <1>0, <2>6 DEF WriteToken, TypeOK, j
    <3>3. Created(j.token)
      BY <1>0, <2>0, <2>6 DEF WriteToken, JobFits, StoresFit, j
    <3> QED
      BY <1>a, <3>1, <3>2, <3>3 DEF Created
  <2>7. CASE ListToRevoke(r) \/ \E s \in Sessions : RevokeListed(r, s)
    <3>1. OthersKept(r) /\ job'[r].at # "token" /\ UNCHANGED token
      <4>1. CASE ListToRevoke(r)
        <5>1. \E todo, goal : Goto(r, [j EXCEPT !.at = "loop", !.todo = todo, !.goal = goal])
          BY <4>1 DEF ListToRevoke, j
        <5>2. PICK todo, goal : Goto(r, [j EXCEPT !.at = "loop", !.todo = todo, !.goal = goal])
          BY <5>1
        <5> QED
          BY <1>0, <2>0, <4>1, <5>2 DEF ListToRevoke, Goto, OthersKept, TypeOK, Job
      <4>2. ASSUME NEW s \in Sessions, RevokeListed(r, s)
            PROVE  OthersKept(r) /\ job'[r].at # "token" /\ UNCHANGED token
        BY <1>0, <2>0, <4>2 DEF RevokeListed, Goto, OthersKept, TypeOK, Job, j
      <4> QED
        BY <2>7, <4>1, <4>2
    <3> QED
      BY <1>a, <3>1
  <2> QED
    BY <1>2, <2>1, <2>2, <2>3, <2>4, <2>5, <2>6, <2>7 DEF JobStep
<1>3. CASE \/ UNCHANGED vars \/ Reinstate \/ (\E s \in Sessions : SessionExpires(s))
           \/ (\E t \in Tokens : LockLapses(t))
  <2>1. UNCHANGED <<job, token>>
    BY <1>3 DEF vars, Reinstate, SessionExpires, LockLapses
  <2> QED
    BY <1>0, <2>1, SignInQuiet
<1>4. ASSUME NEW t \in Tokens, GracePasses(t) PROVE SignInIsFirst'
  <2>1. UNCHANGED job /\ \A u \in Tokens : token'[u].status = token[u].status
    BY <1>0, <1>4 DEF GracePasses, TypeOK, Token
  <2> QED
    BY <1>0, <2>1, SignInQuiet
<1> QED
  BY <1>1, <1>2, <1>3, <1>4 DEF Next

(* What a step may change without touching the line of tokens.              *)
RotationsKept ==
    \A q \in Requests : Rotating(q)' =>
        /\ Rotating(q) /\ job'[q].token = job[q].token /\ job'[q].session = job[q].session
        /\ lock'[job[q].token] = lock[job[q].token]
NoneRotatable == \A t \in Tokens : Rotatable(t)' => Rotatable(t)

(* A step without a new rotatable token and without a rotation keeps the
   line.                                                                    *)
LEMMA OneLineQuiet ==
  ASSUME TypeOK, Grows, OneLine, RotationsKept, NoneRotatable
  PROVE  OneLine'
<1> SUFFICES ASSUME "lapse" \notin races'
             PROVE  /\ LockedRotations' /\ OneRotation' /\ OneObtainable' /\ RotationsOfIt'
  BY DEF OneLine
<1>1. LockedRotations /\ OneRotation /\ OneObtainable /\ RotationsOfIt
  BY DEF OneLine, Grows
<1>2. \A t \in Tokens : Rotatable(t)' => Rotatable(t) /\ token'[t].session = token[t].session
  BY DEF NoneRotatable, Rotatable, Grows, TokensKept
<1>3. LockedRotations'
  BY <1>1 DEF LockedRotations, RotationsKept
<1>4. OneRotation'
  BY <1>1 DEF OneRotation, RotationsKept
<1>5. OneObtainable'
  BY <1>1, <1>2 DEF OneObtainable
<1>6. RotationsOfIt'
  BY <1>1, <1>2 DEF RotationsOfIt, RotationsKept
<1> QED
  BY <1>3, <1>4, <1>5, <1>6

(* No token comes into a client's reach.                                    *)
LEMMA ObtainQuiet ==
  ASSUME TypeOK, Grows, held' = held,
         \A u \in Tokens : token'[u].status = "consumed" =>
            token[u].status = "consumed" /\ token'[u].next = token[u].next,
         \A q \in Requests : job'[q].at = "extend" => job'[q] = job[q],
         \A t \in Tokens : token'[t].status = "active" => token[t].status # "none"
  PROVE  NoneRotatable
<1> SUFFICES ASSUME NEW t \in Tokens, Rotatable(t)' PROVE Rotatable(t)
  BY DEF NoneRotatable
<1>1. token[t].status = "active"
  BY DEF Rotatable, Grows, TokensKept
<1>2. Obtainable(t)
  BY DEF Rotatable, Obtainable
<1> QED
  BY <1>1, <1>2 DEF Rotatable

(* A request that leaves frees its own locks alone.                         *)
LEMMA LeaveQuiet ==
  ASSUME TypeOK, JobsFit, StoresFit, NEW r \in Requests, OthersKept(r),
         job'[r].at \notin Watched, LockedRotations, UNCHANGED lock \/ Leave(r)
  PROVE  RotationsKept
<1> SUFFICES ASSUME NEW q \in Requests, Rotating(q)'
             PROVE  /\ Rotating(q) /\ job'[q] = job[q]
                    /\ lock'[job[q].token] = lock[job[q].token]
  BY DEF RotationsKept
<1>1. q # r
  BY DEF Rotating, Watched
<1>2. job'[q] = job[q] /\ Rotating(q)
  BY <1>1 DEF OthersKept, Rotating
<1>3. lock[job[q].token] = q
  BY <1>2 DEF LockedRotations
<1>4. job[q].token \in Tokens
  BY <1>2, JobFacts DEF Rotating, Presented
<1> QED
  BY <1>1, <1>2, <1>3, <1>4 DEF Leave

(* One request acts on neither tokens nor credentials.                      *)
LEMMA OneLineAside ==
  ASSUME Agree, Grows, OneLine, NEW r \in Requests, OthersKept(r), job'[r].at \notin Watched,
         UNCHANGED <<token, held>>, UNCHANGED lock \/ Leave(r)
  PROVE  OneLine'
<1> SUFFICES ASSUME "lapse" \notin races PROVE OneLine'
  BY DEF OneLine, Grows
<1>1. RotationsKept
  BY LeaveQuiet DEF Agree, OneLine
<1>2. NoneRotatable
  BY ObtainQuiet DEF Agree, OthersKept, Watched
<1> QED
  BY <1>1, <1>2, OneLineQuiet DEF Agree

(* A session's first token.                                                 *)
LEMMA FirstTokenLine ==
  ASSUME Agree, Grows, SignInIsFirst, OneLine, NEW r \in Requests, CreateToken(r)
  PROVE  OneLine'
<1> USE DEF clients
<1> DEFINE j == job[r]
           t == First(NewTokens)
<1>0. TypeOK /\ StoresFit /\ JobsFit
  BY DEF Agree
<1>1. t \in Tokens /\ token[t].status = "none"
  BY NewTokenMember DEF CreateToken
<1>2. /\ token'[t] = NewToken(j.session, j.version)
      /\ \A u \in Tokens : u # t => token'[u] = token[u]
      /\ held' = held \cup {t} /\ UNCHANGED <<lock, races>> /\ j.at = "token"
  BY <1>0, <1>1 DEF CreateToken, TypeOK
<1>3. token'[t].status = "active" /\ token'[t].session = j.session
  BY <1>2 DEF NewToken, NoToken
<1>4. OthersKept(r) /\ job'[r].at \notin Watched
  BY <1>0, Unwatched
<1> HIDE DEF j, t
<1> SUFFICES ASSUME LockedRotations, OneRotation, OneObtainable, RotationsOfIt
             PROVE  OneLine'
  BY <1>2 DEF OneLine
<1>5. \A q \in Requests : Rotating(q)' => q # r /\ Rotating(q) /\ job'[q] = job[q]
  BY <1>4 DEF Rotating, Watched, OthersKept
<1>6. \A u \in Tokens : u # t /\ Rotatable(u)' =>
          Rotatable(u) /\ token'[u] = token[u] /\ token[u].session # j.session
  <2> SUFFICES ASSUME NEW u \in Tokens, u # t, Rotatable(u)'
               PROVE  Rotatable(u) /\ token[u].session # j.session
    BY <1>2
  <2>1. token[u].status = "active"
    BY <1>2 DEF Rotatable
  <2>2. Obtainable(u)
    BY <1>2, <1>3, <1>4 DEF Rotatable, Obtainable, OthersKept, Watched
  <2>3. token[u].session # j.session
    BY <1>2, <2>1 DEF SignInIsFirst, Created, j
  <2> QED
    BY <2>1, <2>2, <2>3 DEF Rotatable
<1>7. \A q \in Requests : Rotating(q) => job[q].session # j.session
  <2> SUFFICES ASSUME NEW q \in Requests, Rotating(q) PROVE job[q].session # j.session
    OBVIOUS
  <2>1. job[q].token \in Tokens /\ Created(job[q].token) /\ token[job[q].token].session = job[q].session
    BY <1>0, JobFacts DEF Rotating, Presented, JobsFit, JobFits, StoresFit
  <2> QED
    BY <1>2, <2>1 DEF SignInIsFirst, j
<1>8. LockedRotations' /\ OneRotation'
  BY <1>2, <1>5 DEF LockedRotations, OneRotation
<1>9. OneObtainable'
  BY <1>3, <1>6 DEF OneObtainable
<1>10. RotationsOfIt'
  BY <1>3, <1>5, <1>6, <1>7 DEF RotationsOfIt
<1> QED
  BY <1>8, <1>9, <1>10 DEF OneLine

(* A rotation begins: its token is the only one of the session, so that a
   rotation that was under way would have its lock.                         *)
LEMMA EnterLine ==
  ASSUME Agree, Grows, OneLine, NEW r \in Requests, EnterRotation(r)
  PROVE  OneLine'
<1> USE DEF clients
<1> DEFINE j == job[r]
<1>0. TypeOK /\ StoresFit /\ JobsFit
  BY DEF Agree
<1>1. /\ j \in Job /\ JobFits(j) /\ j.at = "lock" /\ Presented(j)
      /\ j.token \in Tokens /\ j.session \in Sessions
  BY <1>0, JobFacts DEF JobsFit, EnterRotation, Presented
<1>2. /\ j.token \in held /\ token[j.token].session = j.session /\ UNCHANGED <<token, races>>
      /\ token[j.token].status # "none"
  BY <1>0, <1>1 DEF JobFits, EnterRotation, StoresFit, Created
<1> HIDE DEF j
<1> SUFFICES ASSUME LockedRotations, OneRotation, OneObtainable, RotationsOfIt PROVE OneLine'
  BY <1>2 DEF OneLine
<1>3. CASE Finish(r) /\ UNCHANGED <<lock, held>>
  <2>1. OthersKept(r) /\ job'[r].at \notin Watched
    BY <1>0, <1>3, FinishStep DEF Idle, Watched
  <2> QED
    BY <1>2, <1>3, <2>1, OneLineAside
<1>4. CASE /\ Finish(r) /\ UNCHANGED lock /\ token[j.token].status = "consumed"
           /\ Deliver(j, token[j.token].next)
  <2>1. OthersKept(r) /\ job'[r].at \notin Watched
    BY <1>0, <1>4, FinishStep DEF Idle, Watched
  <2>2. RotationsKept
    BY <1>0, <1>4, <2>1, LeaveQuiet
  <2>3. NoneRotatable
    <3> SUFFICES ASSUME NEW t \in Tokens, Obtainable(t)' PROVE Obtainable(t)
      BY <1>2 DEF NoneRotatable, Rotatable
    <3>1. held' = held \cup {token[j.token].next}
      BY <1>4 DEF Deliver
    <3> QED
      BY <1>1, <1>2, <1>4, <2>1, <3>1 DEF Obtainable, OthersKept, Watched
  <2> QED
    BY <1>0, <2>2, <2>3, OneLineQuiet DEF OneLine
<1>5. CASE /\ lock[j.token] = Nobody /\ token[j.token].status = "active"
           /\ lock' = [lock EXCEPT ![j.token] = r] /\ UNCHANGED held
           /\ Goto(r, [j EXCEPT !.at = "create", !.record = token[j.token]])
  <2>1. OthersKept(r) /\ job'[r] = [j EXCEPT !.at = "create", !.record = token[j.token]]
    BY <1>0, <1>5 DEF Goto, OthersKept, TypeOK
  <2>2. job'[r].at = "create" /\ job'[r].token = j.token /\ job'[r].session = j.session
    BY <1>1, <2>1 DEF Job
  <2>3. \A t \in Tokens : Rotatable(t)' => Rotatable(t)
    BY <1>2, <1>5, <2>1, <2>2 DEF Rotatable, Obtainable, OthersKept
  <2>4. Rotatable(j.token)
    BY <1>2, <1>5 DEF Rotatable, Obtainable
  <2>5. \A q \in Requests : q # r /\ Rotating(q)' =>
            /\ Rotating(q) /\ job'[q] = job[q] /\ job[q].token # j.token
            /\ job[q].token \in Tokens
    <3> SUFFICES ASSUME NEW q \in Requests, q # r, Rotating(q)'
                 PROVE  Rotating(q) /\ job[q].token # j.token /\ job[q].token \in Tokens
      BY <2>1 DEF OthersKept
    <3>1. Rotating(q)
      BY <2>1 DEF OthersKept, Rotating
    <3>2. lock[job[q].token] = q /\ q # Nobody
      BY <3>1, SessionsAssumption DEF LockedRotations
    <3>3. job[q].token \in Tokens
      BY <1>0, <3>1, JobFacts DEF Rotating, Presented
    <3> QED
      BY <1>5, <3>1, <3>2, <3>3
  <2>6. \A q \in Requests : q # r /\ Rotating(q)' => job[q].session # j.session
    BY <1>1, <1>2, <2>4, <2>5 DEF RotationsOfIt
  <2>7. LockedRotations'
    <3>1. lock'[j.token] = r /\ \A t \in Tokens : t # j.token => lock'[t] = lock[t]
      BY <1>0, <1>1, <1>5 DEF TypeOK
    <3> QED
      BY <2>2, <2>5, <3>1 DEF LockedRotations
  <2>8. OneRotation'
    <3> SUFFICES ASSUME NEW p \in Requests, NEW q \in Requests, Rotating(p)', Rotating(q)',
                        job'[p].session = job'[q].session
                 PROVE  p = q
      BY DEF OneRotation
    <3> QED
      BY <2>2, <2>5, <2>6 DEF OneRotation
  <2>9. OneObtainable'
    BY <1>2, <2>3 DEF OneObtainable
  <2>10. RotationsOfIt'
    <3> SUFFICES ASSUME NEW t \in Tokens, NEW q \in Requests, Rotatable(t)', Rotating(q)',
                        job'[q].session = token'[t].session
                 PROVE  job'[q].token = t
      BY DEF RotationsOfIt
    <3>1. CASE q = r
      BY <1>1, <1>2, <2>2, <2>3, <2>4, <3>1 DEF OneObtainable
    <3>2. CASE q # r
      BY <1>2, <2>3, <2>5, <3>2 DEF RotationsOfIt
    <3> QED
      BY <3>1, <3>2
  <2> QED
    BY <2>7, <2>8, <2>9, <2>10 DEF OneLine
<1>6. CASE /\ lock[j.token] = Nobody
           /\ lock' = [lock EXCEPT ![j.token] = r] /\ UNCHANGED held
           /\ Goto(r, [j EXCEPT !.at = "reuse", !.record = token[j.token]])
  <2>1. OthersKept(r) /\ job'[r] = [j EXCEPT !.at = "reuse", !.record = token[j.token]]
    BY <1>0, <1>6 DEF Goto, OthersKept, TypeOK
  <2>2. job'[r].at = "reuse"
    BY <1>1, <2>1 DEF Job
  <2>3. NoneRotatable
    BY <1>0, <1>2, <1>6, <2>1, <2>2, ObtainQuiet DEF OthersKept
  <2>4. RotationsKept
    <3> SUFFICES ASSUME NEW q \in Requests, Rotating(q)'
                 PROVE  /\ Rotating(q) /\ job'[q] = job[q]
                        /\ lock'[job[q].token] = lock[job[q].token]
      BY DEF RotationsKept
    <3>1. Rotating(q) /\ job'[q] = job[q]
      BY <2>1, <2>2 DEF OthersKept, Rotating
    <3>2. lock[job[q].token] = q /\ q # Nobody
      BY <3>1, SessionsAssumption DEF LockedRotations
    <3>3. job[q].token \in Tokens
      BY <1>0, <3>1, JobFacts DEF Rotating, Presented
    <3> QED
      BY <1>0, <1>6, <3>1, <3>2, <3>3 DEF TypeOK
  <2> QED
    BY <1>0, <2>3, <2>4, OneLineQuiet DEF OneLine
<1> QED
  BY <1>3, <1>4, <1>5, <1>6 DEF EnterRotation, MayRotate, j

(* The next token is nobody's yet.                                          *)
LEMMA NextTokenLine ==
  ASSUME Agree, Grows, OneLine, NEW r \in Requests, CreateNext(r)
  PROVE  OneLine'
<1> USE DEF clients
<1> DEFINE j == job[r]
           t == First(NewTokens)
<1>0. TypeOK /\ StoresFit /\ JobsFit
  BY DEF Agree
<1>1. t \in Tokens /\ token[t].status = "none" /\ j \in Job
  BY <1>0, NewTokenMember DEF CreateNext, TypeOK
<1>2. /\ token'[t] = NewToken(j.session, j.version)
      /\ \A u \in Tokens : u # t => token'[u] = token[u]
      /\ UNCHANGED <<held, lock>> /\ j.at = "create"
  BY <1>0, <1>1 DEF CreateNext, TypeOK
<1>3. token'[t].status = "active"
  BY <1>2 DEF NewToken, NoToken
<1>4. OthersKept(r) /\ job'[r] = [j EXCEPT !.at = "consume", !.next = t]
  BY <1>0 DEF CreateNext, Goto, OthersKept, TypeOK
<1>5. job'[r].at = "consume" /\ job'[r].token = j.token /\ job'[r].session = j.session
  BY <1>1, <1>4 DEF Job
<1> HIDE DEF t
<1>6. RotationsKept
  BY <1>2, <1>4, <1>5 DEF RotationsKept, OthersKept, Rotating
<1> HIDE DEF j
<1>7. \A u \in Tokens : u = t => ~Obtainable(u)'
  <2>1. t \notin held
    BY <1>0, <1>1 DEF StoresFit, Created
  <2>2. \A u \in Tokens : token'[u].status = "consumed" => token'[u].next # t
    BY <1>0, <1>1, <1>2, <1>3 DEF StoresFit, TokenFits, Created
  <2>3. \A q \in Requests : job'[q].at = "extend" => job'[q].next # t
    <3>1. \A q \in Requests : job[q].at = "extend" => job[q].next \in Tokens /\ Created(job[q].next)
      BY <1>0 DEF JobsFit, JobFits
    <3>2. \A q \in Requests : job'[q].at = "extend" => job'[q] = job[q]
      BY <1>4, <1>5 DEF OthersKept
    <3> QED
      BY <1>1, <3>1, <3>2 DEF Created
  <2> QED
    BY <1>2, <2>1, <2>2, <2>3 DEF Obtainable
<1>8. NoneRotatable
  <2> SUFFICES ASSUME NEW u \in Tokens, Rotatable(u)' PROVE Rotatable(u)
    BY DEF NoneRotatable
  <2>1. u # t
    BY <1>7 DEF Rotatable
  <2>2. token[u].status = "active"
    BY <1>2, <2>1 DEF Rotatable
  <2>3. Obtainable(u)
    BY <1>2, <1>3, <1>4, <1>5 DEF Rotatable, Obtainable, OthersKept
  <2> QED
    BY <2>2, <2>3 DEF Rotatable
<1> QED
  BY <1>0, <1>6, <1>8, OneLineQuiet

(* The token is consumed: its successor takes its place.                    *)
LEMMA ConsumeLine ==
  ASSUME Agree, Grows, OneLine, NEW r \in Requests, ConsumeToken(r)
  PROVE  OneLine'
<1> USE DEF clients
<1> DEFINE j == job[r]
<1>0. TypeOK /\ StoresFit /\ JobsFit
  BY DEF Agree
<1>1. /\ j \in Job /\ j.at = "consume" /\ j.token \in Tokens /\ j.next \in Tokens
      /\ Created(j.next) /\ token[j.next].session = j.session /\ Rotating(r)
  BY <1>0, JobFacts DEF JobsFit, JobFits, ConsumeToken, Presented, Rotating
<1> HIDE DEF j
<1>2. /\ token'[j.token].status = "consumed" /\ token'[j.token].next = j.next
      /\ \A t \in Tokens : t # j.token => token'[t] = token[t]
      /\ UNCHANGED <<held, lock, races>>
  <2>1. /\ token' = [token EXCEPT ![j.token] = [j.record EXCEPT !.status = "consumed",
                                                  !.next = j.next, !.grace = TRUE]]
        /\ j.record \in Token /\ UNCHANGED <<held, lock, races>>
    BY <1>1 DEF ConsumeToken, Job, j
  <2> QED
    BY <1>0, <1>1, <2>1 DEF TypeOK, Token
<1>3. OthersKept(r) /\ job'[r] = [j EXCEPT !.at = "extend"]
  BY <1>0 DEF ConsumeToken, Goto, OthersKept, TypeOK, j
<1>4. job'[r].at = "extend" /\ job'[r].next = j.next
  BY <1>1, <1>3 DEF Job
<1> SUFFICES ASSUME LockedRotations, OneRotation, OneObtainable, RotationsOfIt PROVE OneLine'
  BY <1>2 DEF OneLine
<1>5. \A q \in Requests : Rotating(q)' =>
          q # r /\ Rotating(q) /\ job'[q] = job[q] /\ job[q].session # j.session
  BY <1>1, <1>3, <1>4 DEF OthersKept, Rotating, OneRotation, j
<1>6. \A t \in Tokens : Rotatable(t)' =>
          /\ t # j.token /\ token'[t] = token[t]
          /\ Rotatable(t) \/ t = j.next
  <2> SUFFICES ASSUME NEW t \in Tokens, Rotatable(t)', t # j.next PROVE t # j.token /\ Rotatable(t)
    BY <1>2 DEF Rotatable
  <2>1. t # j.token /\ token[t].status = "active"
    BY <1>2 DEF Rotatable
  <2>2. Obtainable(t)
    BY <1>2, <1>3, <1>4 DEF Rotatable, Obtainable, OthersKept
  <2> QED
    BY <2>1, <2>2 DEF Rotatable
<1>7. \A t \in Tokens : Rotatable(t)' /\ token[t].session = j.session => t = j.next
  BY <1>1, <1>6 DEF RotationsOfIt, j
<1>8. LockedRotations' /\ OneRotation'
  BY <1>2, <1>5 DEF LockedRotations, OneRotation
<1>9. OneObtainable'
  <2> SUFFICES ASSUME NEW t \in Tokens, NEW u \in Tokens, Rotatable(t)', Rotatable(u)',
                      token'[u].session = token'[t].session
               PROVE  u = t
    BY DEF OneObtainable
  <2> QED
    BY <1>1, <1>6, <1>7 DEF OneObtainable
<1>10. RotationsOfIt'
  <2> SUFFICES ASSUME NEW t \in Tokens, NEW q \in Requests, Rotatable(t)', Rotating(q)',
                      job'[q].session = token'[t].session
               PROVE  job'[q].token = t
    BY DEF RotationsOfIt
  <2> QED
    BY <1>1, <1>5, <1>6 DEF RotationsOfIt
<1> QED
  BY <1>8, <1>9, <1>10 DEF OneLine

(* The successor is handed out, or is not.                                  *)
LEMMA ExtendLine ==
  ASSUME Agree, Grows, OneLine, NEW r \in Requests, ExtendSession(r)
  PROVE  OneLine'
<1> USE DEF clients
<1>0. TypeOK /\ StoresFit /\ JobsFit
  BY DEF Agree
<1> SUFFICES ASSUME LockedRotations PROVE OneLine'
  BY DEF OneLine, Grows
<1>1. OthersKept(r) /\ job'[r].at \notin Watched
  BY <1>0, Unwatched
<1>2. /\ job[r].at = "extend" /\ UNCHANGED token /\ Leave(r)
      /\ held' \subseteq held \cup {job[r].next}
  BY DEF ExtendSession, Deliver
<1>3. RotationsKept
  BY <1>0, <1>1, <1>2, LeaveQuiet
<1>4. NoneRotatable
  <2> SUFFICES ASSUME NEW t \in Tokens, Obtainable(t)' PROVE Obtainable(t)
    BY <1>2 DEF NoneRotatable, Rotatable
  <2> QED
    BY <1>1, <1>2 DEF Obtainable, OthersKept, Watched
<1> QED
  BY <1>0, <1>3, <1>4, OneLineQuiet

(* A token is revoked.                                                      *)
LEMMA RevokeLine ==
  ASSUME Agree, Grows, OneLine, NEW r \in Requests, WriteToken(r)
  PROVE  OneLine'
<1> USE DEF clients
<1> DEFINE j == job[r]
<1>0. TypeOK /\ StoresFit /\ JobsFit
  BY DEF Agree
<1>1. j \in Job /\ j.token \in Tokens
  BY <1>0, JobFacts DEF WriteToken
<1> HIDE DEF j
<1> SUFFICES ASSUME LockedRotations PROVE OneLine'
  BY DEF OneLine, Grows
<1>2. OthersKept(r) /\ job'[r].at \notin Watched
  BY <1>0, Unwatched
<1>3. /\ \A t \in Tokens : t # j.token => token'[t] = token[t]
      /\ token'[j.token].status = "revoked" /\ UNCHANGED <<held, lock>>
  <2>1. /\ token' = [token EXCEPT ![j.token] = RevokedRecord(j.record)] /\ j.record \in Token
        /\ UNCHANGED <<held, lock>>
    BY <1>1 DEF WriteToken, Job, j
  <2> QED
    BY <1>0, <1>1, <2>1 DEF RevokedRecord, Token, TypeOK
<1>4. RotationsKept
  BY <1>0, <1>2, <1>3, LeaveQuiet
<1>5. NoneRotatable
  <2>1. \A u \in Tokens : token'[u].status = "consumed" =>
            token[u].status = "consumed" /\ token'[u].next = token[u].next
    BY <1>3
  <2>2. \A t \in Tokens : token'[t].status = "active" => token[t].status # "none"
    BY <1>3
  <2> QED
    BY <1>0, <1>2, <1>3, <2>1, <2>2, ObtainQuiet DEF OthersKept, Watched
<1> QED
  BY <1>0, <1>4, <1>5, OneLineQuiet

(* Every step keeps one line of tokens per session.                         *)
LEMMA OneLineStep ==
  ASSUME Agree, Grows, SignInIsFirst, OneLine, [Next]_vars
  PROVE  OneLine'
<1> USE DEF clients
<1>0. TypeOK /\ StoresFit /\ JobsFit
  BY DEF Agree
<1>1. ASSUME UNCHANGED <<job, token, held, lock>> PROVE OneLine'
  <2>1. RotationsKept
    BY <1>1 DEF RotationsKept, Rotating
  <2>2. NoneRotatable
    BY <1>0, <1>1, ObtainQuiet
  <2> QED
    BY <1>0, <2>1, <2>2, OneLineQuiet
<1>2. ASSUME NEW r \in Requests, BeginJob(r) \/ Crash(r) PROVE OneLine'
  <2>1. OthersKept(r) /\ job'[r].at \notin Watched
    BY <1>0, <1>2, Unwatched
  <2>2. UNCHANGED <<token, held>> /\ (UNCHANGED lock \/ Leave(r))
    BY <1>2
       DEF BeginJob, BeginLogin, BeginReset, BeginRefresh, BeginRequest, Restrict, Crash
  <2> QED
    BY <2>1, <2>2, OneLineAside
<1>3. ASSUME NEW r \in Requests, JobStep(r) PROVE OneLine'
  <2>1. CASE \/ ReadUser(r) \/ CheckRotation(r) \/ PunishReuse(r) \/ RevokeSession(r)
             \/ ReadToken(r) \/ ListSessions(r) \/ EndLoop(r) \/ LiftSecurityHold(r)
             \/ ReadAccount(r) \/ Rotate(r)
    <3>1. OthersKept(r) /\ job'[r].at \notin Watched
      BY <1>0, <2>1, Unwatched
    <3>2. UNCHANGED <<token, held>> /\ (UNCHANGED lock \/ Leave(r))
      BY <2>1
         DEF ReadUser, CheckRotation, PunishReuse, RevokeSession, ReadToken, ListSessions,
                  EndLoop, LiftSecurityHold, ReadAccount, Rotate
    <3> QED
      BY <3>1, <3>2, OneLineAside
  <2>2. CASE \/ CreateSession(r) \/ ListToRevoke(r) \/ \E s \in Sessions : RevokeListed(r, s)
    <3>1. OthersKept(r) /\ job'[r].at \in {"token", "loop"} /\ UNCHANGED <<token, held, lock>>
      <4>0. job[r] \in Job
        BY <1>0 DEF TypeOK
      <4>1. CASE CreateSession(r)
        BY <1>0, <4>0, <4>1 DEF CreateSession, Goto, OthersKept, TypeOK, Job
      <4>2. CASE ListToRevoke(r)
        <5>1. \E todo, goal : Goto(r, [job[r] EXCEPT !.at = "loop", !.todo = todo, !.goal = goal])
          BY <4>2 DEF ListToRevoke
        <5>2. PICK todo, goal :
                  Goto(r, [job[r] EXCEPT !.at = "loop", !.todo = todo, !.goal = goal])
          BY <5>1
        <5> QED
          BY <1>0, <4>0, <4>2, <5>2 DEF ListToRevoke, Goto, OthersKept, TypeOK, Job
      <4>3. ASSUME NEW s \in Sessions, RevokeListed(r, s)
            PROVE  OthersKept(r) /\ job'[r].at = "loop" /\ UNCHANGED <<token, held, lock>>
        BY <1>0, <4>0, <4>3 DEF RevokeListed, Goto, OthersKept, TypeOK, Job
      <4> QED
        BY <2>2, <4>1, <4>2, <4>3
    <3>2. RotationsKept
      BY <3>1 DEF RotationsKept, Rotating, OthersKept
    <3>3. NoneRotatable
      BY <1>0, <3>1, ObtainQuiet DEF OthersKept
    <3> QED
      BY <1>0, <3>2, <3>3, OneLineQuiet
  <2> QED
    BY <1>3, <2>1, <2>2, FirstTokenLine, EnterLine, NextTokenLine, ConsumeLine, ExtendLine,
       RevokeLine DEF JobStep
<1>4. CASE UNCHANGED vars \/ Reinstate \/ \E s \in Sessions : SessionExpires(s)
  BY <1>1, <1>4 DEF vars, Reinstate, SessionExpires
<1>5. ASSUME NEW t \in Tokens, GracePasses(t) PROVE OneLine'
  <2>1. /\ UNCHANGED <<job, held, lock>>
        /\ \A u \in Tokens : token'[u].status = token[u].status /\ token'[u].next = token[u].next
    BY <1>0, <1>5 DEF GracePasses, TypeOK, Token
  <2>2. RotationsKept
    BY <2>1 DEF RotationsKept, Rotating
  <2>3. NoneRotatable
    BY <1>0, <2>1, ObtainQuiet
  <2> QED
    BY <1>0, <2>2, <2>3, OneLineQuiet
<1>6. ASSUME NEW t \in Tokens, LockLapses(t) PROVE OneLine'
  BY <1>6 DEF LockLapses, Happens, OneLine
<1> QED
  BY <1>2, <1>3, <1>4, <1>5, <1>6 DEF Next

-----------------------------------------------------------------------------
(* The theorems of the whole invariant.                                     *)

(* Every behaviour has the invariant.                                       *)
LEMMA SessionsInvHolds == Spec => []SessionsInv
<1>1. Init => SessionsInv
  <2> SUFFICES ASSUME Init PROVE SessionsInv
    OBVIOUS
  <2>1. Agree
    BY InitAgree
  <2>2. EndedIsDead
    BY DEF Init, EndedIsDead, LoopFits, Idle
  <2>3. SignInIsFirst
    BY DEF Init, SignInIsFirst, Idle
  <2>4. \A t \in Tokens : ~Rotatable(t)
    BY DEF Init, Rotatable, NoToken
  <2>5. \A r \in Requests : ~Rotating(r)
    BY DEF Init, Rotating, Idle
  <2>6. OneLine
    BY <2>4, <2>5 DEF OneLine, LockedRotations, OneRotation, OneObtainable, RotationsOfIt
  <2> QED
    BY <2>1, <2>2, <2>3, <2>6 DEF SessionsInv, Agree
<1>2. SessionsInv /\ [Next]_vars => SessionsInv'
  <2> SUFFICES ASSUME SessionsInv, [Next]_vars PROVE SessionsInv'
    OBVIOUS
  <2>1. Agree /\ Agree' /\ Grows
    BY AgreeStep, GrowsStep DEF SessionsInv, Agree
  <2>2. EndedIsDead' /\ SignInIsFirst' /\ OneLine'
    BY <2>1, EndedStep, SignInStep, OneLineStep DEF SessionsInv
  <2> QED
    BY <2>1, <2>2 DEF SessionsInv, Agree
<1> QED
  BY <1>1, <1>2, PTL DEF Spec

(* Concurrent refreshes of a session, and a repeated answer within the grace
   period, leave it with one refresh token that can be rotated, unless a
   rotation outlived its lock.                                              *)
THEOREM OneTokenPerSession == Spec => []OneLiveToken
<1>1. SessionsInv => OneLiveToken
  BY DEF SessionsInv, TypeOK, OneLine, OneObtainable, Rotatable, Obtainable, OneLiveToken
<1> QED
  BY <1>1, SessionsInvHolds, PTL

(* A session that was revoked or ran out is not brought back by a request that
   read it before: extending and touching write only to active sessions.    *)
THEOREM DeadSessions == Spec => DeadStaysDead
<1>1. SessionsInv /\ SessionsInv' /\ [Next]_vars =>
        [\A s \in Sessions : session[s].status \in {"revoked", "expired"} =>
            session'[s].status \in {"revoked", "expired"}]_vars
  <2> SUFFICES ASSUME SessionsInv, SessionsInv', [Next]_vars, NEW s \in Sessions,
                      session[s].status \in {"revoked", "expired"}
               PROVE  session'[s].status \in {"revoked", "expired"}
    OBVIOUS
  <2>1. session'[s].status # "none" /\ session'[s].status # "active"
    BY GrowsStep DEF SessionsInv, Grows, SessionsKept
  <2>2. session'[s].status \in {"none", "active", "revoked", "expired"}
    BY DEF SessionsInv, TypeOK, Session
  <2> QED
    BY <2>1, <2>2
<1> QED
  BY <1>1, SessionsInvHolds, PTL DEF Spec, DeadStaysDead

(* No step but reinstatement lifts a suspension: neither a password reset that
   began before it nor a security hold that comes after it.                 *)
THEOREM Suspensions == Spec => SuspensionHolds
<1>1. TypeOK /\ [Next]_vars =>
        [user.status = "suspended" /\ user'.status # "suspended" => Reinstate]_vars
  <2> SUFFICES ASSUME TypeOK, [Next]_vars, user.status = "suspended", ~Reinstate
               PROVE  user'.status = "suspended"
    OBVIOUS
  <2>1. ASSUME UNCHANGED user PROVE user'.status = "suspended"
    BY <2>1
  <2>2. ASSUME RotateTokenVersion PROVE user'.status = "suspended"
    BY <2>2, RotateType
  <2>3. ASSUME NEW r \in Requests, BeginJob(r) PROVE user'.status = "suspended"
    <3>1. CASE Restrict(r, "lock", "locked") \/ Restrict(r, "suspend", "suspended")
      BY <3>1 DEF Restrict, UpdateAccountStatus
    <3> QED
      BY <2>1, <2>3, <3>1 DEF BeginJob, BeginLogin, BeginReset, BeginRefresh, BeginRequest
  <2>4. ASSUME NEW r \in Requests, JobStep(r) PROVE user'.status = "suspended"
    <3>1. CASE LiftSecurityHold(r)
      BY <3>1 DEF LiftSecurityHold, MayLift
    <3>2. CASE PunishReuse(r) \/ Rotate(r)
      BY <2>1, <2>2, <3>2 DEF PunishReuse, Rotate
    <3> QED
      BY <2>1, <2>4, <3>1, <3>2
      DEF JobStep, CreateSession, CreateToken, ReadUser, CheckRotation, EnterRotation, CreateNext,
          ConsumeToken, ExtendSession, RevokeSession, ReadToken, WriteToken, ListSessions,
          ListToRevoke, EndLoop, RevokeListed, ReadAccount
  <2> QED
    BY <2>1, <2>3, <2>4 DEF Next, Crash, SessionExpires, GracePasses, LockLapses, vars
<1> QED
  BY <1>1, TypeCorrect, PTL DEF Spec, SuspensionHolds
=============================================================================
