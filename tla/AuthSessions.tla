---------------------------- MODULE AuthSessions ----------------------------
(***************************************************************************)
(* The sessions of one account: sign-in, refresh-token rotation, sign-out, *)
(* password changes and account status (AuthSessionService, TokenService,  *)
(* PasswordService, AccountStatusService).                                 *)
(*                                                                         *)
(* Two stores decide whether a credential is good.  The database has the   *)
(* account's status and its token version; Redis has the session records,  *)
(* an index of the account's sessions, and the refresh-token records.      *)
(* Every request reads and writes them one after another: what a request   *)
(* read is in its job and may be stale when it is used.                    *)
(***************************************************************************)
EXTENDS Integers, FiniteSets

CONSTANTS
    Requests,    \* concurrent requests
    Nobody,      \* a rotation lock is free
    MaxSessions, \* bound: sessions ever created
    MaxTokens,   \* bound: refresh tokens ever created
    MaxVersion,  \* bound: how often the token version rotates
    MaxBegun,    \* bound: operations ever begun
    ReuseResponses, \* REFRESH_TOKEN_REUSE_RESPONSE
    Operations,  \* the operations of this instance
    Allowed      \* the races that may happen in this instance

AllOperations == {"login", "refresh", "logout", "one", "others", "all", "list",
                  "change", "reset", "lock", "suspend", "reinstate", "everyone"}

(* "lapse"      a rotation lock ran out while its owner was at work
   "unindexed"  a sign-out of the other sessions did not find one of them in
                the index                                                   *)
Races == {"lapse", "unindexed"}

ASSUME SessionsAssumption ==
    /\ Nobody \notin Requests
    /\ MaxSessions \in Nat /\ MaxTokens \in Nat /\ MaxVersion \in Nat /\ MaxBegun \in Nat
    /\ ReuseResponses \subseteq {"session", "user"}
    /\ Operations \subseteq AllOperations /\ Allowed \subseteq Races

Sessions == 1 .. MaxSessions
Tokens == 1 .. MaxTokens
Versions == 0 .. MaxVersion
Statuses == {"active", "locked", "suspended"}

VARIABLES
    user,     \* users: status and tokenVersion
    session,  \* auth:session:<id>
    index,    \* auth:user-sessions:<user>
    token,    \* refresh-token records, by jti
    lock,     \* refresh-rotate:<jti>
    issued,   \* access tokens that clients have
    held,     \* refresh tokens that clients have
    ended,    \* history: sessions that an operation has ended
    job,      \* what each request is doing
    begun,    \* how many operations have begun
    races     \* history: see Races

vars == <<user, session, index, token, lock, issued, held, ended, job, begun, races>>
clients == <<issued, held>>

Session == [status : {"none", "active", "revoked", "expired"}, version : Versions]
Token == [status : {"none", "active", "consumed", "revoked"},
          session : Sessions \cup {0}, version : Versions,
          next : Tokens \cup {0}, grace : BOOLEAN]
Credential == [session : Sessions, version : Versions]

NoSession == [status |-> "none", version |-> 0]
NoToken == [status |-> "none", session |-> 0, version |-> 0, next |-> 0, grace |-> FALSE]

(* A request: its operation and step, the session and token it is about, the
   version and status of the account as it read them, the record it read and
   the sessions it still has to revoke.                                     *)
Idle == [op |-> "none", at |-> "idle", session |-> 0, token |-> 0, version |-> 0,
         status |-> "active", record |-> NoToken, next |-> 0, todo |-> {}, goal |-> {}]

Job == [op : AllOperations \cup {"none"},
        at : {"idle", "session", "token", "user", "check", "lock", "create", "consume", "extend",
              "reuse", "revoke", "list", "rotate", "loop", "readToken", "writeToken", "lift"},
        session : Sessions \cup {0}, token : Tokens \cup {0}, version : Versions,
        status : Statuses, record : Token, next : Tokens \cup {0},
        todo : SUBSET Sessions, goal : SUBSET Sessions]

Init ==
    /\ user = [status |-> "active", version |-> 0]
    /\ session = [s \in Sessions |-> NoSession]
    /\ index = {}
    /\ token = [t \in Tokens |-> NoToken]
    /\ lock = [t \in Tokens |-> Nobody]
    /\ issued = {} /\ held = {}
    /\ ended = {}
    /\ job = [r \in Requests |-> Idle]
    /\ begun = 0 /\ races = {}

-----------------------------------------------------------------------------
Goto(r, j) == job' = [job EXCEPT ![r] = j]
Finish(r) == Goto(r, Idle)
Begin(r, op, j) ==
    /\ op \in Operations /\ job[r] = Idle
    /\ begun < MaxBegun /\ begun' = begun + 1                       \* bound
    /\ Goto(r, [j EXCEPT !.op = op])
Happens(new) == new \subseteq Allowed /\ races' = races \cup new

Live(s) == session[s].status = "active"
NewSessions == {s \in Sessions : session[s].status = "none"}
NewTokens == {t \in Tokens : token[t].status = "none"}
First(S) == CHOOSE x \in S : \A y \in S : x <= y

(* getCurrentSessionValidation: the version and, "on its own too", the status. *)
Current(version) == user.version = version /\ user.status = "active"

(* A request with this access token is let in (verifyAccessToken).          *)
Usable(c) == Current(c.version) /\ Live(c.session)

(* Mutant: the session record is written whatever has become of it.         *)
UpdateAppliesAlways(s) == TRUE

(* UPDATE_INDEXED_SESSION_SCRIPT: only a session that is still active.      *)
UpdateApplies(s) == Live(s)

UpdateIndexedSession(s, version) ==
    /\ session' = [session EXCEPT ![s] = [status |-> "active", version |-> version]]
    /\ index' = index \cup {s}

(* REVOKE_INDEXED_SESSION_SCRIPT.                                           *)
RevokeKnownSession(s) ==
    IF Live(s) THEN /\ session' = [session EXCEPT ![s].status = "revoked"]
                    /\ index' = index \ {s}
               ELSE UNCHANGED <<session, index>>

(* The sessions that a rotation of the token version ends.                  *)
SessionsToEnd == {s \in Sessions : session[s].status # "none"}

RotateTokenVersion ==
    /\ user.version < MaxVersion                                    \* bound
    /\ user' = [user EXCEPT !.version = @ + 1]
    /\ ended' = ended \cup SessionsToEnd

-----------------------------------------------------------------------------
(* Sign-in, and the new session after a password was set.                   *)

BeginLogin(r) ==
    /\ user.status = "active"
    /\ Begin(r, "login", [Idle EXCEPT !.at = "session", !.version = user.version])
    /\ UNCHANGED <<user, session, index, token, lock, clients, ended, races>>

(* issueTokensForUser, createSession.  A session whose version was rotated
   away since the account was read is one that the rotation ended.          *)
CreateSession(r) ==
    LET j == job[r]
        s == First(NewSessions) IN
    /\ j.at = "session" /\ NewSessions # {}                         \* bound
    /\ session' = [session EXCEPT ![s] = [status |-> "active", version |-> j.version]]
    /\ index' = index \cup {s}
    /\ ended' = IF j.version # user.version THEN ended \cup {s} ELSE ended
    /\ Goto(r, [j EXCEPT !.at = "token", !.session = s])
    /\ UNCHANGED <<user, token, lock, clients, begun, races>>

(* createStatefulRefreshToken; the client gets both tokens.                 *)
NewToken(s, version) ==
    [NoToken EXCEPT !.status = "active", !.session = s, !.version = version]

CreateToken(r) ==
    LET j == job[r]
        t == First(NewTokens) IN
    /\ j.at = "token" /\ NewTokens # {}                             \* bound
    /\ token' = [token EXCEPT ![t] = NewToken(j.session, j.version)]
    /\ issued' = issued \cup {[session |-> j.session, version |-> j.version]}
    /\ held' = held \cup {t}
    /\ Finish(r)
    /\ UNCHANGED <<user, session, index, lock, ended, begun, races>>

-----------------------------------------------------------------------------
(* Refresh.                                                                 *)

(* verifyRefreshToken.  A consumed token passes: rotation deals with it.    *)
BeginRefresh(r, t) ==
    /\ t \in held
    /\ token[t].status \in {"active", "consumed"}
    /\ Live(token[t].session) /\ Current(token[t].version)
    /\ Begin(r, "refresh", [Idle EXCEPT !.at = "user", !.token = t,
                            !.session = token[t].session])
    /\ UNCHANGED <<user, session, index, token, lock, clients, ended, races>>

(* requireExistingUser: the new tokens get the version of this read.        *)
ReadUser(r) ==
    /\ job[r].at = "user" /\ job[r].op = "refresh"
    /\ Goto(r, [job[r] EXCEPT !.at = "check", !.version = user.version])
    /\ UNCHANGED <<user, session, index, token, lock, clients, ended, begun, races>>

(* Mutant: the version was checked when the token was verified.             *)
RotationCheckSession(j) == Live(j.session)

(* The checks at the start of rotateRefreshToken, on the presented token's
   version.                                                                 *)
RotationCheck(j) == Current(token[j.token].version) /\ Live(j.session)

CheckRotation(r) ==
    LET j == job[r] IN
    /\ j.at = "check"
    /\ IF RotationCheck(j) THEN Goto(r, [j EXCEPT !.at = "lock"]) ELSE Finish(r)
    /\ UNCHANGED <<user, session, index, token, lock, clients, ended, begun, races>>

(* The client gets the new access token with refresh token t.               *)
Deliver(j, t) ==
    /\ issued' = issued \cup {[session |-> j.session, version |-> j.version]}
    /\ held' = held \cup {t}

(* Mutant: a consumed token is rotated once more.                           *)
MayRotateAgain(record) == record.status \in {"active", "consumed"}

MayRotate(record) == record.status = "active"

(* Under the token's rotation lock, which is not waited for: rotate, repeat
   the answer within the grace period, or treat the token as reused.        *)
EnterRotation(r) ==
    LET j == job[r]
        record == token[j.token] IN
    /\ j.at = "lock"
    /\ \/ /\ lock[j.token] # Nobody
          /\ Finish(r) /\ UNCHANGED <<lock, clients>>
       \/ /\ lock[j.token] = Nobody /\ MayRotate(record)
          /\ lock' = [lock EXCEPT ![j.token] = r]
          /\ Goto(r, [j EXCEPT !.at = "create", !.record = record])
          /\ UNCHANGED clients
       \/ /\ lock[j.token] = Nobody /\ ~MayRotate(record)
          /\ record.status = "consumed" /\ record.grace
          /\ Deliver(j, record.next)
          /\ Finish(r) /\ UNCHANGED lock
       \/ /\ lock[j.token] = Nobody /\ ~MayRotate(record)
          /\ ~(record.status = "consumed" /\ record.grace)
          /\ lock' = [lock EXCEPT ![j.token] = r]
          /\ Goto(r, [j EXCEPT !.at = "reuse", !.record = record])
          /\ UNCHANGED clients
    /\ UNCHANGED <<user, session, index, token, ended, begun, races>>

Leave(r) == lock' = [t \in Tokens |-> IF lock[t] = r THEN Nobody ELSE lock[t]]

CreateNext(r) ==
    LET j == job[r]
        t == First(NewTokens) IN
    /\ j.at = "create" /\ NewTokens # {}                            \* bound
    /\ token' = [token EXCEPT ![t] = NewToken(j.session, j.version)]
    /\ Goto(r, [j EXCEPT !.at = "consume", !.next = t])
    /\ UNCHANGED <<user, session, index, lock, clients, ended, begun, races>>

(* The record as it was read, now consumed.                                 *)
ConsumeToken(r) ==
    LET j == job[r] IN
    /\ j.at = "consume"
    /\ token' = [token EXCEPT ![j.token] = [j.record EXCEPT !.status = "consumed",
                                                            !.next = j.next, !.grace = TRUE]]
    /\ Goto(r, [j EXCEPT !.at = "extend"])
    /\ UNCHANGED <<user, session, index, lock, clients, ended, begun, races>>

(* extendSession; without it the new tokens are not handed out.             *)
ExtendSession(r) ==
    LET j == job[r] IN
    /\ j.at = "extend"
    /\ IF UpdateApplies(j.session)
       THEN UpdateIndexedSession(j.session, j.version) /\ Deliver(j, j.next)
       ELSE UNCHANGED <<session, index, clients>>
    /\ Leave(r) /\ Finish(r)
    /\ UNCHANGED <<user, token, ended, begun, races>>

(* A token that was consumed before the grace period, or revoked: the session
   ends or, as configured, all of the account's.                            *)
PunishReuse(r) ==
    LET j == job[r] IN
    /\ j.at = "reuse"
    /\ \/ /\ j.record.status # "consumed" \/ "session" \in ReuseResponses
          /\ RevokeKnownSession(j.session)
          /\ ended' = ended \cup {j.session}
          /\ Leave(r) /\ Finish(r)
          /\ UNCHANGED user
       \/ /\ j.record.status = "consumed" /\ "user" \in ReuseResponses
          /\ RotateTokenVersion
          /\ Goto(r, [j EXCEPT !.at = "list"])
          /\ UNCHANGED <<session, index, lock>>
    /\ UNCHANGED <<token, clients, begun, races>>

-----------------------------------------------------------------------------
(* Requests with an access token.                                           *)

(* verifyAccessToken and assertAndTouchSession, then the request itself.    *)
Authenticated(c) ==
    /\ Usable(c)
    /\ UpdateIndexedSession(c.session, session[c.session].version)

(* The refresh token that the client sends along, if it does.               *)
Cookies(s) == {t \in held : token[t].session = s} \cup {0}

(* logout, revokeManagedSession, revokeManagedSessions, listSessions and
   changePassword begin.                                                    *)
FirstStep(op, t) ==
    CASE op = "logout" -> IF t = 0 THEN "revoke" ELSE "readToken"
      [] op = "one" -> "revoke"
      [] op \in {"others", "list", "all"} -> "list"
      [] op = "change" -> "user"

BeginRequest(r, op, c, target, t) ==
    /\ Authenticated(c)
    /\ session[target].status # "none"                     \* ids are random UUIDs
    /\ op # "one" => target = c.session
    /\ op \notin {"logout", "one"} => t = 0
    /\ op = "one" /\ target # c.session => t = 0
    /\ Begin(r, op, [Idle EXCEPT !.at = FirstStep(op, t), !.session = target, !.token = t,
                            !.version = c.version])
    /\ UNCHANGED <<user, token, lock, clients, ended, races>>

(* revokeSession and revokeSessionForUser.  Logout revokes the refresh token
   first, the session list afterwards.                                      *)
RevokeSession(r) ==
    LET j == job[r] IN
    /\ j.at = "revoke"
    /\ RevokeKnownSession(j.session)
    /\ ended' = ended \cup {j.session}
    /\ IF j.op = "one" /\ Live(j.session) /\ j.token # 0
       THEN Goto(r, [j EXCEPT !.at = "readToken"]) ELSE Finish(r)
    /\ UNCHANGED <<user, token, lock, clients, begun, races>>

(* revokeStatefulRefreshToken reads the record and writes it back, revoked. *)
ReadToken(r) ==
    LET j == job[r] IN
    /\ j.at = "readToken"
    /\ Goto(r, [j EXCEPT !.at = "writeToken", !.record = token[j.token]])
    /\ UNCHANGED <<user, session, index, token, lock, clients, ended, begun, races>>

(* Mutant: a status that verification does not know.                        *)
RevokedRecordDeleted(record) == [record EXCEPT !.status = "deleted"]

RevokedRecord(record) == [record EXCEPT !.status = "revoked"]

WriteToken(r) ==
    LET j == job[r] IN
    /\ j.at = "writeToken"
    /\ token' = [token EXCEPT ![j.token] = RevokedRecord(j.record)]
    /\ IF j.op = "logout" THEN Goto(r, [j EXCEPT !.at = "revoke", !.record = NoToken]) ELSE Finish(r)
    /\ UNCHANGED <<user, session, index, lock, clients, ended, begun, races>>

(* readIndexedSessions: the sessions of the index that are active and, when a
   version is given, of that version; the others leave the index.           *)
Listed(versions) == {s \in index : Live(s) /\ session[s].version \in versions}

(* The list, which sign-out everywhere asks for as well, goes by the version
   of the caller's access token.                                            *)
ListSessions(r) ==
    LET j == job[r] IN
    /\ j.at = "list" /\ j.op \in {"list", "all"}
    /\ index' = Listed({j.version})
    /\ IF j.op = "all" THEN Goto(r, [j EXCEPT !.at = "rotate"]) ELSE Finish(r)
    /\ UNCHANGED <<user, session, token, lock, clients, ended, begun, races>>

(* revokeMatchingSessions: what is to be revoked is listed first.           *)
ListToRevoke(r) ==
    LET j == job[r]
        except == IF j.op = "others" THEN {j.session} ELSE {}
        others == {s \in Sessions : Usable([session |-> s, version |-> session[s].version])}
                  \ except IN
    /\ j.at = "list" /\ j.op \notin {"list", "all"}
    /\ index' = Listed(Versions)
    /\ Goto(r, [j EXCEPT !.at = "loop", !.todo = Listed(Versions) \ except,
                         !.goal = IF j.op = "others" THEN others ELSE {}])
    /\ Happens({x \in {"unindexed"} : j.op = "others" /\ ~(others \subseteq index)})
    /\ UNCHANGED <<user, session, token, lock, clients, ended, begun>>

RevokeListed(r, s) ==
    LET j == job[r] IN
    /\ j.at = "loop" /\ s \in j.todo
    /\ RevokeKnownSession(s)
    /\ Goto(r, [j EXCEPT !.todo = @ \ {s}])
    /\ UNCHANGED <<user, token, lock, clients, ended, begun, races>>

(* Done; or, where the version was rotated first, Redis may fail.           *)
EndLoop(r) ==
    LET j == job[r] IN
    /\ j.at = "loop"
    /\ j.todo = {} \/ j.op # "others"
    /\ ended' = ended \cup j.goal
    /\ Leave(r) /\ Finish(r)
    /\ UNCHANGED <<user, session, index, token, clients, begun, races>>

-----------------------------------------------------------------------------
(* Passwords.  The account is read once; only liftSecurityHold reads its
   status again.                                                            *)

BeginReset(r) ==
    /\ user.status # "suspended"
    /\ Begin(r, "reset", [Idle EXCEPT !.at = "lift"])
    /\ UNCHANGED <<user, session, index, token, lock, clients, ended, races>>

(* Mutant: whatever the status, a reset clears it.                          *)
MayLiftAny(status) == status # "active"

MayLift(status) == status = "locked"

LiftSecurityHold(r) ==
    LET j == job[r] IN
    /\ j.at = "lift"
    /\ user' = IF MayLift(user.status) THEN [user EXCEPT !.status = "active"] ELSE user
    /\ IF user'.status = "active" THEN Goto(r, [j EXCEPT !.at = "rotate"]) ELSE Finish(r)
    /\ UNCHANGED <<session, index, token, lock, clients, ended, begun, races>>

ReadAccount(r) ==
    /\ job[r].at = "user" /\ job[r].op = "change"
    /\ Goto(r, [job[r] EXCEPT !.at = "rotate", !.status = user.status])
    /\ UNCHANGED <<user, session, index, token, lock, clients, ended, begun, races>>

(* finishPasswordWrite and revokeAllCredentials rotate the version.  After a
   password the account as it was read gets a new session, if active.       *)
Rotate(r) ==
    LET j == job[r] IN
    /\ j.at = "rotate"
    /\ RotateTokenVersion
    /\ CASE j.op = "all" -> Goto(r, [j EXCEPT !.op = "everyone", !.at = "list"])
         [] j.op # "all" /\ j.status = "active" ->
                Goto(r, [j EXCEPT !.at = "session", !.version = user'.version])
         [] OTHER -> Finish(r)
    /\ UNCHANGED <<session, index, token, lock, clients, begun, races>>

-----------------------------------------------------------------------------
(* Account status: one conditional write changes the status and rotates the
   version; then the sessions are revoked.                                  *)

UpdateAccountStatus(status) ==
    /\ user.version < MaxVersion                                    \* bound
    /\ user' = [status |-> status, version |-> user.version + 1]
    /\ ended' = ended \cup SessionsToEnd

Restrict(r, op, status) ==
    /\ op = "lock" => user.status # "suspended"
    /\ UpdateAccountStatus(status)
    /\ Begin(r, op, [Idle EXCEPT !.at = "list"])
    /\ UNCHANGED <<session, index, token, lock, clients, races>>

Reinstate ==
    /\ "reinstate" \in Operations
    /\ user.status # "active"
    /\ user' = [user EXCEPT !.status = "active"]
    /\ UNCHANGED <<session, index, token, lock, clients, ended, job, begun, races>>

-----------------------------------------------------------------------------
(* Time and failure.                                                        *)

SessionExpires(s) ==
    /\ Live(s)
    /\ session' = [session EXCEPT ![s].status = "expired"]
    /\ UNCHANGED <<user, index, token, lock, clients, ended, job, begun, races>>

GracePasses(t) ==
    /\ token[t].grace
    /\ token' = [token EXCEPT ![t].grace = FALSE]
    /\ UNCHANGED <<user, session, index, lock, clients, ended, job, begun, races>>

LockLapses(t) ==
    /\ lock[t] # Nobody
    /\ lock' = [lock EXCEPT ![t] = Nobody]
    /\ Happens({"lapse"})
    /\ UNCHANGED <<user, session, index, token, clients, ended, job, begun>>

Crash(r) ==
    /\ job[r] # Idle
    /\ Leave(r) /\ Finish(r)
    /\ UNCHANGED <<user, session, index, token, clients, ended, begun, races>>

-----------------------------------------------------------------------------
JobStep(r) ==
    \/ CreateSession(r) \/ CreateToken(r)
    \/ ReadUser(r) \/ CheckRotation(r) \/ EnterRotation(r) \/ CreateNext(r)
    \/ ConsumeToken(r) \/ ExtendSession(r) \/ PunishReuse(r)
    \/ RevokeSession(r) \/ ReadToken(r) \/ WriteToken(r)
    \/ ListSessions(r) \/ ListToRevoke(r) \/ EndLoop(r)
    \/ \E s \in Sessions : RevokeListed(r, s)
    \/ LiftSecurityHold(r) \/ ReadAccount(r) \/ Rotate(r)

BeginJob(r) ==
    \/ BeginLogin(r) \/ BeginReset(r)
    \/ \E t \in Tokens : BeginRefresh(r, t)
    \/ \E op \in {"logout", "one", "others", "all", "list", "change"}, c \in issued, s \in Sessions :
          \E t \in Cookies(c.session) : BeginRequest(r, op, c, s, t)
    \/ Restrict(r, "lock", "locked") \/ Restrict(r, "suspend", "suspended")

Next ==
    \/ \E r \in Requests : BeginJob(r) \/ JobStep(r) \/ Crash(r)
    \/ Reinstate
    \/ \E s \in Sessions : SessionExpires(s)
    \/ \E t \in Tokens : GracePasses(t) \/ LockLapses(t)

Spec == Init /\ [][Next]_vars

-----------------------------------------------------------------------------
(* Every record and every job keeps its type.                               *)
TypeOK ==
    /\ user \in [status : Statuses, version : Versions]
    /\ session \in [Sessions -> Session]
    /\ index \subseteq Sessions
    /\ token \in [Tokens -> Token]
    /\ lock \in [Tokens -> Requests \cup {Nobody}]
    /\ issued \subseteq Credential /\ held \subseteq Tokens
    /\ ended \subseteq Sessions
    /\ job \in [Requests -> Job]
    /\ begun \in 0 .. MaxBegun /\ races \subseteq Races

(* A client that still has a credential of the session gets in with it, now or
   with the refresh token's next access token.                              *)
Reachable(s) ==
    \/ \E c \in issued : c.session = s /\ Usable(c)
    \/ \E t \in held : /\ token[t].session = s /\ token[t].status = "active"
                       /\ Live(s) /\ Current(token[t].version)

(* What the sign-out operations, password changes, holds and suspensions
   promise: no credential of a session that one of them ended lets anyone in
   again, whichever sign-ins and refreshes were under way, although Redis may
   fail to mark the sessions and the account may be reinstated.             *)
EndedStaysEnded == \A s \in ended : ~Reachable(s)

(* The same, but for sessions that "sign out the others" did not find.      *)
EndedUnlessUnindexed == "unindexed" \notin races => EndedStaysEnded

(* Concurrent refreshes leave a session with one refresh token that can be
   rotated; "lapse" is a rotation that outlives its lock.                   *)
OneLiveToken ==
    "lapse" \notin races =>
        \A t, u \in held :
            /\ token[t].status = "active" /\ token[u].status = "active"
            /\ token[t].session = token[u].session
            => t = u

(* A session that was revoked or ran out is not brought back by a request that
   read it before.                                                          *)
DeadStaysDead ==
    [][\A s \in Sessions : session[s].status \in {"revoked", "expired"} =>
          session'[s].status \in {"revoked", "expired"}]_vars

(* A suspension ends by reinstatement alone: a password reset that began
   before it does not lift it, and no hold takes its place.                 *)
SuspensionHolds ==
    [][user.status = "suspended" /\ user'.status # "suspended" => Reinstate]_vars
=============================================================================
