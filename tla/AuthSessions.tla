---------------------------- MODULE AuthSessions ----------------------------
(***************************************************************************)
(* Accounts, refresh tokens and mailed tokens of apps/api (AuthService,    *)
(* TokenService and the parts of UsersService they call).                  *)
(*                                                                         *)
(* As in Subscriptions, r \in Req is an in-flight HTTP request and every   *)
(* await on Prisma, bcrypt or the mail service may let another one run:    *)
(*                                                                         *)
(*   register   insertUser -> saveMail -> sendMail -> issue                *)
(*   login      issue                                                      *)
(*   refresh    revokeUsed -> issue                                        *)
(*   forgot     saveMail -> sendMail                                       *)
(*   reset      markUsed -> setPassword -> revokeAll                       *)
(*   change     setPassword -> revokeAll                                   *)
(*   confirm    markUsed -> verifyEmail                                    *)
(*                                                                         *)
(* A token is known by its position in refresh or in mail, a password by   *)
(* its number among those the account has had.  A request that is refused  *)
(* changes nothing and is not modelled, unless it is refused half-way.     *)
(***************************************************************************)
EXTENDS Integers, Sequences, FiniteSets

CONSTANTS
  User, Req,        \* accounts (by e-mail address), request slots
  None,             \* null
  MayFail,          \* an awaited call may reject, or the process restart
  MaxRefresh,       \* bound: refresh tokens ever issued
  MaxMail,          \* bound: verification tokens ever created
  MaxPassword       \* bound: passwords an account has had when a change begins

ASSUME AuthAssumption ==
  /\ None \notin User /\ MayFail \in BOOLEAN
  /\ MaxRefresh \in Nat /\ MaxMail \in Nat /\ MaxPassword \in Nat

VARIABLES
  status,     \* users.status, or "absent"
  verified,   \* users.email_verified_at is set
  password,   \* users.password_hash: the number of the current password
  refresh,    \* refresh_tokens, in the order they were created
  mail,       \* verification_tokens, in the order they were created
  pc, arg,    \* control state and locals of a request
  ended,      \* history: sessions that a logout or a revocation ended
  disturbed   \* history: two requests were in flight together, or one failed half-way

accounts == <<status, verified, password>>
request  == <<pc, arg>>
vars     == <<accounts, refresh, mail, request, ended, disturbed>>

-----------------------------------------------------------------------------
Types == {"EMAIL_VERIFICATION", "PASSWORD_RESET"}
UserStatus == {"PENDING_VERIFICATION", "ACTIVE", "BLOCKED"}

\* The session of a token is the first token of its chain of rotations, its
\* parent the token it was exchanged for, its password the one of the login.
RefreshToken ==
  [user : User, session : Nat, parent : Nat, password : Nat,
   revoked : BOOLEAN, expired : BOOLEAN]

\* uses counts the requests that consumed the token (usedAt is set when > 0);
\* sent tells that the mail with the token has left.
MailToken ==
  [user : User, type : Types, uses : Nat, sent : BOOLEAN, expired : BOOLEAN]

NoArg == [user |-> None, type |-> None, token |-> 0, password |-> 0, issues |-> FALSE]

Control == {"idle", "insertUser", "saveMail", "sendMail", "issue", "revokeUsed",
            "markUsed", "setPassword", "revokeAll", "verifyEmail"}

\* The rows of the three tables and the requests in flight.
TypeOK ==
  /\ status \in [User -> UserStatus \cup {"absent"}]
  /\ verified \in [User -> BOOLEAN]
  /\ password \in [User -> Nat]
  /\ refresh \in Seq(RefreshToken)
  /\ mail \in Seq(MailToken)
  /\ pc \in [Req -> Control]
  /\ arg \in [Req -> [user : User \cup {None}, type : Types \cup {None},
                      token : Nat, password : Nat, issues : BOOLEAN]]
  /\ ended \subseteq Nat /\ disturbed \in BOOLEAN

Init ==
  /\ status = [u \in User |-> "absent"]
  /\ verified = [u \in User |-> FALSE]
  /\ password = [u \in User |-> 0]
  /\ refresh = <<>> /\ mail = <<>>
  /\ pc = [r \in Req |-> "idle"]
  /\ arg = [r \in Req |-> NoArg]
  /\ ended = {} /\ disturbed = FALSE

-----------------------------------------------------------------------------
(* Control of one request.                                                  *)

Goto(r, from, to) == pc[r] = from /\ pc' = [pc EXCEPT ![r] = to]

Alone(r) == \A q \in Req \ {r} : pc[q] = "idle"

\* Bound: after a change of password a request only begins alone, and in a
\* behaviour in which no two have overlapped.
MayBegin(r) ==
  (\E u \in User : password[u] > 1) => ~disturbed /\ Alone(r)

Begin(r, to, locals) ==
  /\ Goto(r, "idle", to) /\ MayBegin(r)
  /\ arg' = [arg EXCEPT ![r] = locals]

Finish(r) ==
  /\ pc' = [pc EXCEPT ![r] = "idle"]
  /\ arg' = [arg EXCEPT ![r] = NoArg]

Issued == DOMAIN refresh
Mailed == DOMAIN mail

\* Room is kept for the tokens that the requests in flight have yet to create.
RoomForRefresh == Len(refresh) + Cardinality({r \in Req : arg[r].issues}) < MaxRefresh
RoomForMail ==
  Len(mail) + Cardinality({r \in Req : pc[r] \in {"insertUser", "saveMail"}}) < MaxMail

-----------------------------------------------------------------------------
(* POST /auth/register                                                      *)

BeginRegister(r, u) ==
  /\ status[u] = "absent" /\ RoomForRefresh /\ RoomForMail
  /\ Begin(r, "insertUser", [NoArg EXCEPT !.user = u, !.password = 1, !.issues = TRUE,
                                          !.type = "EMAIL_VERIFICATION"])
  /\ UNCHANGED <<accounts, refresh, mail, ended>>

\* The unique e-mail refuses the loser of two registrations.
InsertUser(r) ==
  LET u == arg[r].user IN
  /\ pc[r] = "insertUser"
  /\ \/ status[u] # "absent" /\ Finish(r) /\ UNCHANGED accounts
     \/ /\ status[u] = "absent"
        /\ Goto(r, "insertUser", "saveMail")
        /\ status' = [status EXCEPT ![u] = "PENDING_VERIFICATION"]
        /\ password' = [password EXCEPT ![u] = 1]
        /\ UNCHANGED <<verified, arg>>
  /\ UNCHANGED <<refresh, mail, ended>>

(* POST /auth/forgot-password                                               *)
BeginForgot(r, u) ==
  /\ status[u] # "absent" /\ RoomForMail
  /\ Begin(r, "saveMail", [NoArg EXCEPT !.user = u, !.type = "PASSWORD_RESET"])
  /\ UNCHANGED <<accounts, refresh, mail, ended>>

SaveMail(r) ==
  /\ Goto(r, "saveMail", "sendMail")
  /\ mail' = Append(mail, [user |-> arg[r].user, type |-> arg[r].type,
                           uses |-> 0, sent |-> FALSE, expired |-> FALSE])
  /\ arg' = [arg EXCEPT ![r].token = Len(mail) + 1]
  /\ UNCHANGED <<accounts, refresh, ended>>

\* Faulty variant: register forgets whom it issues the token pair for.
FaultySendMail(r) ==
  /\ pc[r] = "sendMail"
  /\ mail' = [mail EXCEPT ![arg[r].token].sent = TRUE]
  /\ IF arg[r].issues THEN Goto(r, "sendMail", "issue") /\ arg' = [arg EXCEPT ![r] = NoArg]
                      ELSE Finish(r)
  /\ UNCHANGED <<accounts, refresh, ended>>

\* Only the mail carries the token itself; register then issues a token pair.
SendMail(r) ==
  /\ pc[r] = "sendMail"
  /\ mail' = [mail EXCEPT ![arg[r].token].sent = TRUE]
  /\ \/ /\ arg[r].issues
        /\ Goto(r, "sendMail", "issue")
        /\ arg' = [arg EXCEPT ![r].token = 0]
     \/ ~arg[r].issues /\ Finish(r)
  /\ UNCHANGED <<accounts, refresh, ended>>

-----------------------------------------------------------------------------
(* POST /auth/login: the account is read once, with its password and status *)

BeginLogin(r, u) ==
  /\ status[u] \notin {"absent", "BLOCKED"} /\ RoomForRefresh
  /\ Begin(r, "issue",
           [NoArg EXCEPT !.user = u, !.password = password[u], !.issues = TRUE])
  /\ UNCHANGED <<accounts, refresh, mail, ended>>

(* POST /auth/refresh                                                       *)

\* Faulty variant: a token that was exchanged or revoked still counts.
FaultyUsable(t) == ~refresh[t].expired
\* Faulty variant: the date of a token is not looked at.
FaultyUsableLate(t) == ~refresh[t].revoked
Usable(t) == ~refresh[t].revoked /\ ~refresh[t].expired

BeginRefresh(r, t) ==
  /\ Usable(t) /\ RoomForRefresh
  /\ Begin(r, "revokeUsed",
           [NoArg EXCEPT !.user = refresh[t].user, !.token = t, !.issues = TRUE,
                         !.password = refresh[t].password])
  /\ UNCHANGED <<accounts, refresh, mail, ended>>

\* Faulty variant: the token exchanged stays valid.
FaultyRevokeUsed(r) ==
  /\ Goto(r, "revokeUsed", "issue")
  /\ UNCHANGED <<accounts, refresh, mail, arg, ended>>

\* By id, whatever happened to the token since it was read.
RevokeUsed(r) ==
  /\ Goto(r, "revokeUsed", "issue")
  /\ refresh' = [refresh EXCEPT ![arg[r].token].revoked = TRUE]
  /\ UNCHANGED <<accounts, mail, arg, ended>>

SessionOf(token) == IF token = 0 THEN Len(refresh) + 1 ELSE refresh[token].session

IssueRefreshToken(r) ==
  LET a == arg[r] IN
  /\ pc[r] = "issue"
  /\ refresh' = Append(refresh,
       [user |-> a.user, session |-> SessionOf(a.token), parent |-> a.token,
        password |-> a.password, revoked |-> FALSE, expired |-> FALSE])
  /\ Finish(r)
  /\ UNCHANGED <<accounts, mail, ended>>

-----------------------------------------------------------------------------
(* POST /auth/logout and /auth/logout-all: one updateMany each              *)

\* Faulty variant: all but the newest token.
FaultyActiveTokens(u) ==
  {t \in 1 .. Len(refresh) - 1 : refresh[t].user = u /\ ~refresh[t].revoked}
ActiveTokens(u) == {t \in Issued : refresh[t].user = u /\ ~refresh[t].revoked}

Revoke(tokens) ==
  refresh' = [t \in Issued |->
                IF t \in tokens THEN [refresh[t] EXCEPT !.revoked = TRUE] ELSE refresh[t]]

Logout(r, t) ==
  /\ pc[r] = "idle" /\ ~refresh[t].revoked
  /\ Revoke({t})
  /\ ended' = ended \cup {refresh[t].session}
  /\ UNCHANGED <<accounts, mail, request>>

SessionsOf(u) == {refresh[t].session : t \in {i \in Issued : refresh[i].user = u}}

RevokeAllRefreshTokens(u) ==
  /\ Revoke(ActiveTokens(u))
  /\ ended' = ended \cup SessionsOf(u)

LogoutAll(r, u) ==
  /\ pc[r] = "idle" /\ status[u] # "absent"
  /\ RevokeAllRefreshTokens(u)
  /\ UNCHANGED <<accounts, mail, request>>

-----------------------------------------------------------------------------
(* Passwords and mailed tokens                                              *)

\* Bounds: at most MaxPassword passwords, no change after requests overlapped.
MayChange(u) == password[u] < MaxPassword /\ ~disturbed

\* The current password was right when it was compared.
BeginChange(r, u) ==
  /\ status[u] # "absent" /\ MayChange(u)
  /\ Begin(r, "setPassword", [NoArg EXCEPT !.user = u])
  /\ UNCHANGED <<accounts, refresh, mail, ended>>

\* Faulty variant: the type of the token is not checked.
FaultyConsumable(k, type) == mail[k].type \in Types /\ mail[k].uses = 0 /\ ~mail[k].expired
Fresh(k) == mail[k].uses = 0 /\ ~mail[k].expired
Consumable(k, type) == mail[k].type = type /\ Fresh(k)

BeginConsume(r, k, type) ==
  /\ mail[k].sent /\ Consumable(k, type)
  /\ type = "PASSWORD_RESET" => MayChange(mail[k].user)
  /\ Begin(r, "markUsed",
           [NoArg EXCEPT !.user = mail[k].user, !.token = k, !.type = type])
  /\ UNCHANGED <<accounts, refresh, mail, ended>>

MarkUsed(r) ==
  /\ pc[r] = "markUsed"
  /\ mail' = [mail EXCEPT ![arg[r].token].uses = @ + 1]
  /\ \/ arg[r].type = "PASSWORD_RESET" /\ Goto(r, "markUsed", "setPassword")
     \/ arg[r].type = "EMAIL_VERIFICATION" /\ Goto(r, "markUsed", "verifyEmail")
  /\ UNCHANGED <<accounts, refresh, arg, ended>>

UpdatePasswordHash(r) ==
  /\ Goto(r, "setPassword", "revokeAll")
  /\ password' = [password EXCEPT ![arg[r].user] = @ + 1]
  /\ UNCHANGED <<status, verified, refresh, mail, arg, ended>>

RevokeAll(r) ==
  /\ pc[r] = "revokeAll"
  /\ RevokeAllRefreshTokens(arg[r].user)
  /\ Finish(r)
  /\ UNCHANGED <<accounts, mail>>

MarkEmailVerified(r) ==
  LET u == arg[r].user IN
  /\ pc[r] = "verifyEmail"
  /\ status' = [status EXCEPT ![u] = "ACTIVE"]
  /\ verified' = [verified EXCEPT ![u] = TRUE]
  /\ Finish(r)
  /\ UNCHANGED <<password, refresh, mail, ended>>

-----------------------------------------------------------------------------
(* PATCH /users/:id/status, and time                                        *)

SetStatus(r, u, st) ==
  /\ pc[r] = "idle" /\ status[u] # "absent"
  /\ status' = [status EXCEPT ![u] = st]
  /\ UNCHANGED <<verified, password, refresh, mail, request, ended>>

RefreshExpires(t) ==
  /\ ~refresh[t].expired
  /\ refresh' = [refresh EXCEPT ![t].expired = TRUE]
  /\ UNCHANGED <<accounts, mail, request, ended>>

MailExpires(k) ==
  /\ ~mail[k].expired
  /\ mail' = [mail EXCEPT ![k].expired = TRUE]
  /\ UNCHANGED <<accounts, refresh, request, ended>>

\* The request ends with an error, or is lost in a restart, between two steps.
Fail(r) ==
  /\ MayFail /\ pc[r] # "idle"
  /\ Finish(r)
  /\ UNCHANGED <<accounts, refresh, mail, ended>>

-----------------------------------------------------------------------------
Start(r) ==
  \/ \E u \in User :
       BeginRegister(r, u) \/ BeginForgot(r, u) \/ BeginLogin(r, u) \/ BeginChange(r, u)
  \/ \E u \in User : LogoutAll(r, u) \/ \E st \in UserStatus : SetStatus(r, u, st)
  \/ \E t \in Issued : BeginRefresh(r, t) \/ Logout(r, t)
  \/ \E k \in Mailed, type \in Types : BeginConsume(r, k, type)

Step(r) ==
  \/ InsertUser(r) \/ SaveMail(r) \/ SendMail(r)
  \/ RevokeUsed(r) \/ IssueRefreshToken(r)
  \/ MarkUsed(r) \/ UpdatePasswordHash(r) \/ RevokeAll(r) \/ MarkEmailVerified(r)

Next ==
  \/ \E r \in Req : (Start(r) \/ Step(r)) /\ disturbed' = (disturbed \/ ~Alone(r))
  \/ \E r \in Req : Fail(r) /\ disturbed' = TRUE
  \/ \E t \in Issued : RefreshExpires(t) /\ UNCHANGED disturbed
  \/ \E k \in Mailed : MailExpires(k) /\ UNCHANGED disturbed

Spec == Init /\ [][Next]_vars

-----------------------------------------------------------------------------
(* Properties                                                               *)

\* Rotation, however the requests interleave: who holds a token obtained by a
\* refresh gave up the token before it, of the same account and session.
Lineage ==
  \A t \in Issued : LET p == refresh[t].parent IN
    p # 0 => /\ p < t /\ refresh[p].revoked
             /\ refresh[p].user = refresh[t].user
             /\ refresh[p].session = refresh[t].session

\* An e-mail is only verified by using a token that was mailed to its address
\* for that purpose.
VerifiedByMail ==
  \A u \in User : verified[u] =>
    \E k \in Mailed : /\ mail[k].user = u /\ mail[k].type = "EMAIL_VERIFICATION"
                      /\ mail[k].sent /\ mail[k].uses > 0

\* A refresh token can be exchanged for one other token only.
OneUsePerToken ==
  \A s, t \in Issued : s # t /\ refresh[s].parent = refresh[t].parent => refresh[s].parent = 0

\* What overlapping requests and half-done ones may break holds of all others:

\* each refresh token is exchanged once;
TokenUsedOnce == disturbed \/ OneUsePerToken

\* a mailed token serves one reset, or one confirmation;
OneUsePerMail == disturbed \/ \A k \in Mailed : mail[k].uses <= 1

\* refresh tokens and mailed ones alike;
UsedOnce == TokenUsedOnce /\ OneUsePerMail

\* a session ended by logout, logout-all or a new password does not go on;
EndedStaysEnded ==
  disturbed \/ \A t \in Issued : ~refresh[t].revoked => refresh[t].session \notin ended

\* once a new password is in force and the sessions have been revoked, nobody
\* stays signed in by the old one.
OldPasswordOut ==
  \/ disturbed
  \/ \A t \in Issued : LET u == refresh[t].user IN
       ~refresh[t].revoked /\ refresh[t].password # password[u] =>
         \E r \in Req : pc[r] = "revokeAll" /\ arg[r].user = u

\* What an overlap cannot break either: a token that was revoked, used up or had
\* expired before anyone began to exchange it is not exchanged ever after; a
\* mailed token likewise.
Exchanges(r, t) == pc[r] \in {"revokeUsed", "issue"} /\ arg[r].token = t
Consumes(r, k) == pc[r] = "markUsed" /\ arg[r].token = k
DeadToken(t) ==
  /\ refresh[t].revoked \/ refresh[t].expired
  /\ \A s \in Issued : refresh[s].parent # t
  /\ \A r \in Req : ~Exchanges(r, t)
DeadMail(k) ==
  /\ mail[k].uses > 0 \/ mail[k].expired
  /\ \A r \in Req : ~Consumes(r, k)
SpentStaysSpent ==
  [][/\ \A t \in Issued : DeadToken(t) => DeadToken(t)'
     /\ \A k \in Mailed :
          DeadMail(k) => DeadMail(k)' /\ mail'[k].uses = mail[k].uses]_vars

\* A revocation is final, for the session and for the password.
RevocationHolds == EndedStaysEnded /\ OldPasswordOut
=============================================================================
