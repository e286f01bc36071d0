----------------------------- MODULE ApiClient -----------------------------
(***************************************************************************)
(* The signed-in state of one app (apps/mobile, apps/admin): the token     *)
(* storage, the HTTP client that renews an expired access token, and the   *)
(* AuthProvider.                                                           *)
(*                                                                         *)
(* c \in Call is a call in flight.  apiRequest is                          *)
(*                                                                         *)
(*   send -> (401) readRefresh -> refresh -> save -> retry                 *)
(*                         \_________\-> clear, and the handler signs out  *)
(*                                                                         *)
(* and it serves the queries of the screens, loadProfile when the app      *)
(* starts ("load"), and the profile that a login fetches ("me").  login    *)
(* and logout have the calls "login" -> save -> me and readRefresh ->      *)
(* revoke -> clear.                                                        *)
(*                                                                         *)
(* The mobile app stores its two tokens with two parallel asynchronous     *)
(* calls, the panel in localStorage at once.  The pairs of tokens are      *)
(* numbered in the order the API issues them.  Of the API, AuthSessions    *)
(* models the inside; here it keeps what the client sees of it: a refresh  *)
(* token is exchanged once, an access token expires, any request may be    *)
(* answered with an error.                                                 *)
(***************************************************************************)
EXTENDS Naturals, Sequences, FiniteSets

CONSTANTS
  User, Call, None,   \* accounts, call slots, nobody
  MaxPairs            \* bound: pairs of tokens ever issued

ASSUME ApiClientAssumption ==
  None \notin User /\ IsFiniteSet(Call) /\ MaxPairs \in Nat \ {0}

VARIABLES
  mobile,             \* the storage is asynchronous
  storage,            \* the stored pair: numbers of its access and refresh token, 0 for none
  status, user,       \* AuthProvider
  call,               \* calls in flight
  owner,              \* API: the account of each pair
  access, refresh,    \* API: access tokens not expired, refresh tokens not revoked
  fault,              \* history and bound: the one kind of fault of a behaviour
  excused             \* history: one of the Excuses below, which end a session

app  == <<storage, status, user>>
api  == <<owner, access, refresh>>
apiClient == <<mobile, app, call, api, fault, excused>>

-----------------------------------------------------------------------------
Keys == {"access", "refresh"}
Empty == [k \in Keys |-> 0]
Idle == [op |-> "none", pc |-> "idle", token |-> 0, keys |-> {}, user |-> None, tries |-> 0]

Pcs == {"idle", "send", "readRefresh", "refresh", "save", "retry", "clear", "login", "revoke"}
Ops == {"none", "query", "load", "me", "login", "logout"}
Statuses == {"closed", "loading", "authenticated", "unauthenticated"}
Faults == {"none", "network", "server", "lostAnswer", "relaunch"}

\* The storage, the provider, the calls and the tokens of the API.
ApiClientTypeOK ==
  /\ mobile \in BOOLEAN
  /\ storage \in [Keys -> 0..MaxPairs]
  /\ status \in Statuses /\ user \in User \cup {None}
  /\ call \in [Call -> [op : Ops, pc : Pcs, token : 0..MaxPairs, keys : SUBSET Keys,
                        user : User \cup {None}, tries : 0..2]]
  /\ owner \in Seq(User) /\ Len(owner) <= MaxPairs
  /\ access \cup refresh \subseteq DOMAIN owner
  /\ fault \in Faults /\ excused \in BOOLEAN

\* The app is not running, with nothing stored or a pair of an earlier launch.
ApiClientInit ==
  /\ mobile \in BOOLEAN
  /\ owner \in {<<>>} \cup {<<u>> : u \in User}
  /\ storage = [k \in Keys |-> Len(owner)]
  /\ access = DOMAIN owner /\ refresh = DOMAIN owner
  /\ status = "closed" /\ user = None
  /\ call = [c \in Call |-> Idle]
  /\ fault = "none" /\ excused = FALSE

-----------------------------------------------------------------------------
(* Calls.                                                                   *)

\* Where a call reads, exchanges, writes or deletes the stored tokens.
Section == {"readRefresh", "refresh", "save", "clear", "login", "revoke"}
InSection(calls) == {c \in Call : calls[c].pc \in Section}

\* The call c becomes rq; two calls in the section are remembered.
Becomes(c, rq, excuse) ==
  LET calls == [call EXCEPT ![c] = rq]  IN
  /\ call' = calls
  /\ excused' = (excused \/ excuse \/ Cardinality(InSection(calls)) > 1)
Goto(c, rq, pc) == Becomes(c, [rq EXCEPT !.pc = pc], FALSE)

Meets(kind) == fault = "none" /\ fault' = kind

Busy(op) == \E c \in Call : call[c].op = op

\* rawRequest attaches the stored access token, whatever account it is of by now.
Send(rq) == [rq EXCEPT !.pc = "send", !.token = storage["access"]]

\* Faulty variant: without a stored refresh token the call waits for one.
FaultyReadRefresh(rq) ==
  IF storage["refresh"] # 0
    THEN [rq EXCEPT !.pc = IF rq.op = "logout" THEN "revoke" ELSE "refresh",
                    !.token = storage["refresh"]]
    ELSE [rq EXCEPT !.pc = "readRefresh"]
\* refreshTokens: without a stored refresh token there is nothing to exchange.
ReadRefresh(rq) ==
  IF storage["refresh"] # 0
    THEN [rq EXCEPT !.pc = IF rq.op = "logout" THEN "revoke" ELSE "refresh",
                    !.token = storage["refresh"]]
    ELSE [rq EXCEPT !.pc = "clear", !.keys = Keys]
ReadNow(rq) == IF mobile THEN [rq EXCEPT !.pc = "readRefresh"] ELSE ReadRefresh(rq)

\* Keys that one step of the storage writes or deletes, and what it leaves.
Written(rq) == IF mobile THEN {{k} : k \in rq.keys} ELSE {rq.keys}
Stored(ks, n) == [k \in Keys |-> IF k \in ks THEN n ELSE storage[k]]

\* The API exchanges, or issues, the next pair for the account u.
Issue(u) ==
  /\ Len(owner) < MaxPairs
  /\ owner' = Append(owner, u)
  /\ access' = access \cup {Len(owner) + 1}
\* Faulty variant: the rotated refresh token is not stored.
FaultySaving(rq) == [rq EXCEPT !.pc = "save", !.token = Len(owner) + 1, !.keys = {"access"}]
Saving(rq) == [rq EXCEPT !.pc = "save", !.token = Len(owner) + 1, !.keys = Keys]

-----------------------------------------------------------------------------
(* AuthProvider: what follows the answer of a request.                      *)

\* loadProfile and login show the profile that /users/me answers.
Succeed(c, token) ==
  /\ Becomes(c, Idle, FALSE)
  /\ IF call[c].op \in {"load", "me"}
       THEN status' = "authenticated" /\ user' = owner[token]
       ELSE UNCHANGED <<status, user>>

\* An ApiError ends loadProfile signed out, whatever is stored; login leaves
\* it to its screen.
Refuse(c) ==
  /\ Becomes(c, Idle, storage # Empty /\ call[c].op \in {"load", "me"})
  /\ IF call[c].op = "load"
       THEN status' = "unauthenticated" /\ user' = None
       ELSE UNCHANGED <<status, user>>

\* Faulty variant: no limit on the repetitions.
FaultyRetried(rq) == rq.op = "query"
\* The query client repeats what failed without an answer or with a 5xx, twice at
\* most.
Retried(rq) == rq.op = "query" /\ rq.tries < 2

Again(c, excuse) == Becomes(c, Send([call[c] EXCEPT !.tries = @ + 1]), excuse)

Throw(c, excuse) ==
  LET rq == call[c]  IN
  /\ IF Retried(rq) THEN Again(c, excuse)
     ELSE IF rq.op = "logout" THEN Becomes(c, [rq EXCEPT !.pc = "clear", !.keys = Keys], excuse)
     ELSE Becomes(c, Idle, excuse \/ rq.op = "me")
  /\ UNCHANGED app

LoadProfile(c) ==
  /\ call[c] = [Idle EXCEPT !.op = "load"]
  /\ IF storage["access"] = 0
       THEN Refuse(c)
       ELSE Becomes(c, Send(call[c]), FALSE) /\ UNCHANGED <<status, user>>
  /\ UNCHANGED <<mobile, storage, api, fault>>

\* The screens behind the sign-in are shown.
InApp == status = "authenticated"

StartQuery(c) ==
  /\ call[c] = Idle /\ InApp
  /\ Becomes(c, Send([Idle EXCEPT !.op = "query"]), FALSE)
  /\ UNCHANGED <<mobile, app, api, fault>>

\* The form disables its button while it is submitting.
Submitting == Busy("login") \/ Busy("me")

StartLogin(c, u) ==
  /\ call[c] = Idle /\ status = "unauthenticated" /\ ~Submitting
  /\ Goto(c, [Idle EXCEPT !.op = "login", !.user = u], "login")
  /\ UNCHANGED <<mobile, app, api, fault>>

\* register signs a new account in as login does, on the phone only.
StartRegister(c, u) ==
  /\ mobile /\ \A n \in DOMAIN owner : owner[n] # u
  /\ StartLogin(c, u)

StartLogout(c) ==
  /\ call[c] = Idle /\ InApp
  /\ Becomes(c, ReadNow([Idle EXCEPT !.op = "logout"]), FALSE)
  /\ UNCHANGED <<mobile, app, api, fault>>

-----------------------------------------------------------------------------
(* apiRequest.                                                              *)

\* Faulty variant: an expired access token signs out, whatever else is stored.
FaultyAnswer(c) ==
  LET rq == call[c]  IN
  /\ rq.pc = "send"
  /\ IF rq.token \in access
       THEN Succeed(c, rq.token)
       ELSE /\ Becomes(c, [rq EXCEPT !.pc = "clear", !.keys = Keys], FALSE)
            /\ UNCHANGED <<status, user>>
  /\ UNCHANGED <<mobile, storage, api, fault>>
\* The API answers the first attempt.
Answer(c) ==
  LET rq == call[c]  IN
  /\ rq.pc = "send"
  /\ IF rq.token \in access
       THEN Succeed(c, rq.token)
       ELSE Becomes(c, ReadNow(rq), FALSE) /\ UNCHANGED <<status, user>>
  /\ UNCHANGED <<mobile, storage, api, fault>>

ReadRefreshToken(c) ==
  /\ call[c].pc = "readRefresh"
  /\ Becomes(c, ReadRefresh(call[c]), FALSE)
  /\ UNCHANGED <<mobile, app, api, fault>>

Refresh(c) ==
  LET rq == call[c]  IN
  /\ rq.pc = "refresh"
  /\ IF rq.token \in refresh
       THEN /\ Issue(owner[rq.token])
            /\ refresh' = (refresh \ {rq.token}) \cup {Len(owner) + 1}
            /\ Becomes(c, Saving(rq), FALSE)
       ELSE /\ Becomes(c, [rq EXCEPT !.pc = "clear", !.keys = Keys], FALSE)
            /\ UNCHANGED api
  /\ UNCHANGED <<mobile, app, fault>>

Login(c) ==
  LET rq == call[c]  IN
  /\ rq.pc = "login"
  /\ Issue(rq.user)
  /\ refresh' = refresh \cup {Len(owner) + 1}
  /\ Becomes(c, Saving(rq), FALSE)
  /\ UNCHANGED <<mobile, app, fault>>

\* When both keys are written, login fetches the profile with what is stored,
\* and apiRequest repeats its request with the new access token.
SaveTokens(c) ==
  LET rq == call[c]  IN
  /\ rq.pc = "save"
  /\ \E ks \in Written(rq) :
       LET left == [rq EXCEPT !.keys = @ \ ks]  IN
       /\ storage' = Stored(ks, rq.token)
       /\ IF left.keys # {} THEN Becomes(c, left, FALSE)
          ELSE IF rq.op = "login"
            THEN Becomes(c, [left EXCEPT !.op = "me", !.pc = "send", !.token = storage'["access"]], FALSE)
            ELSE Goto(c, left, "retry")
  /\ UNCHANGED <<mobile, status, user, api, fault>>

Retry(c) ==
  LET rq == call[c]  IN
  /\ rq.pc = "retry"
  /\ IF rq.token \in access THEN Succeed(c, rq.token) ELSE Refuse(c)
  /\ UNCHANGED <<mobile, storage, api, fault>>

\* Both for logout and for the handler of a session that could not be renewed.
Clear(c) ==
  LET rq == call[c]  IN
  /\ rq.pc = "clear"
  /\ \E ks \in Written(rq) :
       LET left == [rq EXCEPT !.keys = @ \ ks]  IN
       /\ storage' = Stored(ks, 0)
       /\ IF left.keys # {}
            THEN Becomes(c, left, FALSE) /\ UNCHANGED <<status, user>>
            ELSE Becomes(c, Idle, FALSE) /\ status' = "unauthenticated" /\ user' = None
  /\ UNCHANGED <<mobile, api, fault>>

Revoke(c) ==
  LET rq == call[c]  IN
  /\ rq.pc = "revoke"
  /\ refresh' = refresh \ {rq.token}
  /\ Becomes(c, [rq EXCEPT !.pc = "clear", !.keys = Keys], FALSE)
  /\ UNCHANGED <<mobile, app, owner, access, fault>>

\* The API answers with an error that is not a 401: a 5xx, or a refusal (403, 429)
\* that is not repeated.  At the renewal either counts as an expired session.
ServerError(c) ==
  LET rq == call[c]  IN
  /\ fault = "none" \/ (fault = "server" /\ rq.tries > 0)
  /\ fault' = "server"
  /\ \/ rq.pc \in {"send", "retry"} /\ Retried(rq) /\ Again(c, FALSE) /\ UNCHANGED <<status, user>>
     \/ rq.pc \in {"send", "retry"} /\ Refuse(c)
     \/ /\ rq.pc = "refresh" /\ UNCHANGED <<status, user>>
        /\ Becomes(c, [rq EXCEPT !.pc = "clear", !.keys = Keys], TRUE)
     \/ rq.pc \in {"login", "revoke"} /\ Throw(c, FALSE)
  /\ UNCHANGED <<mobile, storage, api>>

\* fetch rejects before the API has done anything.  Bound: one call is hit, and
\* the repetitions of that one.
NetworkError(c) ==
  /\ call[c].pc \in {"send", "refresh", "retry", "login", "revoke"}
  /\ fault = "none" \/ (fault = "network" /\ call[c].tries > 0)
  /\ fault' = "network"
  /\ Throw(c, FALSE)
  /\ UNCHANGED <<mobile, api>>

\* The API exchanged the token and its answer is lost.
LoseAnswer(c) ==
  LET rq == call[c]  IN
  /\ rq.pc = "refresh" /\ rq.token \in refresh
  /\ Issue(owner[rq.token])
  /\ refresh' = (refresh \ {rq.token}) \cup {Len(owner) + 1}
  /\ Meets("lostAnswer") /\ Throw(c, TRUE)
  /\ UNCHANGED mobile

\* The app is killed, or the page left: what is stored stays, as far as it was
\* written.
Kill ==
  /\ status # "closed" /\ Meets("relaunch")
  /\ call' = [c \in Call |-> Idle]
  /\ status' = "closed" /\ user' = None
  /\ excused' = (excused \/ InSection(call) # {})
  /\ UNCHANGED <<mobile, storage, api>>

\* The AuthProvider is mounted: its effect loads the profile.
Launch ==
  /\ status = "closed" /\ status' = "loading"
  /\ \E c \in Call : call' = [call EXCEPT ![c] = [Idle EXCEPT !.op = "load"]]
  /\ UNCHANGED <<mobile, storage, user, api, fault, excused>>

-----------------------------------------------------------------------------
(* External: an access token expires; the API ends the sessions.            *)

ExpireAccess ==
  /\ \E n \in access : access' = access \ {n}
  /\ UNCHANGED <<mobile, app, call, owner, refresh, fault, excused>>

EndSession ==
  /\ refresh # {} /\ refresh' = {}
  /\ excused' = TRUE
  /\ UNCHANGED <<mobile, app, call, owner, access, fault>>

Step(c) ==
  \/ LoadProfile(c) \/ Answer(c) \/ ReadRefreshToken(c) \/ Refresh(c) \/ Login(c)
  \/ SaveTokens(c) \/ Retry(c) \/ Clear(c) \/ Revoke(c)

NewWork ==
  \/ \E c \in Call :
       \/ StartQuery(c) \/ StartLogout(c)
       \/ \E u \in User : StartLogin(c, u) \/ StartRegister(c, u)
  \/ Kill \/ ExpireAccess \/ EndSession

\* Bound: once the session may have been lost for a reason, the calls in flight
\* are followed to their end and nothing new begins.
ApiClientNext ==
  \/ \E c \in Call : Step(c) \/ ServerError(c) \/ NetworkError(c) \/ LoseAnswer(c)
  \/ Launch
  \/ ~excused /\ NewWork

-----------------------------------------------------------------------------
(* Properties.                                                              *)

Quiet == \A c \in Call : call[c].pc \notin Section

\* The Excuses: two calls used the stored tokens at one time; a renewal was answered
\* with a 5xx or a refusal; the answer of a renewal was lost; the app was killed
\* while a call used the stored tokens; a login or the start of the app ended
\* without a profile although tokens were stored; the API ended the sessions.

\* The user is signed out only by a logout or after one of the Excuses: an access
\* token that merely expired, a query that is refused or fails, or a login of
\* another user before never signs out.
SignedOutForReason ==
  [][(status = "authenticated" /\ status' = "unauthenticated") =>
       Busy("logout") \/ excused']_apiClient

\* Before any of the Excuses: signed in, the app holds a refresh token that the API
\* still exchanges, and both stored tokens are of the account that is shown,
\* whatever queries of an earlier pair or account are still in flight.
SessionKept ==
  (status = "authenticated" /\ ~excused /\ Quiet) =>
    /\ storage["refresh"] \in refresh
    /\ storage["access"] = storage["refresh"]
    /\ owner[storage["access"]] = user

\* Before any of the Excuses: signed out, the device keeps no token.  A query that
\* the logout leaves behind, and that gets its 401 afterwards, brings none back;
\* one that was exchanging the token meanwhile does, and is one of the Excuses.
SignedOutKeepsNothing ==
  (status = "unauthenticated" /\ ~excused /\ Quiet /\ ~Busy("me")) => storage = Empty

\* What the device stores is what the screen says.
StorageMatches == SessionKept /\ SignedOutKeepsNothing

\* Every call of the app ends, whatever expires or is refused meanwhile: the
\* renewal is tried once and the repetitions of a query are counted.
AtBound == Len(owner) = MaxPairs
CallsEnd == \A c \in Call : [](call[c].op # "none" => <>(call[c].op = "none" \/ AtBound))

\* The app does not stay on its loading screen once its first call has ended, but
\* for a network error: the profile is then neither shown nor refused.
LoadingEnds ==
  (status = "loading" /\ ~Busy("load")) => fault \in {"network", "lostAnswer"}
=============================================================================
