------------------------- MODULE AuthSessionsProofs -------------------------
(***************************************************************************)
(* For every number of accounts, requests, tokens and passwords, with      *)
(* failures: the types, that a token descends from one that was given up,  *)
(* that an e-mail is verified by its mail only, and, unless requests       *)
(* overlapped or failed half-way, that a token serves once and that a      *)
(* revocation is final.                                                    *)
(***************************************************************************)
EXTENDS AuthSessions, SequenceTheorems, TLAPS

-----------------------------------------------------------------------------
(* The inductive invariant.                                                 *)

\* The account and the session of a token exist; a session has one account.
SessionsOK ==
  /\ \A t \in Issued :
       /\ status[refresh[t].user] # "absent"
       /\ refresh[t].session \in Issued
       /\ refresh[refresh[t].session].user = refresh[t].user
  /\ ended \subseteq Issued

\* What each statement may rely on, whoever else runs.
Known(r) ==
  /\ pc[r] # "idle" => arg[r].user \in User
  /\ pc[r] \in {"saveMail", "sendMail", "markUsed", "insertUser"} => arg[r].type \in Types
  /\ pc[r] \in {"saveMail", "sendMail", "issue", "revokeUsed"} => status[arg[r].user] # "absent"
  /\ pc[r] \in {"sendMail", "markUsed", "verifyEmail"} => arg[r].token \in Mailed
  /\ pc[r] \in {"markUsed", "verifyEmail"} =>
       /\ mail[arg[r].token].user = arg[r].user
       /\ mail[arg[r].token].type = arg[r].type
       /\ mail[arg[r].token].sent
  /\ pc[r] = "verifyEmail" =>
       arg[r].type = "EMAIL_VERIFICATION" /\ mail[arg[r].token].uses > 0
  /\ pc[r] = "revokeUsed" => arg[r].token \in Issued
  /\ pc[r] = "issue" /\ arg[r].token # 0 =>
       arg[r].token \in Issued /\ refresh[arg[r].token].revoked
  /\ pc[r] \in {"revokeUsed", "issue"} /\ arg[r].token # 0 =>
       refresh[arg[r].token].user = arg[r].user

\* A session goes on with one token.
OneTokenPerSession ==
  \A s, t \in Issued :
    ~refresh[s].revoked /\ ~refresh[t].revoked /\ refresh[s].session = refresh[t].session => s = t

\* At most one request is in flight, and it may rely on more.
Serial == \A r, q \in Req : r # q => pc[r] = "idle" \/ pc[q] = "idle"

KnownAlone(r) ==
  /\ pc[r] = "insertUser" => arg[r].password = 1
  /\ \/ pc[r] \in {"saveMail", "sendMail"} /\ arg[r].issues
     \/ pc[r] \in {"revokeUsed", "issue"}
     => arg[r].password = password[arg[r].user]
  /\ pc[r] = "revokeUsed" => ~refresh[arg[r].token].revoked
  /\ pc[r] = "issue" /\ arg[r].token # 0 =>
       /\ refresh[arg[r].token].session \notin ended
       /\ \A t \in Issued : /\ refresh[t].parent # arg[r].token
                            /\ refresh[t].session = refresh[arg[r].token].session => refresh[t].revoked
  /\ pc[r] = "markUsed" => mail[arg[r].token].uses = 0

TokensAlone ==
  /\ OneUsePerToken /\ OneTokenPerSession
  /\ \A t \in Issued : ~refresh[t].revoked => refresh[t].session \notin ended
MailAlone == \A k \in Mailed : mail[k].uses <= 1

Undisturbed ==
  /\ Serial /\ TokensAlone /\ MailAlone /\ OldPasswordOut
  /\ \A r \in Req : KnownAlone(r)

AInv ==
  /\ TypeOK /\ SessionsOK /\ Lineage /\ VerifiedByMail
  /\ \A r \in Req : Known(r)
  /\ disturbed \/ Undisturbed

-----------------------------------------------------------------------------
(* What a step of request r does to the others' facts.                      *)

Others(r) == \A q \in Req : q # r => pc'[q] = pc[q] /\ arg'[q] = arg[q]

\* A row stays what it is: an account, a token of an account, exchanged or not.
Keeps(s, t) ==
  /\ t.user = s.user /\ t.session = s.session /\ t.parent = s.parent /\ t.password = s.password
  /\ s.revoked => t.revoked
TokensGrow == \A t \in Issued : t \in Issued' /\ Keeps(refresh[t], refresh'[t])
MailGrows ==
  \A k \in Mailed : /\ k \in Mailed' /\ mail'[k].user = mail[k].user
                    /\ mail'[k].type = mail[k].type
                    /\ mail[k].sent => mail'[k].sent
                    /\ mail[k].uses > 0 => mail'[k].uses > 0
AccountsStay == \A u \in User : status[u] # "absent" => status'[u] # "absent"

Grows == TokensGrow /\ MailGrows /\ AccountsStay

LEMMA TokenType ==
  ASSUME TypeOK
  PROVE /\ Len(refresh) \in Nat /\ Len(mail) \in Nat
        /\ Issued = 1 .. Len(refresh) /\ Mailed = 1 .. Len(mail)
        /\ \A t \in Issued : refresh[t] \in RefreshToken
        /\ \A k \in Mailed : mail[k] \in MailToken
        /\ \A r \in Req : arg[r] \in [user : User \cup {None}, type : Types \cup {None},
                                      token : Nat, password : Nat, issues : BOOLEAN]
  BY DEF TypeOK, Issued, Mailed

LEMMA TokenFields ==
  ASSUME TypeOK
  PROVE /\ \A t \in Issued : /\ refresh[t].user \in User /\ refresh[t].session \in Nat
                             /\ refresh[t].parent \in Nat /\ refresh[t].password \in Nat
                             /\ refresh[t].revoked \in BOOLEAN
        /\ \A k \in Mailed : /\ mail[k].user \in User /\ mail[k].type \in Types
                             /\ mail[k].uses \in Nat /\ mail[k].sent \in BOOLEAN
        /\ \A r \in Req : /\ arg[r].user \in User \cup {None} /\ arg[r].type \in Types \cup {None}
                          /\ arg[r].token \in Nat /\ arg[r].password \in Nat
                          /\ arg[r].issues \in BOOLEAN
  BY TokenType DEF RefreshToken, MailToken

LEMMA KnownKept ==
  ASSUME TypeOK, Grows, NEW q \in Req, Known(q), pc'[q] = pc[q], arg'[q] = arg[q]
  PROVE Known(q)'
  BY DEF Known, Grows, TokensGrow, MailGrows, AccountsStay, Keeps

-----------------------------------------------------------------------------
(* Assembling the invariant.                                                *)

Arg == [user : User \cup {None}, type : Types \cup {None},
        token : Nat, password : Nat, issues : BOOLEAN]

ControlOK ==
  /\ pc \in [Req -> Control]
  /\ arg \in [Req -> Arg]
DataOK ==
  /\ status \in [User -> UserStatus \cup {"absent"}]
  /\ verified \in [User -> BOOLEAN]
  /\ password \in [User -> Nat]
  /\ refresh \in Seq(RefreshToken)
  /\ mail \in Seq(MailToken)

LEMMA Parts ==
  ASSUME AInv
  PROVE /\ TypeOK /\ ControlOK /\ DataOK /\ SessionsOK /\ Lineage /\ VerifiedByMail
        /\ \A q \in Req : Known(q)
        /\ disturbed \in BOOLEAN /\ ended \subseteq Issued
        /\ disturbed \/ Undisturbed
  BY DEF AInv, TypeOK, ControlOK, Arg, DataOK, SessionsOK

\* A step of r, which is alone unless the step disturbs.
LEMMA Assemble ==
  ASSUME AInv, NEW r \in Req, Others(r), Grows, ControlOK', DataOK', SessionsOK', Lineage',
         VerifiedByMail', Known(r)', disturbed' \in BOOLEAN, disturbed => disturbed',
         ~disturbed' => /\ Alone(r) /\ KnownAlone(r)'
                        /\ (TokensAlone /\ MailAlone /\ OldPasswordOut)'
  PROVE AInv'
  <1>1. \A q \in Req : Known(q)'
    BY Parts, KnownKept DEF Others
  <1>2. ended' \subseteq Nat
    BY DEF SessionsOK, DataOK, Issued
  <1>3. TypeOK'
    BY <1>2 DEF ControlOK, Arg, DataOK, TypeOK
  <1>4. ASSUME ~disturbed' PROVE Undisturbed'
    <2>1. \A q \in Req \ {r} : pc'[q] = "idle"
      BY <1>4 DEF Alone, Others
    <2>2. Serial'
      BY <2>1 DEF Serial
    <2>3. \A q \in Req : KnownAlone(q)'
      BY <1>4, <2>1 DEF KnownAlone
    <2> QED
      BY <1>4, <2>2, <2>3 DEF Undisturbed
  <1> QED
    BY <1>1, <1>3, <1>4 DEF AInv

-----------------------------------------------------------------------------
(* What stays true while rows stay what they are.                           *)

LEMMA NoArgFacts ==
  /\ NoArg \in Arg /\ NoArg.token = 0 /\ NoArg.password = 0 /\ NoArg.issues = FALSE
  BY DEF NoArg, Arg

LEMMA ArgUpdate ==
  ASSUME NEW a \in Arg
  PROVE /\ \A u \in User : [a EXCEPT !.user = u] \in Arg
        /\ \A x \in Types : [a EXCEPT !.type = x] \in Arg
        /\ \A n \in Nat : [a EXCEPT !.token = n] \in Arg
        /\ \A n \in Nat : [a EXCEPT !.password = n] \in Arg
        /\ \A b \in BOOLEAN : [a EXCEPT !.issues = b] \in Arg
  BY DEF Arg

LEMMA FinishFacts ==
  ASSUME TypeOK, NEW r \in Req, Finish(r)
  PROVE Others(r) /\ pc'[r] = "idle" /\ arg'[r] = NoArg /\ ControlOK'
  BY NoArgFacts DEF TypeOK, Finish, Others, ControlOK, Control, Arg

LEMMA GotoFacts ==
  ASSUME TypeOK, NEW r \in Req, NEW from, NEW to \in Control, Goto(r, from, to)
  PROVE /\ pc[r] = from /\ pc'[r] = to /\ pc' \in [Req -> Control]
        /\ \A q \in Req : q # r => pc'[q] = pc[q]
  BY DEF TypeOK, Goto

\* A revocation or an expiry of tokens.
Marked == Issued' = Issued /\ TokensGrow

LEMMA MarkedFacts ==
  ASSUME TypeOK, SessionsOK, Marked, AccountsStay, DataOK'
  PROVE /\ ended' \subseteq Issued => SessionsOK'
        /\ Lineage => Lineage'
        /\ OneUsePerToken => OneUsePerToken'
        /\ OneTokenPerSession => OneTokenPerSession'
  <1>1. \A t \in Issued : /\ refresh[t].revoked \in BOOLEAN /\ refresh[t].user \in User
                          /\ refresh[t].session \in Issued
    BY TokenFields DEF SessionsOK
  <1>2. \A t \in Issued : /\ Keeps(refresh[t], refresh'[t]) /\ refresh[t].parent \in Nat
                          /\ t \in Nat
    BY TokenType, TokenFields DEF Marked, TokensGrow
  <1>3. ended' \subseteq Issued => SessionsOK'
    BY <1>1, <1>2 DEF SessionsOK, Marked, AccountsStay, Keeps
  <1>4. Lineage => Lineage'
    <2>1. \A t \in Issued : refresh[t].parent # 0 /\ refresh[t].parent < t => refresh[t].parent \in Issued
      BY TokenType, TokenFields
    <2> QED
      BY <1>2, <2>1 DEF Lineage, Marked, Keeps
  <1>5. OneUsePerToken => OneUsePerToken'
    BY <1>2 DEF OneUsePerToken, Marked, Keeps
  <1>6. OneTokenPerSession => OneTokenPerSession'
    BY <1>1, <1>2 DEF OneTokenPerSession, Marked, Keeps
  <1> QED
    BY <1>3, <1>4, <1>5, <1>6

LEMMA VerifiedKept ==
  ASSUME MailGrows, VerifiedByMail, verified' = verified
  PROVE VerifiedByMail'
  BY DEF MailGrows, VerifiedByMail

LEMMA GrowsWhenUnchanged ==
  /\ UNCHANGED refresh => Marked
  /\ UNCHANGED mail => MailGrows
  /\ UNCHANGED status => AccountsStay
  BY DEF Marked, TokensGrow, Keeps, MailGrows, AccountsStay, Issued, Mailed

\* The row of one token is marked.
LEMMA MarkToken ==
  ASSUME TypeOK, NEW i \in Issued, NEW t \in RefreshToken, Keeps(refresh[i], t),
         refresh' = [refresh EXCEPT ![i] = t]
  PROVE /\ refresh' \in Seq(RefreshToken) /\ Marked
        /\ refresh'[i] = t /\ \A j \in Issued : j # i => refresh'[j] = refresh[j]
  <1>1. refresh \in Seq(RefreshToken) /\ i \in 1 .. Len(refresh)
    BY TokenType DEF TypeOK
  <1>2. /\ refresh' \in Seq(RefreshToken) /\ Issued' = Issued
        /\ \A j \in Issued : refresh'[j] = IF j = i THEN t ELSE refresh[j]
    BY <1>1 DEF Issued
  <1> QED
    BY <1>2 DEF Marked, TokensGrow, Keeps

\* The row of one mail is marked.
LEMMA MarkMail ==
  ASSUME TypeOK, NEW i \in Mailed, NEW m \in MailToken,
         m.user = mail[i].user, m.type = mail[i].type, mail[i].sent => m.sent,
         mail[i].uses > 0 => m.uses > 0,
         mail' = [mail EXCEPT ![i] = m]
  PROVE /\ mail' \in Seq(MailToken) /\ Mailed' = Mailed /\ MailGrows
        /\ mail'[i] = m /\ \A j \in Mailed : j # i => mail'[j] = mail[j]
  <1>1. mail \in Seq(MailToken) /\ i \in 1 .. Len(mail)
    BY TokenType DEF TypeOK
  <1>2. /\ mail' \in Seq(MailToken) /\ Mailed' = Mailed
        /\ \A j \in Mailed : mail'[j] = IF j = i THEN m ELSE mail[j]
    BY <1>1 DEF Mailed
  <1> QED
    BY <1>2 DEF MailGrows

-----------------------------------------------------------------------------
(* Steps of a request, which disturb when another one is in flight.         *)

Moves(r) == disturbed' = (disturbed \/ ~Alone(r))

\* No valid token was issued for an older password.
Current == \A t \in Issued : ~refresh[t].revoked => refresh[t].password = password[refresh[t].user]

LEMMA MoveFacts ==
  ASSUME AInv, NEW r \in Req, Moves(r)
  PROVE /\ disturbed' \in BOOLEAN /\ (disturbed => disturbed')
        /\ ~disturbed' => /\ Alone(r) /\ ~disturbed /\ KnownAlone(r)
                          /\ TokensAlone /\ MailAlone /\ OldPasswordOut
                          /\ pc[r] # "revokeAll" => Current
  <1>1. disturbed \in BOOLEAN /\ (disturbed \/ Undisturbed)
    BY Parts
  <1>2. disturbed' \in BOOLEAN /\ (disturbed => disturbed')
    BY <1>1 DEF Moves
  <1>3. ASSUME ~disturbed' PROVE Alone(r) /\ ~disturbed
    BY <1>3 DEF Moves
  <1>4. ASSUME ~disturbed', pc[r] # "revokeAll" PROVE Current
    <2>1. \A q \in Req : pc[q] # "revokeAll"
      BY <1>3, <1>4 DEF Alone
    <2> QED
      BY <1>1, <1>3, <1>4, <2>1 DEF Undisturbed, OldPasswordOut, Current
  <1> QED
    BY <1>1, <1>2, <1>3, <1>4 DEF Undisturbed

LEMMA CurrentSuffices == Current => OldPasswordOut
  BY DEF Current, OldPasswordOut

\* At most mails are written.
LEMMA MailInv ==
  ASSUME AInv, NEW r \in Req, Others(r), ControlOK', Known(r)',
         UNCHANGED <<status, verified, password, refresh, ended>>,
         mail' \in Seq(MailToken), MailGrows,
         disturbed' \in BOOLEAN, disturbed => disturbed',
         ~disturbed' => Alone(r) /\ ~disturbed /\ Current /\ TokensAlone /\ MailAlone' /\ KnownAlone(r)'
  PROVE AInv'
  <1>1. TypeOK /\ DataOK /\ SessionsOK /\ Lineage /\ VerifiedByMail
    BY Parts
  <1>2. Grows
    BY <1>1, GrowsWhenUnchanged DEF Grows, Marked
  <1>3. (DataOK /\ SessionsOK /\ Lineage /\ VerifiedByMail)'
    BY <1>1, VerifiedKept DEF DataOK, SessionsOK, Lineage, Issued
  <1>4. ~disturbed' => (TokensAlone /\ OldPasswordOut)'
    <2>1. ~disturbed' => (TokensAlone /\ Current)'
      BY <1>1 DEF TokensAlone, OneUsePerToken, OneTokenPerSession, Current, Issued
    <2>2. Current' => OldPasswordOut'
      BY DEF Current, OldPasswordOut
    <2> QED
      BY <2>1, <2>2
  <1> QED
    BY <1>2, <1>3, <1>4, Assemble

\* No row is written.
LEMMA QuietInv ==
  ASSUME AInv, NEW r \in Req, Others(r), ControlOK', Known(r)',
         UNCHANGED <<status, verified, password, refresh, mail, ended>>,
         disturbed' \in BOOLEAN, disturbed => disturbed',
         ~disturbed' => Alone(r) /\ ~disturbed /\ Current /\ TokensAlone /\ MailAlone /\ KnownAlone(r)'
  PROVE AInv'
  <1>1. mail' \in Seq(MailToken) /\ MailGrows /\ (MailAlone => MailAlone')
    BY Parts, GrowsWhenUnchanged DEF DataOK, MailAlone, Mailed
  <1> QED
    BY <1>1, MailInv

\* A request begins with what it has read.
LEMMA BeginInv ==
  ASSUME AInv, NEW r \in Req, NEW to \in Control,
         NEW locals \in Arg, Begin(r, to, locals), Moves(r),
         UNCHANGED <<accounts, refresh, mail, ended>>,
         pc'[r] = to /\ arg'[r] = locals => Known(r)',
         pc'[r] = to /\ arg'[r] = locals /\ ~disturbed' /\ Current /\ TokensAlone => KnownAlone(r)'
  PROVE AInv'
  <1>1. TypeOK /\ pc[r] = "idle" /\ ControlOK
    BY Parts DEF Begin, Goto
  <1>2. Others(r) /\ ControlOK' /\ pc'[r] = to /\ arg'[r] = locals
    BY <1>1 DEF Begin, Goto, Others, ControlOK
  <1>3. /\ disturbed' \in BOOLEAN /\ (disturbed => disturbed')
        /\ ~disturbed' => Alone(r) /\ ~disturbed /\ Current /\ TokensAlone /\ MailAlone
    BY <1>1, MoveFacts
  <1>4. Known(r)' /\ (~disturbed' => KnownAlone(r)')
    BY <1>2, <1>3
  <1>5. UNCHANGED <<status, verified, password, refresh, mail, ended>>
    BY DEF accounts
  <1> QED
    BY <1>2, <1>3, <1>4, <1>5, QuietInv

LEMMA BeginRegisterInv ==
  ASSUME AInv, NEW r \in Req, NEW u \in User, BeginRegister(r, u), Moves(r)
  PROVE AInv'
  <1> DEFINE a == [NoArg EXCEPT !.user = u, !.password = 1, !.issues = TRUE,
                          !.type = "EMAIL_VERIFICATION"]
  <1>1. a.user = u /\ a.type = "EMAIL_VERIFICATION" /\ a.token = 0 /\ a.password = 1 /\ a.issues = TRUE
    BY NoArgFacts
  <1>2. Begin(r, "insertUser", a) /\ UNCHANGED <<accounts, refresh, mail, ended>>
    BY DEF BeginRegister
  <1>3. a \in Arg
    BY NoArgFacts, ArgUpdate DEF Types
  <1> HIDE DEF a
  <1>4. pc'[r] = "insertUser" /\ arg'[r] = a => Known(r)' /\ KnownAlone(r)'
    BY <1>1 DEF Known, KnownAlone, Types
  <1> QED
    BY <1>1, <1>2, <1>3, <1>4, BeginInv DEF Control, Types

LEMMA BeginForgotInv ==
  ASSUME AInv, NEW r \in Req, NEW u \in User, BeginForgot(r, u), Moves(r)
  PROVE AInv'
  <1> DEFINE a == [NoArg EXCEPT !.user = u, !.type = "PASSWORD_RESET"]
  <1>1. a.user = u /\ a.type = "PASSWORD_RESET" /\ a.token = 0 /\ a.password = 0 /\ a.issues = FALSE
    BY NoArgFacts
  <1>2. /\ Begin(r, "saveMail", a) /\ UNCHANGED <<accounts, refresh, mail, ended>>
        /\ status[u] # "absent" /\ status' = status
    BY DEF BeginForgot, accounts
  <1>3. a \in Arg
    BY NoArgFacts, ArgUpdate DEF Types
  <1> HIDE DEF a
  <1>4. pc'[r] = "saveMail" /\ arg'[r] = a => Known(r)' /\ KnownAlone(r)'
    BY <1>1, <1>2 DEF Known, KnownAlone, Types
  <1> QED
    BY <1>1, <1>2, <1>3, <1>4, BeginInv DEF Control, Types

LEMMA BeginLoginInv ==
  ASSUME AInv, NEW r \in Req, NEW u \in User, BeginLogin(r, u), Moves(r)
  PROVE AInv'
  <1> DEFINE a == [NoArg EXCEPT !.user = u, !.password = password[u], !.issues = TRUE]
  <1>1. a.user = u /\ a.token = 0 /\ a.password = password[u] /\ a.issues = TRUE
    BY NoArgFacts
  <1>2. /\ Begin(r, "issue", a) /\ UNCHANGED <<accounts, refresh, mail, ended>>
        /\ status[u] # "absent" /\ status' = status /\ password' = password
    BY DEF BeginLogin, accounts
  <1>3. password[u] \in Nat
    BY DEF AInv, TypeOK
  <1>4. a \in Arg
    BY <1>3, NoArgFacts, ArgUpdate
  <1> HIDE DEF a
  <1>5. pc'[r] = "issue" /\ arg'[r] = a => Known(r)' /\ KnownAlone(r)'
    BY <1>1, <1>2 DEF Known, KnownAlone
  <1> QED
    BY <1>1, <1>2, <1>3, <1>4, <1>5, BeginInv DEF Control

LEMMA BeginRefreshInv ==
  ASSUME AInv, NEW r \in Req, NEW t \in Issued, BeginRefresh(r, t), Moves(r)
  PROVE AInv'
  <1> DEFINE a == [NoArg EXCEPT !.user = refresh[t].user, !.token = t, !.issues = TRUE,
                          !.password = refresh[t].password]
  <1>1. a.user = refresh[t].user /\ a.token = t /\ a.password = refresh[t].password /\ a.issues = TRUE
    BY NoArgFacts
  <1>2. /\ Begin(r, "revokeUsed", a) /\ UNCHANGED <<accounts, refresh, mail, ended>>
        /\ ~refresh[t].revoked
        /\ UNCHANGED <<status, password, refresh>>
    BY DEF BeginRefresh, Usable, accounts
  <1>3. /\ TypeOK /\ refresh[t].user \in User /\ refresh[t].password \in Nat /\ t \in Nat
        /\ status[refresh[t].user] # "absent"
    BY Parts, TokenType, TokenFields DEF SessionsOK
  <1>4. a \in Arg
    BY <1>3, NoArgFacts, ArgUpdate
  <1> HIDE DEF a
  <1>5. pc'[r] = "revokeUsed" /\ arg'[r] = a => Known(r)'
    BY <1>1, <1>2, <1>3 DEF Known, Issued
  <1>6. pc'[r] = "revokeUsed" /\ arg'[r] = a /\ Current => KnownAlone(r)'
    BY <1>1, <1>2, <1>3 DEF KnownAlone, Current
  <1> QED
    BY <1>1, <1>2, <1>3, <1>4, <1>5, <1>6, BeginInv DEF Control

LEMMA BeginChangeInv ==
  ASSUME AInv, NEW r \in Req, NEW u \in User, BeginChange(r, u), Moves(r)
  PROVE AInv'
  <1> DEFINE a == [NoArg EXCEPT !.user = u]
  <1>1. a.user = u /\ a.token = 0 /\ a.password = 0 /\ a.issues = FALSE
    BY NoArgFacts
  <1>2. Begin(r, "setPassword", a) /\ UNCHANGED <<accounts, refresh, mail, ended>>
    BY DEF BeginChange
  <1>3. a \in Arg
    BY NoArgFacts, ArgUpdate
  <1> HIDE DEF a
  <1>4. pc'[r] = "setPassword" /\ arg'[r] = a => Known(r)' /\ KnownAlone(r)'
    BY <1>1 DEF Known, KnownAlone
  <1> QED
    BY <1>1, <1>2, <1>3, <1>4, BeginInv DEF Control

LEMMA BeginConsumeInv ==
  ASSUME AInv, NEW r \in Req, NEW k \in Mailed, NEW type \in Types, BeginConsume(r, k, type), Moves(r)
  PROVE AInv'
  <1> DEFINE a == [NoArg EXCEPT !.user = mail[k].user, !.token = k, !.type = type]
  <1>1. a.user = mail[k].user /\ a.type = type /\ a.token = k /\ a.password = 0 /\ a.issues = FALSE
    BY NoArgFacts
  <1>2. /\ Begin(r, "markUsed", a) /\ UNCHANGED <<accounts, refresh, mail, ended>>
        /\ mail[k].sent /\ mail[k].type = type /\ mail[k].uses = 0 /\ mail' = mail
    BY DEF BeginConsume, Consumable, Fresh
  <1>3. mail[k].user \in User /\ k \in Nat
    BY Parts, TokenType, TokenFields
  <1>4. a \in Arg
    BY <1>3, NoArgFacts, ArgUpdate
  <1> HIDE DEF a
  <1>5. pc'[r] = "markUsed" /\ arg'[r] = a => Known(r)' /\ KnownAlone(r)'
    BY <1>1, <1>2, <1>3 DEF Known, KnownAlone, Mailed
  <1> QED
    BY <1>1, <1>2, <1>3, <1>4, <1>5, BeginInv DEF Control

-----------------------------------------------------------------------------
(* Steps that write mails.                                                  *)

LEMMA TokenSet ==
  ASSUME NEW a \in Arg, NEW n \in Nat
  PROVE LET b == [a EXCEPT !.token = n] IN
        /\ b \in Arg /\ b.token = n /\ b.user = a.user /\ b.type = a.type
        /\ b.password = a.password /\ b.issues = a.issues
  BY DEF Arg

LEMMA UsesSet ==
  ASSUME NEW m \in MailToken, NEW n \in Nat
  PROVE LET b == [m EXCEPT !.uses = n] IN
        b \in MailToken /\ b.uses = n /\ b.user = m.user /\ b.type = m.type /\ b.sent = m.sent
  BY DEF MailToken

LEMMA SaveMailInv ==
  ASSUME AInv, NEW r \in Req, SaveMail(r), Moves(r)
  PROVE AInv'
  <1> DEFINE m == [user |-> arg[r].user, type |-> arg[r].type, uses |-> 0, sent |-> FALSE,
                   expired |-> FALSE]
  <1>1. /\ TypeOK /\ ControlOK /\ Known(r) /\ pc[r] = "saveMail" /\ pc'[r] = "sendMail"
        /\ pc' \in [Req -> Control] /\ \A q \in Req : q # r => pc'[q] = pc[q]
    BY Parts, GotoFacts DEF SaveMail, Control
  <1>2. /\ mail' = Append(mail, m) /\ arg' = [arg EXCEPT ![r].token = Len(mail) + 1]
        /\ UNCHANGED <<status, verified, password, refresh, ended>>
    BY DEF SaveMail, accounts
  <1>3. m \in MailToken /\ mail \in Seq(MailToken)
    BY <1>1 DEF Known, MailToken, TypeOK
  <1> HIDE DEF m
  <1>4. /\ mail' \in Seq(MailToken) /\ Len(mail') = Len(mail) + 1 /\ Len(mail) \in Nat
        /\ \A k \in 1 .. Len(mail) : mail'[k] = mail[k]
        /\ mail'[Len(mail) + 1] = m
    BY <1>2, <1>3, AppendProperties
  <1>5. Mailed = 1 .. Len(mail) /\ Mailed' = 1 .. Len(mail) + 1
    BY <1>1, <1>4, TokenType DEF Mailed
  <1>6. MailGrows
    BY <1>4, <1>5 DEF MailGrows
  <1>7. m.uses = 0
    BY DEF m
  <1>8. /\ Others(r) /\ ControlOK' /\ arg'[r].token = Len(mail) + 1
        /\ arg'[r].user = arg[r].user /\ arg'[r].type = arg[r].type
        /\ arg'[r].password = arg[r].password /\ arg'[r].issues = arg[r].issues
    <2>1. PICK a \in Arg, n \in Nat : a = arg[r] /\ n = Len(mail) + 1
      BY <1>1, <1>4 DEF ControlOK
    <2> DEFINE b == [a EXCEPT !.token = n]
    <2>2. /\ b \in Arg /\ b.token = n /\ b.user = a.user
          /\ b.type = a.type /\ b.password = a.password /\ b.issues = a.issues
      BY TokenSet
    <2>3. arg' = [arg EXCEPT ![r] = b]
      BY <1>1, <1>2, <2>1 DEF ControlOK
    <2> HIDE DEF b
    <2> QED
      BY <1>1, <2>1, <2>2, <2>3 DEF Others, ControlOK
  <1>9. Known(r)'
    BY <1>1, <1>2, <1>4, <1>5, <1>8 DEF Known
  <1>10. ~disturbed' => /\ Alone(r) /\ ~disturbed /\ Current /\ TokensAlone
                        /\ MailAlone' /\ KnownAlone(r)'
    <2>1. MailAlone => MailAlone'
      BY <1>4, <1>5, <1>7 DEF MailAlone
    <2>2. KnownAlone(r) => KnownAlone(r)'
      BY <1>1, <1>2, <1>8 DEF KnownAlone
    <2> QED
      BY <1>1, <2>1, <2>2, MoveFacts
  <1> QED
    BY <1>2, <1>4, <1>6, <1>8, <1>9, <1>10, MoveFacts, MailInv

LEMMA SendMailInv ==
  ASSUME AInv, NEW r \in Req, SendMail(r), Moves(r)
  PROVE AInv'
  <1> DEFINE k == arg[r].token
             m == [mail[k] EXCEPT !.sent = TRUE]
  <1>1. /\ TypeOK /\ ControlOK /\ Known(r) /\ pc[r] = "sendMail" /\ k \in Mailed
        /\ mail' = [mail EXCEPT ![k].sent = TRUE]
        /\ UNCHANGED <<status, verified, password, refresh, ended>>
    BY Parts DEF SendMail, accounts, Known
  <1>2. mail[k] \in MailToken /\ mail \in Seq(MailToken)
    BY <1>1, TokenType DEF TypeOK
  <1>3. m \in MailToken /\ m.user = mail[k].user /\ m.type = mail[k].type /\ m.sent
        /\ m.uses = mail[k].uses
    BY <1>2 DEF MailToken
  <1>4. mail' = [mail EXCEPT ![k] = m]
    BY <1>1, <1>2
  <1> HIDE DEF k, m
  <1>5. /\ mail' \in Seq(MailToken) /\ Mailed' = Mailed /\ MailGrows
        /\ mail'[k] = m /\ \A j \in Mailed : j # k => mail'[j] = mail[j]
    BY <1>1, <1>3, <1>4, MarkMail
  <1>6. MailAlone => MailAlone'
    BY <1>3, <1>5 DEF MailAlone
  <1>7. CASE /\ arg[r].issues /\ Goto(r, "sendMail", "issue")
             /\ arg' = [arg EXCEPT ![r].token = 0]
    <2>1. /\ Others(r) /\ ControlOK' /\ pc'[r] = "issue" /\ arg'[r].token = 0
          /\ arg'[r].user = arg[r].user /\ arg'[r].password = arg[r].password
      <3> DEFINE b == [arg[r] EXCEPT !.token = 0]
      <3>1. b \in Arg /\ b.token = 0 /\ b.user = arg[r].user /\ b.password = arg[r].password
        BY <1>1, TokenSet DEF ControlOK
      <3>2. arg' = [arg EXCEPT ![r] = b]
        BY <1>1, <1>7 DEF ControlOK
      <3> HIDE DEF b
      <3> QED
        BY <1>1, <1>7, <3>1, <3>2, GotoFacts DEF Others, ControlOK, Control
    <2>2. Known(r)' /\ (KnownAlone(r) => KnownAlone(r)')
      BY <1>1, <1>7, <2>1 DEF Known, KnownAlone
    <2> QED
      BY <1>1, <1>5, <1>6, <2>1, <2>2, MoveFacts, MailInv
  <1>8. CASE Finish(r)
    <2>1. Others(r) /\ pc'[r] = "idle" /\ ControlOK'
      BY <1>1, <1>8, FinishFacts
    <2>2. Known(r)' /\ KnownAlone(r)'
      BY <2>1 DEF Known, KnownAlone
    <2> QED
      BY <1>1, <1>5, <1>6, <2>1, <2>2, MoveFacts, MailInv
  <1> QED
    BY <1>7, <1>8 DEF SendMail

LEMMA MarkUsedInv ==
  ASSUME AInv, NEW r \in Req, MarkUsed(r), Moves(r)
  PROVE AInv'
  <1> DEFINE k == arg[r].token
  <1>1. /\ TypeOK /\ ControlOK /\ Known(r) /\ pc[r] = "markUsed" /\ k \in Mailed
        /\ mail' = [mail EXCEPT ![k].uses = @ + 1]
        /\ UNCHANGED <<status, verified, password, refresh, ended, arg>>
    BY Parts DEF MarkUsed, accounts, Known
  <1>2. PICK a \in MailToken, n \in Nat :
          mail \in Seq(MailToken) /\ a = mail[k] /\ a.uses \in Nat /\ n = a.uses + 1
    BY <1>1, TokenType, TokenFields DEF TypeOK
  <1> DEFINE m == [a EXCEPT !.uses = n]
  <1>3. m \in MailToken /\ m.uses = n /\ m.user = a.user /\ m.type = a.type /\ m.sent = a.sent
    BY UsesSet
  <1>4. mail' = [mail EXCEPT ![k] = m]
    BY <1>1, <1>2
  <1> HIDE DEF m, k
  <1>5. /\ mail' \in Seq(MailToken) /\ Mailed' = Mailed /\ MailGrows
        /\ mail'[k] = m /\ \A j \in Mailed : j # k => mail'[j] = mail[j]
    <2>1. m.uses > 0 /\ (mail[k].sent => m.sent)
      BY <1>2, <1>3
    <2>2. m.user = mail[k].user /\ m.type = mail[k].type
      BY <1>2, <1>3
    <2> QED
      BY <1>1, <1>3, <1>4, <2>1, <2>2, MarkMail
  <1> USE DEF k
  <1>6. /\ Others(r) /\ ControlOK' /\ arg'[r] = arg[r]
        /\ \/ arg[r].type = "PASSWORD_RESET" /\ pc'[r] = "setPassword"
           \/ arg[r].type = "EMAIL_VERIFICATION" /\ pc'[r] = "verifyEmail"
    BY <1>1, GotoFacts DEF MarkUsed, Others, ControlOK, Control
  <1>7. Known(r)'
    BY <1>1, <1>2, <1>3, <1>5, <1>6 DEF Known
  <1>8. KnownAlone(r)'
    BY <1>6 DEF KnownAlone
  <1>9. KnownAlone(r) /\ MailAlone => MailAlone'
    BY <1>1, <1>2, <1>3, <1>5 DEF MailAlone, KnownAlone
  <1> QED
    BY <1>1, <1>5, <1>6, <1>7, <1>8, <1>9, MoveFacts, MailInv

-----------------------------------------------------------------------------
(* Steps that revoke tokens.                                                *)

LEMMA TokensInv ==
  ASSUME AInv, NEW r \in Req, Others(r), ControlOK', Known(r)',
         UNCHANGED <<status, verified, password, mail>>,
         refresh' \in Seq(RefreshToken), Marked, ended' \subseteq Issued,
         disturbed' \in BOOLEAN, disturbed => disturbed',
         ~disturbed' =>
           /\ Alone(r) /\ TokensAlone /\ MailAlone
           /\ \A t \in Issued : ~refresh'[t].revoked => refresh'[t].session \notin ended'
           /\ Current' /\ KnownAlone(r)'
  PROVE AInv'
  <1>1. TypeOK /\ DataOK /\ SessionsOK /\ Lineage /\ VerifiedByMail
    BY Parts
  <1>2. Grows /\ AccountsStay /\ MailGrows
    BY <1>1, GrowsWhenUnchanged DEF Grows, Marked
  <1>3. DataOK'
    BY <1>1 DEF DataOK
  <1>4. (SessionsOK /\ Lineage /\ VerifiedByMail)'
    BY <1>1, <1>2, <1>3, MarkedFacts, VerifiedKept
  <1>5. ~disturbed' => (TokensAlone /\ MailAlone /\ OldPasswordOut)'
    <2>1. Current' => OldPasswordOut'
      BY DEF Current, OldPasswordOut
    <2>2. MailAlone => MailAlone'
      BY DEF MailAlone, Mailed
    <2>3. TokensAlone => (OneUsePerToken /\ OneTokenPerSession)'
      BY <1>1, <1>2, <1>3, MarkedFacts DEF TokensAlone
    <2> QED
      BY <2>1, <2>2, <2>3 DEF TokensAlone, Marked
  <1> QED
    BY <1>2, <1>3, <1>4, <1>5, Assemble

LEMMA CurrentKept ==
  ASSUME Marked, Current, UNCHANGED password
  PROVE Current'
  BY DEF Marked, TokensGrow, Keeps, Current

\* A token that may be exchanged has no descendant, and its session goes on with
\* no other.
LEMMA RevokeUsedInv ==
  ASSUME AInv, NEW r \in Req, RevokeUsed(r), Moves(r)
  PROVE AInv'
  <1> DEFINE k == arg[r].token
  <1>1. /\ TypeOK /\ ControlOK /\ SessionsOK /\ Lineage /\ Known(r)
        /\ pc[r] = "revokeUsed" /\ k \in Issued
        /\ refresh' = [refresh EXCEPT ![k].revoked = TRUE]
        /\ UNCHANGED <<status, verified, password, mail, ended, arg>>
    BY Parts DEF RevokeUsed, Goto, accounts, Known
  <1>2. PICK a \in RefreshToken : a = refresh[k]
    BY <1>1, TokenType
  <1> DEFINE t == [a EXCEPT !.revoked = TRUE]
  <1>3. t \in RefreshToken /\ Keeps(a, t) /\ t.revoked
    BY DEF RefreshToken, Keeps
  <1>4. refresh' = [refresh EXCEPT ![k] = t]
    BY <1>1, <1>2
  <1> HIDE DEF t, k
  <1>5. /\ refresh' \in Seq(RefreshToken) /\ Marked
        /\ refresh'[k] = t /\ \A j \in Issued : j # k => refresh'[j] = refresh[j]
    BY <1>1, <1>2, <1>3, <1>4, MarkToken
  <1> USE DEF k
  <1>6. /\ Others(r) /\ ControlOK' /\ arg'[r] = arg[r] /\ pc'[r] = "issue"
    BY <1>1, GotoFacts DEF RevokeUsed, Others, ControlOK, Control
  <1>7. Known(r)'
    BY <1>1, <1>2, <1>3, <1>5, <1>6 DEF Known, Marked, Keeps
  <1>8. ended' \subseteq Issued
    BY <1>1 DEF SessionsOK
  <1>9. ASSUME ~disturbed'
        PROVE /\ Alone(r) /\ TokensAlone /\ MailAlone /\ Current' /\ KnownAlone(r)'
              /\ \A i \in Issued : ~refresh'[i].revoked => refresh'[i].session \notin ended'
    <2>1. /\ Alone(r) /\ TokensAlone /\ MailAlone /\ Current' /\ ~refresh[k].revoked
          /\ arg[r].password = password[arg[r].user]
      BY <1>1, <1>5, <1>9, MoveFacts, CurrentKept DEF KnownAlone
    <2>2. /\ \A i \in Issued : /\ refresh'[i].session = refresh[i].session
                               /\ refresh'[i].parent = refresh[i].parent
                               /\ refresh[i].revoked => refresh'[i].revoked
          /\ Issued' = Issued /\ refresh'[k].revoked
      BY <1>3, <1>5 DEF Marked, TokensGrow, Keeps
    <2>3. \A i \in Issued : refresh[i].parent # k
      BY <1>1, <2>1, TokenType DEF Lineage
    <2>4. \A i \in Issued : refresh[i].session = refresh[k].session => refresh'[i].revoked
      BY <1>1, <2>1, <2>2 DEF TokensAlone, OneTokenPerSession
    <2>5. refresh[k].session \notin ended
      BY <1>1, <2>1 DEF TokensAlone
    <2>6. KnownAlone(r)'
      BY <1>1, <1>6, <2>1, <2>2, <2>3, <2>4, <2>5 DEF KnownAlone
    <2>7. \A i \in Issued : ~refresh'[i].revoked => refresh'[i].session \notin ended'
      BY <1>1, <2>1, <2>2 DEF TokensAlone
    <2> QED
      BY <2>1, <2>6, <2>7
  <1> QED
    BY <1>1, <1>5, <1>6, <1>7, <1>8, <1>9, MoveFacts, TokensInv

LEMMA RevokeFacts ==
  ASSUME TypeOK, NEW T \in SUBSET Issued, Revoke(T)
  PROVE /\ refresh' \in Seq(RefreshToken) /\ Marked
        /\ \A i \in T : refresh'[i].revoked
        /\ \A i \in Issued \ T : refresh'[i] = refresh[i]
  <1> DEFINE new(i) == IF i \in T THEN [refresh[i] EXCEPT !.revoked = TRUE] ELSE refresh[i]
  <1>1. ASSUME NEW i \in Issued
        PROVE /\ new(i) \in RefreshToken /\ Keeps(refresh[i], new(i))
              /\ i \in T => new(i).revoked
              /\ i \notin T => new(i) = refresh[i]
    <2>1. PICK a \in RefreshToken : a = refresh[i]
      BY TokenType
    <2> DEFINE b == [a EXCEPT !.revoked = TRUE]
    <2>2. b \in RefreshToken /\ Keeps(a, b) /\ b.revoked
      BY DEF RefreshToken, Keeps
    <2>3. new(i) = IF i \in T THEN b ELSE a
      BY <2>1
    <2> HIDE DEF b, new
    <2>4. Keeps(a, a)
      BY DEF Keeps
    <2> QED
      BY <2>1, <2>2, <2>3, <2>4
  <1>2. Issued = 1 .. Len(refresh) /\ Len(refresh) \in Nat /\ refresh' = [i \in Issued |-> new(i)]
    BY TokenType DEF Revoke
  <1> HIDE DEF new
  <1>3. refresh' \in [1 .. Len(refresh) -> RefreshToken]
    BY <1>1, <1>2
  <1>4. refresh' \in Seq(RefreshToken) /\ Issued' = Issued
    BY <1>2, <1>3, SeqDef DEF Issued
  <1> QED
    BY <1>1, <1>2, <1>4 DEF Marked, TokensGrow

LEMMA IdleStays ==
  ASSUME AInv, NEW r \in Req, UNCHANGED request, pc[r] = "idle"
  PROVE Others(r) /\ ControlOK' /\ Known(r)' /\ KnownAlone(r)' /\ pc[r] # "revokeAll"
  BY Parts DEF request, Others, ControlOK, Known, KnownAlone

LEMMA LogoutInv ==
  ASSUME AInv, NEW r \in Req, NEW t \in Issued, Logout(r, t), Moves(r)
  PROVE AInv'
  <1>1. /\ TypeOK /\ SessionsOK /\ ~refresh[t].revoked /\ Revoke({t})
        /\ ended' = ended \cup {refresh[t].session}
        /\ UNCHANGED <<status, verified, password, mail>>
    BY Parts DEF Logout, accounts
  <1>2. Others(r) /\ ControlOK' /\ Known(r)' /\ KnownAlone(r)' /\ pc[r] # "revokeAll"
    BY IdleStays DEF Logout
  <1>3. /\ refresh' \in Seq(RefreshToken) /\ Marked /\ refresh'[t].revoked
        /\ \A i \in Issued : i # t => refresh'[i] = refresh[i]
    <2>1. {t} \in SUBSET Issued
      OBVIOUS
    <2> QED
      BY <1>1, <2>1, RevokeFacts
  <1>4. ended' \subseteq Issued
    BY <1>1 DEF SessionsOK
  <1>5. ASSUME ~disturbed'
        PROVE /\ Alone(r) /\ TokensAlone /\ MailAlone /\ Current'
              /\ \A i \in Issued : ~refresh'[i].revoked => refresh'[i].session \notin ended'
    <2>1. Alone(r) /\ TokensAlone /\ MailAlone /\ Current'
      BY <1>1, <1>2, <1>3, <1>5, MoveFacts, CurrentKept
    <2>2. \A i \in Issued : ~refresh'[i].revoked => i # t /\ refresh[i].session # refresh[t].session
      BY <1>1, <1>3, <2>1 DEF TokensAlone, OneTokenPerSession
    <2> QED
      BY <1>1, <1>3, <2>1, <2>2 DEF TokensAlone
  <1> QED
    BY <1>1, <1>2, <1>3, <1>4, <1>5, MoveFacts, TokensInv

\* All sessions of an account end, and no other.
LEMMA AllRevoked ==
  ASSUME TypeOK, SessionsOK, NEW u \in User, RevokeAllRefreshTokens(u)
  PROVE /\ refresh' \in Seq(RefreshToken) /\ Marked /\ ended' \subseteq Issued
        /\ \A i \in Issued : ~refresh'[i].revoked => refresh'[i] = refresh[i] /\ refresh[i].user # u
        /\ TokensAlone =>
             \A i \in Issued : ~refresh'[i].revoked => refresh'[i].session \notin ended'
  <1>1. Revoke(ActiveTokens(u)) /\ ended' = ended \cup SessionsOf(u)
    BY DEF RevokeAllRefreshTokens
  <1>2. /\ refresh' \in Seq(RefreshToken) /\ Marked
        /\ \A i \in ActiveTokens(u) : refresh'[i].revoked
        /\ \A i \in Issued \ ActiveTokens(u) : refresh'[i] = refresh[i]
    <2>1. ActiveTokens(u) \in SUBSET Issued
      BY DEF ActiveTokens
    <2> QED
      BY <1>1, <2>1, RevokeFacts
  <1>3. \A i \in Issued : ~refresh'[i].revoked => refresh'[i] = refresh[i] /\ refresh[i].user # u
    BY <1>2 DEF ActiveTokens
  <1>4. \A s \in SessionsOf(u) : s \in Issued /\ refresh[s].user = u
    BY DEF SessionsOf, SessionsOK
  <1>5. ended' \subseteq Issued
    BY <1>1, <1>4 DEF SessionsOK
  <1>6. ASSUME TokensAlone, NEW i \in Issued, ~refresh'[i].revoked
        PROVE refresh'[i].session \notin ended'
    <2>1. /\ refresh'[i] = refresh[i] /\ refresh[refresh[i].session].user # u
          /\ ~refresh[i].revoked
      BY <1>3, <1>6 DEF SessionsOK
    <2> QED
      BY <1>1, <1>4, <1>6, <2>1 DEF TokensAlone
  <1> QED
    BY <1>2, <1>3, <1>5, <1>6

LEMMA LogoutAllInv ==
  ASSUME AInv, NEW r \in Req, NEW u \in User, LogoutAll(r, u), Moves(r)
  PROVE AInv'
  <1>1. /\ TypeOK /\ SessionsOK /\ RevokeAllRefreshTokens(u)
        /\ UNCHANGED <<status, verified, password, mail>>
    BY Parts DEF LogoutAll, accounts
  <1>2. Others(r) /\ ControlOK' /\ Known(r)' /\ KnownAlone(r)' /\ pc[r] # "revokeAll"
    BY IdleStays DEF LogoutAll
  <1>3. /\ refresh' \in Seq(RefreshToken) /\ Marked /\ ended' \subseteq Issued
        /\ TokensAlone =>
             \A i \in Issued : ~refresh'[i].revoked => refresh'[i].session \notin ended'
    BY <1>1, AllRevoked
  <1>4. ~disturbed' => Alone(r) /\ TokensAlone /\ MailAlone /\ Current'
    BY <1>1, <1>2, <1>3, MoveFacts, CurrentKept
  <1> QED
    BY <1>1, <1>2, <1>3, <1>4, MoveFacts, TokensInv

\* Once the sessions of the old password are revoked, no valid token is left of it.
LEMMA RevokeAllInv ==
  ASSUME AInv, NEW r \in Req, RevokeAll(r), Moves(r)
  PROVE AInv'
  <1> DEFINE u == arg[r].user
  <1>1. /\ TypeOK /\ SessionsOK /\ RevokeAllRefreshTokens(u) /\ Finish(r) /\ u \in User
        /\ pc[r] = "revokeAll" /\ UNCHANGED <<status, verified, password, mail>>
    BY Parts DEF RevokeAll, accounts, Known
  <1>2. Others(r) /\ ControlOK' /\ Known(r)' /\ KnownAlone(r)'
    BY <1>1, FinishFacts DEF Known, KnownAlone
  <1> HIDE DEF u
  <1>3. /\ refresh' \in Seq(RefreshToken) /\ Marked /\ ended' \subseteq Issued
        /\ \A i \in Issued : ~refresh'[i].revoked => refresh'[i] = refresh[i] /\ refresh[i].user # u
        /\ TokensAlone =>
             \A i \in Issued : ~refresh'[i].revoked => refresh'[i].session \notin ended'
    BY <1>1, AllRevoked
  <1>4. ASSUME ~disturbed' PROVE Alone(r) /\ TokensAlone /\ MailAlone /\ Current'
    <2>1. Alone(r) /\ TokensAlone /\ MailAlone /\ OldPasswordOut /\ ~disturbed
      BY <1>4, MoveFacts
    <2>2. \A i \in Issued : ~refresh[i].revoked /\ refresh[i].user # u =>
            refresh[i].password = password[refresh[i].user]
      BY <1>1, <2>1 DEF OldPasswordOut, Alone, u
    <2>3. Current'
      BY <1>1, <1>3, <2>2 DEF Current, Marked
    <2> QED
      BY <2>1, <2>3
  <1> QED
    BY <1>1, <1>2, <1>3, <1>4, MoveFacts, TokensInv

\* The new token continues the session of the one it was exchanged for, or
\* begins a session.
LEMMA IssueInv ==
  ASSUME AInv, NEW r \in Req, IssueRefreshToken(r), Moves(r)
  PROVE AInv'
  <1> DEFINE u == arg[r].user
             k == arg[r].token
             p == arg[r].password
             n == Len(refresh) + 1
             s == SessionOf(k)
             t == [user |-> u, session |-> s, parent |-> k, password |-> p,
                   revoked |-> FALSE, expired |-> FALSE]
  <1>1. /\ TypeOK /\ DataOK /\ SessionsOK /\ Lineage /\ VerifiedByMail /\ Known(r)
        /\ pc[r] = "issue" /\ Finish(r) /\ refresh' = Append(refresh, t)
        /\ UNCHANGED <<status, verified, password, mail, ended>>
    BY Parts DEF IssueRefreshToken, accounts
  <1>2. /\ Issued = 1 .. Len(refresh) /\ Len(refresh) \in Nat
        /\ u \in User /\ k \in Nat /\ p \in Nat /\ status[u] # "absent"
        /\ k # 0 => k \in Issued /\ refresh[k].revoked /\ refresh[k].user = u
    BY <1>1, TokenType, TokenFields DEF Known
  <1>3. /\ s \in Nat
        /\ k = 0 => s = n
        /\ k # 0 => s = refresh[k].session /\ s \in Issued /\ refresh[s].user = u
    BY <1>1, <1>2 DEF SessionOf, SessionsOK
  <1>4. t \in RefreshToken /\ t.user = u /\ t.session = s /\ t.parent = k /\ t.password = p
        /\ ~t.revoked
    BY <1>2, <1>3 DEF RefreshToken
  <1> HIDE DEF t, s
  <1>5. /\ refresh' \in Seq(RefreshToken) /\ Issued' = 1 .. n
        /\ \A i \in Issued : refresh'[i] = refresh[i]
        /\ refresh'[n] = t
    BY <1>1, <1>2, <1>4, AppendProperties DEF Issued, TypeOK
  <1>6. /\ Others(r) /\ ControlOK' /\ Known(r)' /\ KnownAlone(r)'
    BY <1>1, FinishFacts DEF Known, KnownAlone
  <1>7. n \notin Issued /\ n \in Issued' /\ \A i \in Issued' : i \in Issued \/ i = n
    BY <1>2, <1>5
  <1> HIDE DEF n, u, k, p
  <1>8. Grows
    BY <1>1, <1>2, <1>5, <1>7, GrowsWhenUnchanged DEF Grows, TokensGrow, Keeps, n
  <1>9. DataOK'
    BY <1>1, <1>5 DEF DataOK
  <1>10. SessionsOK'
    <2>1. ASSUME NEW i \in Issued'
          PROVE /\ status'[refresh'[i].user] # "absent" /\ refresh'[i].session \in Issued'
                /\ refresh'[refresh'[i].session].user = refresh'[i].user
      <3>1. CASE i \in Issued
        BY <1>1, <1>2, <1>5, <1>7, <1>8, <3>1 DEF SessionsOK, Grows, TokensGrow
      <3>2. CASE i = n
        BY <1>1, <1>2, <1>3, <1>4, <1>5, <1>7, <1>8, <3>2 DEF Grows, TokensGrow
      <3> QED
        BY <1>7, <3>1, <3>2
    <2>2. ended' \subseteq Issued'
      BY <1>1, <1>8 DEF SessionsOK, Grows, TokensGrow
    <2> QED
      BY <2>1, <2>2 DEF SessionsOK
  <1>11. Lineage'
    <2>1. ASSUME NEW i \in Issued', refresh'[i].parent # 0
          PROVE LET j == refresh'[i].parent IN
                /\ j < i /\ refresh'[j].revoked /\ refresh'[j].user = refresh'[i].user
                /\ refresh'[j].session = refresh'[i].session
      <3>1. CASE i \in Issued
        <4>1. refresh[i].parent \in Issued
          BY <1>1, <1>2, <1>5, <2>1, <3>1, TokenFields DEF Lineage
        <4>2. refresh'[i] = refresh[i] /\ refresh'[refresh[i].parent] = refresh[refresh[i].parent]
          BY <1>5, <3>1, <4>1
        <4>3. refresh[i].parent # 0
          BY <2>1, <4>2
        <4> QED
          BY <1>1, <3>1, <4>2, <4>3 DEF Lineage
      <3>2. CASE i = n
        <4>1. k \in Issued /\ k < n
          BY <1>2, <1>4, <1>5, <2>1, <3>2 DEF n
        <4>2. refresh'[i].parent = k /\ refresh'[k] = refresh[k] /\ refresh'[i] = t
          BY <1>4, <1>5, <3>2, <4>1
        <4> QED
          BY <1>2, <1>3, <1>4, <2>1, <3>2, <4>1, <4>2
      <3> QED
        BY <1>7, <3>1, <3>2
    <2> QED
      BY <2>1 DEF Lineage
  <1>12. ASSUME ~disturbed'
         PROVE Alone(r) /\ (TokensAlone /\ MailAlone /\ OldPasswordOut)'
    <2>1. /\ Alone(r) /\ TokensAlone /\ MailAlone /\ Current /\ KnownAlone(r)
      BY <1>1, <1>12, MoveFacts
    <2>2. /\ p = password[u] /\ s \notin ended
          /\ \A i \in Issued : /\ k # 0 => refresh[i].parent # k
                               /\ refresh[i].session = s => refresh[i].revoked
      <3>1. p = password[u]
        BY <1>1, <2>1 DEF KnownAlone, u, p
      <3>2. CASE k = 0
        BY <1>1, <1>2, <1>3, <1>7, <3>1, <3>2 DEF SessionsOK
      <3>3. CASE k # 0
        BY <1>1, <1>3, <2>1, <3>1, <3>3 DEF KnownAlone, k
      <3> QED
        BY <3>2, <3>3
    <2>3. OneUsePerToken'
      BY <1>4, <1>5, <1>7, <2>1, <2>2 DEF OneUsePerToken, TokensAlone
    <2>4. OneTokenPerSession'
      BY <1>4, <1>5, <1>7, <2>1, <2>2 DEF OneTokenPerSession, TokensAlone
    <2>5. TokensAlone'
      BY <1>1, <1>4, <1>5, <1>7, <2>1, <2>2, <2>3, <2>4 DEF TokensAlone
    <2>6. Current'
      BY <1>1, <1>4, <1>5, <1>7, <2>1, <2>2 DEF Current
    <2>7. MailAlone' /\ (Current' => OldPasswordOut')
      BY <1>1, <2>1 DEF MailAlone, Mailed, Current, OldPasswordOut
    <2> QED
      BY <2>1, <2>5, <2>6, <2>7
  <1>13. VerifiedByMail'
    BY <1>1 DEF VerifiedByMail, Mailed
  <1> QED
    BY <1>6, <1>8, <1>9, <1>10, <1>11, <1>12, <1>13, MoveFacts, Assemble

-----------------------------------------------------------------------------
(* Steps that write accounts.                                               *)

LEMMA AccountsInv ==
  ASSUME AInv, NEW r \in Req, Others(r), ControlOK', Known(r)', UNCHANGED <<refresh, mail, ended>>,
         status' \in [User -> UserStatus \cup {"absent"}], verified' \in [User -> BOOLEAN],
         password' \in [User -> Nat], AccountsStay, VerifiedByMail',
         disturbed' \in BOOLEAN, disturbed => disturbed',
         ~disturbed' => /\ Alone(r) /\ TokensAlone /\ MailAlone
                        /\ OldPasswordOut' /\ KnownAlone(r)'
  PROVE AInv'
  <1>1. TypeOK /\ DataOK /\ SessionsOK /\ Lineage
    BY Parts
  <1>2. Grows
    BY GrowsWhenUnchanged DEF Grows, Marked
  <1>3. DataOK' /\ Lineage'
    BY <1>1 DEF DataOK, Lineage, Issued
  <1>4. SessionsOK'
    <2>1. \A t \in Issued : refresh[t].user \in User
      BY <1>1, TokenFields
    <2> QED
      BY <1>1, <2>1 DEF SessionsOK, AccountsStay, Issued
  <1>5. ~disturbed' => (TokensAlone /\ MailAlone)'
    BY DEF TokensAlone, OneUsePerToken, OneTokenPerSession, MailAlone, Issued, Mailed
  <1> QED
    BY <1>2, <1>3, <1>4, <1>5, Assemble

LEMMA InsertUserInv ==
  ASSUME AInv, NEW r \in Req, InsertUser(r), Moves(r)
  PROVE AInv'
  <1> DEFINE u == arg[r].user
  <1>1. /\ TypeOK /\ DataOK /\ ControlOK /\ SessionsOK /\ VerifiedByMail /\ Known(r)
        /\ pc[r] = "insertUser" /\ u \in User /\ UNCHANGED <<refresh, mail, ended>>
    BY Parts DEF InsertUser, Known
  <1>2. CASE status[u] # "absent" /\ Finish(r) /\ UNCHANGED accounts
    <2>1. Others(r) /\ ControlOK' /\ Known(r)' /\ KnownAlone(r)'
      BY <1>1, <1>2, FinishFacts DEF Known, KnownAlone
    <2>2. UNCHANGED <<status, verified, password, refresh, mail, ended>>
      BY <1>1, <1>2 DEF accounts
    <2>3. ~disturbed' => Alone(r) /\ ~disturbed /\ Current /\ TokensAlone /\ MailAlone
      BY <1>1, MoveFacts
    <2> QED
      BY <2>1, <2>2, <2>3, MoveFacts, QuietInv
  <1>3. CASE /\ status[u] = "absent" /\ Goto(r, "insertUser", "saveMail")
             /\ status' = [status EXCEPT ![u] = "PENDING_VERIFICATION"]
             /\ password' = [password EXCEPT ![u] = 1]
             /\ UNCHANGED <<verified, arg>>
    <2>1. Others(r) /\ ControlOK' /\ pc'[r] = "saveMail" /\ arg'[r] = arg[r]
      BY <1>1, <1>3, GotoFacts DEF Others, ControlOK, Control
    <2> HIDE DEF u
    <2>2. /\ status' \in [User -> UserStatus \cup {"absent"}] /\ verified' \in [User -> BOOLEAN]
          /\ password' \in [User -> Nat] /\ AccountsStay
          /\ status'[u] # "absent" /\ password'[u] = 1
          /\ \A v \in User : v # u => password'[v] = password[v]
      BY <1>1, <1>3 DEF DataOK, UserStatus, AccountsStay
    <2>3. VerifiedByMail'
      BY <1>1, <1>3 DEF VerifiedByMail, Mailed
    <2>4. Known(r)' /\ (KnownAlone(r) => KnownAlone(r)')
      BY <1>1, <2>1, <2>2 DEF Known, KnownAlone, u
    <2>5. Current => OldPasswordOut'
      <3>1. \A t \in Issued : refresh[t].user \in User /\ refresh[t].user # u
        BY <1>1, <1>3, TokenFields DEF SessionsOK
      <3> QED
        BY <1>1, <2>2, <3>1 DEF Current, OldPasswordOut, Issued
    <2>6. ~disturbed' => /\ Alone(r) /\ TokensAlone /\ MailAlone
                         /\ OldPasswordOut' /\ KnownAlone(r)'
      BY <1>1, <2>4, <2>5, MoveFacts
    <2> QED
      BY <1>1, <2>1, <2>2, <2>3, <2>4, <2>6, MoveFacts, AccountsInv
  <1> QED
    BY <1>2, <1>3 DEF InsertUser

\* The sessions of the old password are about to be revoked.
LEMMA UpdatePasswordHashInv ==
  ASSUME AInv, NEW r \in Req, UpdatePasswordHash(r), Moves(r)
  PROVE AInv'
  <1> DEFINE u == arg[r].user
  <1>1. /\ TypeOK /\ DataOK /\ ControlOK /\ VerifiedByMail /\ Known(r)
        /\ pc[r] = "setPassword" /\ u \in User
        /\ password' = [password EXCEPT ![u] = @ + 1]
        /\ UNCHANGED <<status, verified, refresh, mail, ended, arg>>
    BY Parts DEF UpdatePasswordHash, Goto, Known
  <1>2. Others(r) /\ ControlOK' /\ pc'[r] = "revokeAll" /\ arg'[r] = arg[r]
    BY <1>1, GotoFacts DEF UpdatePasswordHash, Others, ControlOK, Control
  <1>3. Known(r)' /\ KnownAlone(r)'
    BY <1>1, <1>2 DEF Known, KnownAlone
  <1> HIDE DEF u
  <1>4. /\ password' \in [User -> Nat] /\ \A v \in User : v # u => password'[v] = password[v]
        /\ status' \in [User -> UserStatus \cup {"absent"}] /\ verified' \in [User -> BOOLEAN]
        /\ AccountsStay
    BY <1>1 DEF DataOK, AccountsStay
  <1>5. VerifiedByMail'
    BY <1>1 DEF VerifiedByMail, Mailed
  <1>6. Current => OldPasswordOut'
    <2>1. \A t \in Issued : refresh[t].user \in User
      BY <1>1, TokenFields
    <2>2. pc'[r] = "revokeAll" /\ arg'[r].user = u
      BY <1>2 DEF u
    <2> QED
      BY <1>1, <1>4, <2>1, <2>2 DEF Current, OldPasswordOut, Issued
  <1>7. ~disturbed' => Alone(r) /\ TokensAlone /\ MailAlone /\ OldPasswordOut'
    BY <1>1, <1>6, MoveFacts
  <1> QED
    BY <1>1, <1>2, <1>3, <1>4, <1>5, <1>7, MoveFacts, AccountsInv

LEMMA MarkEmailVerifiedInv ==
  ASSUME AInv, NEW r \in Req, MarkEmailVerified(r), Moves(r)
  PROVE AInv'
  <1> DEFINE u == arg[r].user
             k == arg[r].token
  <1>1. /\ TypeOK /\ DataOK /\ VerifiedByMail /\ Known(r) /\ Finish(r)
        /\ pc[r] = "verifyEmail" /\ u \in User
        /\ status' = [status EXCEPT ![u] = "ACTIVE"]
        /\ verified' = [verified EXCEPT ![u] = TRUE]
        /\ UNCHANGED <<password, refresh, mail, ended>>
    BY Parts DEF MarkEmailVerified, Known
  <1>2. Others(r) /\ ControlOK' /\ Known(r)' /\ KnownAlone(r)'
    BY <1>1, FinishFacts DEF Known, KnownAlone
  <1>3. /\ k \in Mailed /\ mail[k].user = u /\ mail[k].type = "EMAIL_VERIFICATION"
        /\ mail[k].sent /\ mail[k].uses > 0
    BY <1>1 DEF Known
  <1> HIDE DEF u, k
  <1>4. /\ status' \in [User -> UserStatus \cup {"absent"}] /\ verified' \in [User -> BOOLEAN]
        /\ password' \in [User -> Nat] /\ AccountsStay
    BY <1>1 DEF DataOK, UserStatus, AccountsStay
  <1>5. VerifiedByMail'
    BY <1>1, <1>3 DEF VerifiedByMail, Mailed, DataOK
  <1>6. ~disturbed' => Alone(r) /\ TokensAlone /\ MailAlone /\ Current
    BY <1>1, MoveFacts
  <1>7. Current => OldPasswordOut'
    BY <1>1 DEF Current, OldPasswordOut, Issued
  <1> QED
    BY <1>1, <1>2, <1>4, <1>5, <1>6, <1>7, MoveFacts, AccountsInv

LEMMA SetStatusInv ==
  ASSUME AInv, NEW r \in Req, NEW u \in User, NEW st \in UserStatus, SetStatus(r, u, st), Moves(r)
  PROVE AInv'
  <1>1. /\ TypeOK /\ DataOK /\ VerifiedByMail
        /\ status' = [status EXCEPT ![u] = st]
        /\ UNCHANGED <<verified, password, refresh, mail, ended>>
    BY Parts DEF SetStatus
  <1>2. Others(r) /\ ControlOK' /\ Known(r)' /\ KnownAlone(r)' /\ pc[r] # "revokeAll"
    BY IdleStays DEF SetStatus
  <1>3. /\ status' \in [User -> UserStatus \cup {"absent"}] /\ verified' \in [User -> BOOLEAN]
        /\ password' \in [User -> Nat] /\ AccountsStay /\ VerifiedByMail'
    BY <1>1 DEF DataOK, UserStatus, AccountsStay, VerifiedByMail, Mailed
  <1>4. Current => OldPasswordOut'
    BY <1>1 DEF Current, OldPasswordOut, Issued
  <1>5. ~disturbed' => Alone(r) /\ TokensAlone /\ MailAlone /\ Current
    BY <1>2, MoveFacts
  <1> QED
    BY <1>1, <1>2, <1>3, <1>4, <1>5, MoveFacts, AccountsInv

-----------------------------------------------------------------------------
(* Failures and time.                                                       *)

LEMMA FailInv ==
  ASSUME AInv, NEW r \in Req, Fail(r), disturbed' = TRUE
  PROVE AInv'
  <1>1. /\ TypeOK /\ Finish(r) /\ UNCHANGED <<status, verified, password, refresh, mail, ended>>
    BY Parts DEF Fail, accounts
  <1>2. Others(r) /\ ControlOK' /\ Known(r)'
    BY <1>1, FinishFacts DEF Known
  <1> QED
    BY <1>1, <1>2, QuietInv

LEMMA RefreshExpiresInv ==
  ASSUME AInv, NEW k \in Issued, RefreshExpires(k), UNCHANGED disturbed
  PROVE AInv'
  <1>1. /\ TypeOK /\ ControlOK /\ DataOK /\ SessionsOK /\ Lineage /\ VerifiedByMail
        /\ \A q \in Req : Known(q)
        /\ refresh' = [refresh EXCEPT ![k].expired = TRUE]
        /\ UNCHANGED <<status, verified, password, mail, pc, arg, ended, disturbed>>
    BY Parts DEF RefreshExpires, accounts, request
  <1>2. PICK a \in RefreshToken : a = refresh[k]
    BY <1>1, TokenType
  <1> DEFINE t == [a EXCEPT !.expired = TRUE]
  <1>3. t \in RefreshToken /\ Keeps(a, t) /\ t.revoked = a.revoked
    BY DEF RefreshToken, Keeps
  <1>4. refresh' = [refresh EXCEPT ![k] = t]
    BY <1>1, <1>2
  <1> HIDE DEF t
  <1>5. /\ refresh' \in Seq(RefreshToken) /\ Marked
        /\ refresh'[k] = t /\ \A j \in Issued : j # k => refresh'[j] = refresh[j]
    BY <1>1, <1>2, <1>3, <1>4, MarkToken
  <1>6. /\ Issued' = Issued
        /\ \A i \in Issued : /\ Keeps(refresh[i], refresh'[i])
                             /\ refresh'[i].revoked = refresh[i].revoked
    BY <1>2, <1>3, <1>5 DEF Marked, TokensGrow
  <1>7. DataOK' /\ AccountsStay /\ MailGrows /\ Grows /\ ended' \subseteq Issued
    BY <1>1, <1>5, GrowsWhenUnchanged DEF DataOK, Grows, Marked, SessionsOK
  <1>8. SessionsOK' /\ Lineage' /\ VerifiedByMail' /\ \A q \in Req : Known(q)'
    BY <1>1, <1>5, <1>7, MarkedFacts, VerifiedKept, KnownKept
  <1>9. TypeOK'
    BY <1>1, <1>7 DEF TypeOK, DataOK
  <1>10. ASSUME Undisturbed PROVE Undisturbed'
    <2>1. TokensAlone'
      BY <1>1, <1>5, <1>6, <1>7, <1>10, MarkedFacts DEF Undisturbed, TokensAlone, Keeps
    <2>2. Serial' /\ MailAlone'
      BY <1>1, <1>10 DEF Undisturbed, Serial, MailAlone, Mailed
    <2>3. OldPasswordOut'
      BY <1>1, <1>6, <1>10 DEF Undisturbed, OldPasswordOut, Keeps
    <2>4. ASSUME NEW q \in Req PROVE KnownAlone(q)'
      <3>1. /\ pc[q] = "revokeUsed" => arg[q].token \in Issued
            /\ pc[q] = "issue" /\ arg[q].token # 0 => arg[q].token \in Issued
        BY <1>1 DEF Known
      <3> QED
        BY <1>1, <1>6, <1>10, <3>1 DEF Undisturbed, KnownAlone, Keeps
    <2> QED
      BY <2>1, <2>2, <2>3, <2>4 DEF Undisturbed
  <1> QED
    BY <1>1, <1>8, <1>9, <1>10 DEF AInv

LEMMA MailExpiresInv ==
  ASSUME AInv, NEW k \in Mailed, MailExpires(k), UNCHANGED disturbed
  PROVE AInv'
  <1>1. /\ TypeOK /\ ControlOK /\ DataOK /\ SessionsOK /\ Lineage /\ VerifiedByMail
        /\ \A q \in Req : Known(q)
        /\ mail' = [mail EXCEPT ![k].expired = TRUE]
        /\ UNCHANGED <<status, verified, password, refresh, pc, arg, ended, disturbed>>
    BY Parts DEF MailExpires, accounts, request
  <1>2. PICK a \in MailToken : a = mail[k]
    BY <1>1, TokenType
  <1> DEFINE m == [a EXCEPT !.expired = TRUE]
  <1>3. /\ m \in MailToken /\ m.user = a.user /\ m.type = a.type /\ m.uses = a.uses
        /\ a.sent => m.sent
    BY DEF MailToken
  <1>4. mail' = [mail EXCEPT ![k] = m]
    BY <1>1, <1>2
  <1> HIDE DEF m
  <1>5. /\ mail' \in Seq(MailToken) /\ Mailed' = Mailed /\ MailGrows
        /\ mail'[k] = m /\ \A j \in Mailed : j # k => mail'[j] = mail[j]
    BY <1>1, <1>2, <1>3, <1>4, MarkMail
  <1>6. \A i \in Mailed : mail'[i].uses = mail[i].uses
    BY <1>2, <1>3, <1>5
  <1>7. Grows
    BY <1>1, <1>5, GrowsWhenUnchanged DEF Grows, Marked
  <1>8. VerifiedByMail' /\ \A q \in Req : Known(q)'
    BY <1>1, <1>5, <1>7, VerifiedKept, KnownKept
  <1>9. TypeOK' /\ SessionsOK' /\ Lineage'
    BY <1>1, <1>5 DEF TypeOK, SessionsOK, Lineage, Issued
  <1>10. ASSUME Undisturbed PROVE Undisturbed'
    <2>1. TokensAlone' /\ Serial' /\ OldPasswordOut'
      BY <1>1, <1>10 DEF Undisturbed, TokensAlone, OneUsePerToken, OneTokenPerSession, Serial,
                         OldPasswordOut, Issued
    <2>2. MailAlone'
      BY <1>5, <1>6, <1>10 DEF Undisturbed, MailAlone
    <2>3. ASSUME NEW q \in Req PROVE KnownAlone(q)'
      <3>1. pc[q] = "markUsed" => arg[q].token \in Mailed
        BY <1>1 DEF Known
      <3> QED
        BY <1>1, <1>6, <1>10, <3>1 DEF Undisturbed, KnownAlone, Issued
    <2> QED
      BY <2>1, <2>2, <2>3 DEF Undisturbed
  <1> QED
    BY <1>1, <1>8, <1>9, <1>10 DEF AInv

-----------------------------------------------------------------------------
(* Tokens that are spent stay spent: what one step may do to each.          *)

\* What a step of r may begin to exchange or to consume was neither.
BeginsFresh(r) ==
  /\ \A t \in Issued : Exchanges(r, t)' => Exchanges(r, t) \/ Usable(t)
  /\ \A k \in Mailed : Consumes(r, k)' => Consumes(r, k) \/ Fresh(k)

LEMMA FinishBegins ==
  ASSUME TypeOK, NEW r \in Req, Finish(r)
  PROVE Others(r) /\ BeginsFresh(r)
  BY FinishFacts DEF BeginsFresh, Exchanges, Consumes

LEMMA IdleBegins ==
  ASSUME NEW r \in Req, UNCHANGED request
  PROVE Others(r) /\ BeginsFresh(r)
  BY DEF request, Others, BeginsFresh, Exchanges, Consumes

LEMMA GotoBegins ==
  ASSUME TypeOK, NEW r \in Req, NEW from, NEW to \in Control, Goto(r, from, to),
         \A q \in Req : q # r => arg'[q] = arg[q],
         \A t \in Issued : to \in {"revokeUsed", "issue"} /\ arg'[r].token = t =>
                             Exchanges(r, t) \/ Usable(t),
         \A k \in Mailed : to = "markUsed" /\ arg'[r].token = k => Fresh(k)
  PROVE Others(r) /\ BeginsFresh(r)
  BY GotoFacts DEF Others, BeginsFresh, Exchanges, Consumes

LEMMA BeginBegins ==
  ASSUME TypeOK, NEW r \in Req, NEW to \in Control, NEW locals, Begin(r, to, locals),
         \A t \in Issued : to \in {"revokeUsed", "issue"} /\ locals.token = t => Usable(t),
         \A k \in Mailed : to = "markUsed" /\ locals.token = k => Fresh(k)
  PROVE Others(r) /\ BeginsFresh(r)
  <1>1. Goto(r, "idle", to) /\ arg' = [arg EXCEPT ![r] = locals] /\ arg \in [Req -> Arg]
    BY DEF Begin, TypeOK, Arg
  <1>2. arg'[r] = locals /\ \A q \in Req : q # r => arg'[q] = arg[q]
    BY <1>1
  <1> QED
    BY <1>1, <1>2, GotoBegins

LEMMA StartBegins ==
  ASSUME TypeOK, NEW r \in Req, Start(r)
  PROVE Others(r) /\ BeginsFresh(r)
  <1>0. \A t \in Issued : t # 0
    BY TokenType
  <1>1. ASSUME NEW u \in User, BeginRegister(r, u) PROVE Others(r) /\ BeginsFresh(r)
    BY <1>1, BeginBegins DEF BeginRegister, Control
  <1>2. ASSUME NEW u \in User, BeginForgot(r, u) PROVE Others(r) /\ BeginsFresh(r)
    BY <1>2, BeginBegins DEF BeginForgot, Control
  <1>3. ASSUME NEW u \in User, BeginLogin(r, u) PROVE Others(r) /\ BeginsFresh(r)
    <2> DEFINE a == [NoArg EXCEPT !.user = u, !.password = password[u], !.issues = TRUE]
    <2>1. Begin(r, "issue", a) /\ a.token = 0
      BY <1>3, NoArgFacts DEF BeginLogin
    <2> HIDE DEF a
    <2> QED
      BY <1>0, <2>1, BeginBegins DEF Control
  <1>4. ASSUME NEW u \in User, BeginChange(r, u) PROVE Others(r) /\ BeginsFresh(r)
    BY <1>4, BeginBegins DEF BeginChange, Control
  <1>5. ASSUME NEW t \in Issued, BeginRefresh(r, t) PROVE Others(r) /\ BeginsFresh(r)
    <2> DEFINE a == [NoArg EXCEPT !.user = refresh[t].user, !.token = t, !.issues = TRUE,
                                  !.password = refresh[t].password]
    <2>1. Begin(r, "revokeUsed", a) /\ a.token = t /\ Usable(t)
      BY <1>5, NoArgFacts DEF BeginRefresh
    <2> HIDE DEF a
    <2> QED
      BY <2>1, BeginBegins DEF Control
  <1>6. ASSUME NEW k \in Mailed, NEW type \in Types, BeginConsume(r, k, type)
        PROVE Others(r) /\ BeginsFresh(r)
    <2> DEFINE a == [NoArg EXCEPT !.user = mail[k].user, !.token = k, !.type = type]
    <2>1. Begin(r, "markUsed", a) /\ a.token = k /\ Fresh(k)
      BY <1>6, NoArgFacts DEF BeginConsume, Consumable
    <2> HIDE DEF a
    <2> QED
      BY <2>1, BeginBegins DEF Control
  <1>7. ASSUME UNCHANGED request PROVE Others(r) /\ BeginsFresh(r)
    BY <1>7, IdleBegins
  <1> QED
    BY <1>1, <1>2, <1>3, <1>4, <1>5, <1>6, <1>7 DEF Start, LogoutAll, SetStatus, Logout

LEMMA StepBegins ==
  ASSUME TypeOK, NEW r \in Req, Step(r)
  PROVE Others(r) /\ BeginsFresh(r)
  <1>0. (\A t \in Issued : t # 0) /\ arg \in [Req -> Arg]
    BY TokenType DEF TypeOK, Arg
  <1>1. ASSUME Finish(r) PROVE Others(r) /\ BeginsFresh(r)
    BY <1>1, FinishBegins
  <1>2. ASSUME NEW from, NEW to \in {"saveMail", "setPassword", "verifyEmail", "revokeAll"},
               Goto(r, from, to), UNCHANGED arg
        PROVE Others(r) /\ BeginsFresh(r)
    BY <1>2, GotoBegins DEF Control
  <1>3. ASSUME SaveMail(r) PROVE Others(r) /\ BeginsFresh(r)
    <2>1. \A q \in Req : q # r => arg'[q] = arg[q]
      BY <1>0, <1>3 DEF SaveMail
    <2> QED
      BY <1>3, <2>1, GotoBegins DEF SaveMail, Control
  <1>4. ASSUME Goto(r, "sendMail", "issue"), arg' = [arg EXCEPT ![r].token = 0]
        PROVE Others(r) /\ BeginsFresh(r)
    <2>1. arg'[r].token = 0 /\ \A q \in Req : q # r => arg'[q] = arg[q]
      <3>1. PICK a \in Arg : a = arg[r]
        BY <1>0
      <3> DEFINE b == [a EXCEPT !.token = 0]
      <3>2. b.token = 0 /\ arg' = [arg EXCEPT ![r] = b]
        BY <1>0, <1>4, <3>1, TokenSet
      <3> HIDE DEF b
      <3> QED
        BY <1>0, <3>2
    <2> QED
      BY <1>0, <1>4, <2>1, GotoBegins DEF Control
  <1>5. ASSUME RevokeUsed(r) PROVE Others(r) /\ BeginsFresh(r)
    BY <1>5, GotoBegins DEF RevokeUsed, Control, Exchanges, Goto
  <1> QED
    BY <1>1, <1>2, <1>3, <1>4, <1>5
       DEF Step, InsertUser, SendMail, IssueRefreshToken, MarkUsed, UpdatePasswordHash, RevokeAll,
           MarkEmailVerified

\* A row is not given back, and only the request that exchanges or consumes a token
\* writes that it did.
TokenStays(s, t) == t.parent = s.parent /\ (s.revoked => t.revoked) /\ (s.expired => t.expired)
TokensStay ==
  /\ \A t \in Issued : t \in Issued' /\ TokenStays(refresh[t], refresh'[t])
  /\ \A t \in Issued, s \in Issued' \ Issued :
       refresh'[s].parent = t => \E r \in Req : Exchanges(r, t)
MailsStay ==
  \A k \in Mailed :
    /\ k \in Mailed' /\ mail'[k].uses >= mail[k].uses /\ (mail[k].expired => mail'[k].expired)
    /\ mail'[k].uses # mail[k].uses => \E r \in Req : Consumes(r, k)

LEMMA StaysWhenUnchanged ==
  ASSUME TypeOK
  PROVE (UNCHANGED refresh => TokensStay) /\ (UNCHANGED mail => MailsStay)
  <1>1. \A k \in Mailed : mail[k].uses \in Nat
    BY TokenFields
  <1> QED
    BY <1>1 DEF TokensStay, TokenStays, MailsStay, Issued, Mailed

LEMMA MarkStays ==
  ASSUME TypeOK, NEW i \in Issued, NEW t \in RefreshToken, TokenStays(refresh[i], t),
         refresh' = [refresh EXCEPT ![i] = t]
  PROVE TokensStay
  <1>1. refresh \in Seq(RefreshToken) /\ i \in 1 .. Len(refresh)
    BY TokenType DEF TypeOK
  <1>2. /\ Issued' = Issued
        /\ \A j \in Issued : refresh'[j] = IF j = i THEN t ELSE refresh[j]
    BY <1>1 DEF Issued
  <1> QED
    BY <1>2 DEF TokensStay, TokenStays

LEMMA RevokeStays ==
  ASSUME TypeOK, NEW T \in SUBSET Issued, Revoke(T)
  PROVE TokensStay
  <1>1. ASSUME NEW i \in Issued PROVE TokenStays(refresh[i], [refresh[i] EXCEPT !.revoked = TRUE])
    <2>1. PICK a \in RefreshToken : a = refresh[i]
      BY TokenType
    <2>2. TokenStays(a, [a EXCEPT !.revoked = TRUE])
      BY DEF RefreshToken, TokenStays
    <2> QED
      BY <2>1, <2>2
  <1>2. \A i \in Issued : TokenStays(refresh[i], refresh[i])
    BY DEF TokenStays
  <1>3. /\ Issued' = Issued
        /\ \A i \in Issued : \/ refresh'[i] = [refresh[i] EXCEPT !.revoked = TRUE]
                             \/ refresh'[i] = refresh[i]
    BY TokenType, RevokeFacts DEF Revoke, Marked
  <1> QED
    BY <1>1, <1>2, <1>3 DEF TokensStay

LEMMA StartStays ==
  ASSUME TypeOK, NEW r \in Req, Start(r)
  PROVE TokensStay /\ MailsStay
  <1>1. ASSUME UNCHANGED refresh, UNCHANGED mail PROVE TokensStay /\ MailsStay
    BY <1>1, StaysWhenUnchanged
  <1>2. ASSUME NEW T \in SUBSET Issued, Revoke(T), UNCHANGED mail PROVE TokensStay /\ MailsStay
    BY <1>2, RevokeStays, StaysWhenUnchanged
  <1>3. \A u \in User : ActiveTokens(u) \in SUBSET Issued
    BY DEF ActiveTokens
  <1>4. \A t \in Issued : {t} \in SUBSET Issued
    OBVIOUS
  <1> QED
    BY <1>1, <1>2, <1>3, <1>4
       DEF Start, BeginRegister, BeginForgot, BeginLogin, BeginChange, BeginRefresh, BeginConsume,
           SetStatus, Logout, LogoutAll, RevokeAllRefreshTokens

LEMMA IssueStays ==
  ASSUME TypeOK, NEW r \in Req, IssueRefreshToken(r)
  PROVE TokensStay
  <1> DEFINE t == [user |-> arg[r].user, session |-> SessionOf(arg[r].token),
                   parent |-> arg[r].token, password |-> arg[r].password,
                   revoked |-> FALSE, expired |-> FALSE]
             n == Len(refresh) + 1
  <1>1. refresh' = Append(refresh, t) /\ t.parent = arg[r].token /\ pc[r] = "issue"
    BY DEF IssueRefreshToken
  <1>2. refresh \in Seq(RefreshToken) /\ Len(refresh) \in Nat /\ Issued = 1 .. Len(refresh)
    BY TokenType DEF TypeOK
  <1> HIDE DEF t
  <1>3. /\ Issued' = Issued \cup {n} /\ n \notin Issued /\ refresh'[n] = t
        /\ \A i \in Issued : refresh'[i] = refresh[i]
    BY <1>1, <1>2 DEF Issued
  <1>4. \A k \in Issued : t.parent = k => Exchanges(r, k)
    BY <1>1 DEF Exchanges
  <1> HIDE DEF n
  <1> QED
    BY <1>3, <1>4 DEF TokensStay, TokenStays

\* One mail is written, by its consumer or without a new use.
LEMMA MarkMailStays ==
  ASSUME TypeOK, NEW i \in Mailed, NEW m \in MailToken, m.uses \in Nat,
         m.uses >= mail[i].uses, mail[i].expired => m.expired,
         m.uses # mail[i].uses => \E r \in Req : Consumes(r, i),
         mail' = [mail EXCEPT ![i] = m]
  PROVE MailsStay
  <1>1. mail \in Seq(MailToken) /\ i \in 1 .. Len(mail)
    BY TokenType DEF TypeOK
  <1>2. /\ Mailed' = Mailed
        /\ \A j \in Mailed : mail'[j] = IF j = i THEN m ELSE mail[j]
    BY <1>1 DEF Mailed
  <1>3. \A k \in Mailed : mail[k].uses \in Nat
    BY TokenFields
  <1> QED
    BY <1>2, <1>3 DEF MailsStay

LEMMA StepStays ==
  ASSUME TypeOK, NEW r \in Req, Step(r), Known(r)
  PROVE TokensStay /\ MailsStay
  <1>1. ASSUME UNCHANGED refresh, UNCHANGED mail PROVE TokensStay /\ MailsStay
    BY <1>1, StaysWhenUnchanged
  <1>2. ASSUME SaveMail(r) PROVE TokensStay /\ MailsStay
    <2> DEFINE m == [user |-> arg[r].user, type |-> arg[r].type, uses |-> 0, sent |-> FALSE,
                     expired |-> FALSE]
    <2>1. mail' = Append(mail, m) /\ UNCHANGED refresh
      BY <1>2 DEF SaveMail
    <2>2. mail \in Seq(MailToken) /\ Len(mail) \in Nat /\ Mailed = 1 .. Len(mail)
      BY TokenType DEF TypeOK
    <2> HIDE DEF m
    <2>3. /\ \A k \in Mailed : k \in Mailed' /\ mail'[k] = mail[k]
      BY <2>1, <2>2 DEF Mailed
    <2>4. \A k \in Mailed : mail[k].uses \in Nat
      BY TokenFields
    <2>5. \A k \in Mailed : k \in Mailed' /\ mail'[k].uses >= mail[k].uses
      BY <2>3, <2>4
    <2>6. \A k \in Mailed : /\ mail[k].expired => mail'[k].expired
                            /\ mail'[k].uses = mail[k].uses
      BY <2>3
    <2>7. MailsStay
      BY <2>5, <2>6 DEF MailsStay
    <2> QED
      BY <2>1, <2>7, StaysWhenUnchanged
  <1>3. ASSUME SendMail(r) PROVE TokensStay /\ MailsStay
    <2> DEFINE k == arg[r].token
    <2>1. k \in Mailed /\ mail' = [mail EXCEPT ![k].sent = TRUE] /\ UNCHANGED refresh
      BY <1>3 DEF SendMail, Known
    <2>2. PICK a \in MailToken : a = mail[k] /\ a.uses \in Nat
      BY <2>1, TokenType, TokenFields
    <2> DEFINE m == [a EXCEPT !.sent = TRUE]
    <2>3. m \in MailToken /\ m.uses = a.uses /\ m.expired = a.expired
      BY DEF MailToken
    <2>4. mail' = [mail EXCEPT ![k] = m]
      BY <2>1, <2>2
    <2> HIDE DEF m, k
    <2>5. m.uses >= a.uses /\ m.uses \in Nat
      BY <2>2, <2>3
    <2>6. MailsStay
      BY <2>1, <2>2, <2>3, <2>4, <2>5, MarkMailStays
    <2> QED
      BY <2>1, <2>6, StaysWhenUnchanged
  <1>4. ASSUME MarkUsed(r) PROVE TokensStay /\ MailsStay
    <2> DEFINE k == arg[r].token
    <2>1. /\ k \in Mailed /\ mail' = [mail EXCEPT ![k].uses = @ + 1] /\ UNCHANGED refresh
          /\ Consumes(r, k)
      BY <1>4 DEF MarkUsed, Known, Consumes
    <2>2. PICK a \in MailToken, n \in Nat : a = mail[k] /\ a.uses \in Nat /\ n = a.uses + 1
      BY <2>1, TokenType, TokenFields
    <2> DEFINE m == [a EXCEPT !.uses = n]
    <2>3. m \in MailToken /\ m.uses = n /\ m.expired = a.expired
      BY DEF MailToken
    <2>4. mail' = [mail EXCEPT ![k] = m]
      BY <2>1, <2>2
    <2> HIDE DEF m, k
    <2>5. m.uses >= a.uses
      BY <2>2, <2>3
    <2>6. MailsStay
      BY <2>1, <2>2, <2>3, <2>4, <2>5, MarkMailStays
    <2> QED
      BY <2>1, <2>6, StaysWhenUnchanged
  <1>5. ASSUME RevokeUsed(r) PROVE TokensStay /\ MailsStay
    <2> DEFINE k == arg[r].token
    <2>1. k \in Issued /\ refresh' = [refresh EXCEPT ![k].revoked = TRUE] /\ UNCHANGED mail
      BY <1>5 DEF RevokeUsed, Goto, Known
    <2>2. PICK a \in RefreshToken : a = refresh[k]
      BY <2>1, TokenType
    <2> DEFINE t == [a EXCEPT !.revoked = TRUE]
    <2>3. t \in RefreshToken /\ TokenStays(a, t)
      BY DEF RefreshToken, TokenStays
    <2>4. refresh' = [refresh EXCEPT ![k] = t]
      BY <2>1, <2>2
    <2> HIDE DEF t, k
    <2>5. TokensStay
      BY <2>1, <2>2, <2>3, <2>4, MarkStays
    <2> QED
      BY <2>1, <2>5, StaysWhenUnchanged
  <1>6. ASSUME RevokeAll(r) PROVE TokensStay /\ MailsStay
    <2>1. ActiveTokens(arg[r].user) \in SUBSET Issued
      BY DEF ActiveTokens
    <2> QED
      BY <1>6, <2>1, RevokeStays, StaysWhenUnchanged DEF RevokeAll, RevokeAllRefreshTokens
  <1>7. ASSUME IssueRefreshToken(r) PROVE TokensStay /\ MailsStay
    BY <1>7, IssueStays, StaysWhenUnchanged DEF IssueRefreshToken
  <1> QED
    BY <1>1, <1>2, <1>3, <1>4, <1>5, <1>6, <1>7
       DEF Step, InsertUser, UpdatePasswordHash, MarkEmailVerified

LEMMA ExpiryStays ==
  ASSUME TypeOK
  PROVE /\ \A i \in Issued : RefreshExpires(i) => TokensStay /\ MailsStay
        /\ \A i \in Mailed : MailExpires(i) => TokensStay /\ MailsStay
  <1>1. ASSUME NEW i \in Issued, RefreshExpires(i) PROVE TokensStay /\ MailsStay
    <2>1. refresh' = [refresh EXCEPT ![i].expired = TRUE] /\ UNCHANGED mail
      BY <1>1 DEF RefreshExpires
    <2>2. PICK a \in RefreshToken : a = refresh[i]
      BY TokenType
    <2> DEFINE t == [a EXCEPT !.expired = TRUE]
    <2>3. t \in RefreshToken /\ TokenStays(a, t)
      BY DEF RefreshToken, TokenStays
    <2>4. refresh' = [refresh EXCEPT ![i] = t]
      BY <2>1, <2>2
    <2> HIDE DEF t
    <2>5. TokensStay
      BY <2>2, <2>3, <2>4, MarkStays
    <2> QED
      BY <2>1, <2>5, StaysWhenUnchanged
  <1>2. ASSUME NEW i \in Mailed, MailExpires(i) PROVE TokensStay /\ MailsStay
    <2>1. mail' = [mail EXCEPT ![i].expired = TRUE] /\ UNCHANGED refresh
      BY <1>2 DEF MailExpires
    <2>2. PICK a \in MailToken : a = mail[i] /\ a.uses \in Nat
      BY TokenType, TokenFields
    <2> DEFINE m == [a EXCEPT !.expired = TRUE]
    <2>3. m \in MailToken /\ m.uses = a.uses /\ m.expired
      BY DEF MailToken
    <2>4. mail' = [mail EXCEPT ![i] = m]
      BY <2>1, <2>2
    <2> HIDE DEF m
    <2>5. m.uses >= a.uses /\ m.uses \in Nat
      BY <2>2, <2>3
    <2>6. MailsStay
      BY <2>2, <2>3, <2>4, <2>5, MarkMailStays
    <2> QED
      BY <2>1, <2>6, StaysWhenUnchanged
  <1> QED
    BY <1>1, <1>2

Spent ==
  /\ \A t \in Issued : DeadToken(t) => DeadToken(t)'
  /\ \A k \in Mailed : DeadMail(k) => DeadMail(k)' /\ mail'[k].uses = mail[k].uses

LEMMA SpentKept ==
  ASSUME TypeOK, NEW r \in Req, Others(r), BeginsFresh(r), TokensStay, MailsStay
  PROVE Spent
  <1>1. ASSUME NEW t \in Issued, DeadToken(t) PROVE DeadToken(t)'
    <2>1. refresh'[t].revoked \/ refresh'[t].expired
      BY <1>1 DEF DeadToken, TokensStay, TokenStays
    <2>2. \A s \in Issued' : refresh'[s].parent # t
      BY <1>1 DEF DeadToken, TokensStay, TokenStays
    <2>3. \A q \in Req : ~Exchanges(q, t)'
      <3>1. ~Usable(t)
        BY <1>1 DEF DeadToken, Usable
      <3>2. \A q \in Req : q # r => (Exchanges(q, t)' => Exchanges(q, t))
        BY DEF Others, Exchanges
      <3> QED
        BY <1>1, <3>1, <3>2 DEF DeadToken, BeginsFresh
    <2> QED
      BY <2>1, <2>2, <2>3 DEF DeadToken
  <1>2. ASSUME NEW k \in Mailed, DeadMail(k) PROVE DeadMail(k)' /\ mail'[k].uses = mail[k].uses
    <2>1. mail'[k].uses = mail[k].uses /\ (mail[k].expired => mail'[k].expired)
      BY <1>2 DEF DeadMail, MailsStay
    <2>2. \A q \in Req : ~Consumes(q, k)'
      <3>1. ~Fresh(k)
        <4>1. mail[k].uses \in Nat
          BY TokenFields
        <4> QED
          BY <1>2, <4>1 DEF DeadMail, Fresh
      <3>2. \A q \in Req : q # r => (Consumes(q, k)' => Consumes(q, k))
        BY DEF Others, Consumes
      <3> QED
        BY <1>2, <3>1, <3>2 DEF DeadMail, BeginsFresh
    <2> QED
      BY <1>2, <2>1, <2>2 DEF DeadMail
  <1> QED
    BY <1>1, <1>2 DEF Spent

LEMMA NextSpent == AInv /\ [Next]_vars => Spent
  <1> SUFFICES ASSUME AInv, [Next]_vars PROVE Spent
    OBVIOUS
  <1>1. TypeOK /\ \A r \in Req : Known(r)
    BY Parts
  <1>2. ASSUME NEW r \in Req, Start(r) \/ Step(r) PROVE Spent
    BY <1>1, <1>2, StartBegins, StepBegins, StartStays, StepStays, SpentKept
  <1>3. ASSUME NEW r \in Req, Fail(r) PROVE Spent
    BY <1>1, <1>3, FinishBegins, StaysWhenUnchanged, SpentKept DEF Fail
  <1>4. ASSUME UNCHANGED request, TokensStay, MailsStay PROVE Spent
    <2>1. ASSUME NEW t \in Issued, DeadToken(t) PROVE DeadToken(t)'
      BY <1>4, <2>1 DEF DeadToken, TokensStay, TokenStays, Exchanges, request
    <2>2. ASSUME NEW k \in Mailed, DeadMail(k) PROVE DeadMail(k)' /\ mail'[k].uses = mail[k].uses
      <3>1. mail'[k].uses = mail[k].uses /\ (mail[k].expired => mail'[k].expired)
        BY <1>4, <2>2 DEF DeadMail, MailsStay
      <3> QED
        BY <1>4, <2>2, <3>1 DEF DeadMail, Consumes, request
    <2> QED
      BY <2>1, <2>2 DEF Spent
  <1>5. ASSUME UNCHANGED vars PROVE Spent
    BY <1>1, <1>4, <1>5, StaysWhenUnchanged DEF vars
  <1>6. ASSUME NEW t \in Issued, RefreshExpires(t) PROVE Spent
    BY <1>1, <1>4, <1>6, ExpiryStays DEF RefreshExpires
  <1>7. ASSUME NEW k \in Mailed, MailExpires(k) PROVE Spent
    BY <1>1, <1>4, <1>7, ExpiryStays DEF MailExpires
  <1> QED
    BY <1>2, <1>3, <1>5, <1>6, <1>7 DEF Next

-----------------------------------------------------------------------------
(* The theorems.                                                            *)

LEMMA InitInv == Init => AInv
  <1> SUFFICES ASSUME Init PROVE AInv
    OBVIOUS
  <1>1. Issued = {} /\ Mailed = {}
    BY DEF Init, Issued, Mailed
  <1>2. TypeOK
    <2>1. refresh \in Seq(RefreshToken) /\ mail \in Seq(MailToken)
      BY DEF Init
    <2>2. arg \in [Req -> Arg]
      BY NoArgFacts DEF Init
    <2> QED
      BY <2>1, <2>2 DEF Init, TypeOK, Control, Arg
  <1>3. SessionsOK /\ Lineage /\ VerifiedByMail /\ \A r \in Req : Known(r)
    BY <1>1 DEF Init, SessionsOK, Lineage, VerifiedByMail, Known
  <1>4. Undisturbed
    BY <1>1 DEF Init, Undisturbed, Serial, TokensAlone, OneUsePerToken, OneTokenPerSession,
                MailAlone, OldPasswordOut, KnownAlone
  <1> QED
    BY <1>2, <1>3, <1>4 DEF AInv

LEMMA StartInv ==
  ASSUME AInv, NEW r \in Req, Start(r), Moves(r)
  PROVE AInv'
  BY BeginRegisterInv, BeginForgotInv, BeginLoginInv, BeginChangeInv, LogoutAllInv, SetStatusInv,
     BeginRefreshInv, LogoutInv, BeginConsumeInv DEF Start

LEMMA StepInv ==
  ASSUME AInv, NEW r \in Req, Step(r), Moves(r)
  PROVE AInv'
  BY InsertUserInv, SaveMailInv, SendMailInv, RevokeUsedInv, IssueInv, MarkUsedInv,
     UpdatePasswordHashInv, RevokeAllInv, MarkEmailVerifiedInv DEF Step

LEMMA NextInv == AInv /\ [Next]_vars => AInv'
  <1>1. ASSUME AInv, UNCHANGED vars PROVE AInv'
    BY <1>1 DEF vars, accounts, request, AInv, TypeOK, SessionsOK, Lineage, VerifiedByMail, Known,
                Undisturbed, Serial, TokensAlone, OneUsePerToken, OneTokenPerSession, MailAlone,
                OldPasswordOut, KnownAlone, Issued, Mailed
  <1>2. ASSUME AInv, NEW r \in Req, Start(r) \/ Step(r), disturbed' = (disturbed \/ ~Alone(r))
        PROVE AInv'
    BY <1>2, StartInv, StepInv DEF Moves
  <1> QED
    BY <1>1, <1>2, FailInv, RefreshExpiresInv, MailExpiresInv DEF Next

THEOREM Invariant == Spec => []AInv
  BY InitInv, NextInv, PTL DEF Spec

\* The rows of the three tables and the locals of every request keep their types.
THEOREM TypeCorrect == Spec => []TypeOK
  <1>1. AInv => TypeOK
    BY DEF AInv
  <1> QED
    BY <1>1, Invariant, PTL

\* Rotation: whatever overlaps or fails in AuthService.refresh, who holds a token
\* obtained by a refresh has given up the one before it, of the same account and
\* session.
THEOREM LineageHolds == Spec => []Lineage
  <1>1. AInv => Lineage
    BY DEF AInv
  <1> QED
    BY <1>1, Invariant, PTL

\* confirmEmail and markEmailVerified: an e-mail is only verified by using a token
\* that was mailed to its address for that purpose.
THEOREM MailVerifies == Spec => []VerifiedByMail
  <1>1. AInv => VerifiedByMail
    BY DEF AInv
  <1> QED
    BY <1>1, Invariant, PTL

\* Unless requests overlapped or one failed half-way, a refresh token is exchanged
\* once and a mailed token is used once: both are checked and marked by separate
\* statements, which only another request in flight can come between.
THEOREM TokensServeOnce == Spec => []UsedOnce
  <1>1. AInv => UsedOnce
    BY DEF AInv, Undisturbed, TokensAlone, MailAlone, UsedOnce, TokenUsedOnce, OneUsePerMail
  <1> QED
    BY <1>1, Invariant, PTL

\* Unless requests overlapped or one failed half-way, a session that was ended by
\* a logout, a logout of all or a new password does not go on, and nobody stays
\* signed in by an old password once the sessions have been revoked.
THEOREM RevocationIsFinal == Spec => []RevocationHolds
  <1>1. AInv => RevocationHolds
    BY DEF AInv, Undisturbed, TokensAlone, RevocationHolds, EndedStaysEnded, OldPasswordOut
  <1> QED
    BY <1>1, Invariant, PTL

\* Whatever overlaps or fails in AuthService.refresh and TokenService: a refresh
\* token that was revoked, exchanged or had expired before anyone began to exchange
\* it is never exchanged afterwards, and a mailed token that was used or had expired
\* is not used again.
THEOREM SpentForGood == Spec => SpentStaysSpent
  <1>1. ASSUME AInv, [Next]_vars
        PROVE [/\ \A t \in Issued : DeadToken(t) => DeadToken(t)'
               /\ \A k \in Mailed :
                    DeadMail(k) => DeadMail(k)' /\ mail'[k].uses = mail[k].uses]_vars
    BY <1>1, NextSpent DEF Spent
  <1> QED
    BY <1>1, Invariant, PTL DEF Spec, SpentStaysSpent
=============================================================================
