---------------------------- MODULE PartsProofs ----------------------------
(***************************************************************************)
(* The parts that share no state, each for every value of its constants:   *)
(* the roles of an account with their audit log, the lesson player, and,   *)
(* by the invariants of PartsInvariants and LessonProgressProofs, the      *)
(* metronome, the tuner, the seed and the progress of lessons.             *)
(* A step of Parts is a step of the part that is followed, or leaves it as *)
(* it is; so each part has an invariant of its own.                        *)
(***************************************************************************)
EXTENDS Parts, LessonProgressProofs, PartsInvariants

LOCAL INSTANCE SequencesExt

-----------------------------------------------------------------------------
(* UserRoles: the inductive invariant.                                      *)

RolePcs == {"free", "create", "mail", "delete", "replace", "update", "after", "audit"}
Handling == [op : Actions \cup {"none"}, pc : RolePcs, want : Logged, before : Logged,
             after : Logged]
RolesTyped ==
  /\ accounts \in 0..1 /\ roles \subseteq Role /\ userStatus \in UserStatus /\ mails \in Nat
  /\ log \in [Actions -> Seq([before : Logged, after : Logged])]
  /\ req \in [Handler -> Handling]

\* The phases of each kind of request.
PhaseOK(q) ==
  /\ q.pc = "free" <=> q.op = "none"
  /\ q.pc = "free" => q = Free
  /\ q.pc \in {"create", "mail"} => q.op = "register"
  /\ q.pc \in {"delete", "replace"} => q.op = "setRoles" /\ q.want \subseteq Role
  /\ q.pc = "update" => q.op = "setStatus" /\ \E s \in UserStatus : q.want = {s}
  /\ q.pc = "after" => q.op \in {"setRoles", "setStatus"}
  /\ q.op \in {"setRoles", "setStatus"} => accounts = 1

\* The request that has made the account is the only one, and not yet recorded.
HasMade(q) == q.op = "register" /\ q.pc \in {"mail", "audit"}
MadeOnce ==
  /\ Len(log["register"]) <= 1
  /\ log["register"] # <<>> \/ log["setRoles"] # <<>> => accounts = 1
  /\ \A r \in Handler : HasMade(req[r]) =>
       /\ log["register"] = <<>> /\ accounts = 1
       /\ \A s \in Handler : HasMade(req[s]) => s = r

\* The roles come from the changes that committed, but for those that a change
\* in flight has still to delete.
FromWinners ==
  /\ winners # {} =>
       /\ accounts = 1
       /\ roles \subseteq UNION winners
       /\ \E names \in winners : names \subseteq roles
  /\ \A r \in Handler : req[r].pc = "replace" => roles \ req[r].after \subseteq UNION winners

\* While nothing was disputed, a change and its record are not separated.
Has(a) == IF a = "setRoles" THEN roles ELSE {userStatus}
Chained(a) ==
  /\ \A i \in 2..Len(log[a]) : log[a][i].before = log[a][i - 1].after
  /\ \A r, s \in Handler : req[r].op = a /\ req[s].op = a => r = s
  /\ (\A r \in Handler : req[r].op # a) /\ log[a] # <<>> => log[a][Len(log[a])].after = Has(a)
  /\ \A r \in Handler : req[r].op = a =>
       /\ log[a] # <<>> => log[a][Len(log[a])].after = req[r].before
       /\ req[r].pc = "audit" => req[r].after = Has(a)
       /\ req[r].pc = "replace" => req[r].after = roles

RInv ==
  /\ RolesTyped /\ MadeOnce /\ FromWinners
  /\ \A r \in Handler : PhaseOK(req[r])
  /\ \A a \in {"setRoles", "setStatus"} : a \in disputed \/ Chained(a)

-----------------------------------------------------------------------------
(* UserRoles: steps that only change a request, and the others.             *)

LEMMA FreeFacts ==
  /\ Free \in Handling /\ Free.op = "none" /\ Free.pc = "free"
  BY DEF Free, Handling, RolePcs, Logged

LEMMA RolesInitHolds == UserRolesInit => RInv
  <1> SUFFICES ASSUME UserRolesInit PROVE RInv
    OBVIOUS
  <1>1. RolesTyped
    BY FreeFacts DEF UserRolesInit, RolesTyped, UserStatus
  <1>2. \A r \in Handler : req[r] = Free
    BY DEF UserRolesInit
  <1>3. log["register"] = <<>> /\ log["setRoles"] = <<>> /\ log["setStatus"] = <<>>
    BY DEF UserRolesInit, Actions
  <1>4. MadeOnce /\ FromWinners
    BY <1>2, <1>3, FreeFacts DEF MadeOnce, FromWinners, HasMade, UserRolesInit
  <1>5. \A r \in Handler : PhaseOK(req[r])
    BY <1>2, FreeFacts DEF PhaseOK
  <1>6. \A a \in {"setRoles", "setStatus"} : Chained(a)
    BY <1>2, <1>3, FreeFacts DEF Chained
  <1> QED
    BY <1>1, <1>4, <1>5, <1>6 DEF RInv

\* The request r becomes q, and nothing else of the account changes.
LEMMA RequestChanges ==
  ASSUME RolesTyped, NEW r \in Handler, NEW q \in Handling, req' = [req EXCEPT ![r] = q]
  PROVE /\ req' \in [Handler -> Handling] /\ req'[r] = q
        /\ \A s \in Handler : s # r => req'[s] = req[s]
  BY DEF RolesTyped

LEMMA BeginsKeeps ==
  ASSUME RInv, NEW r \in Handler, NEW q \in Handling, Begins(r, q),
         UNCHANGED <<accounts, roles, userStatus, mails, log>>,
         PhaseOK(q), q.op \in Actions, q.pc \notin {"mail", "audit", "replace"},
         q.op # "register" => q.before = Has(q.op)
  PROVE RInv'
  <1>0. /\ RolesTyped /\ MadeOnce /\ FromWinners
        /\ \A s \in Handler : PhaseOK(req[s])
    BY DEF RInv
  <1>1. req[r] = Free /\ req' = [req EXCEPT ![r] = q]
    BY DEF Begins
  <1>2. /\ req' \in [Handler -> Handling] /\ req'[r] = q
        /\ \A s \in Handler : s # r => req'[s] = req[s]
    BY <1>0, <1>1, RequestChanges
  <1>3. RolesTyped'
    BY <1>0, <1>2 DEF RolesTyped
  <1>4. \A s \in Handler : PhaseOK(req[s])'
    BY <1>0, <1>2 DEF PhaseOK
  <1>5. MadeOnce'
    BY <1>0, <1>2 DEF MadeOnce, HasMade
  <1>6. FromWinners'
    <2>1. CASE winners' = winners
      BY <1>0, <1>2, <2>1 DEF FromWinners
    <2>2. CASE winners' # winners
      <3>1. winners' = {} /\ Busied("setRoles") = {}
        BY <2>2 DEF Begins
      <3>2. \A s \in Handler : req[s].op # "setRoles"
        BY <3>1 DEF Busied
      <3>3. \A s \in Handler : req'[s].pc # "replace"
        BY <1>0, <1>2, <3>2 DEF PhaseOK
      <3> QED
        BY <3>1, <3>3 DEF FromWinners
    <2> QED
      BY <2>1, <2>2
  <1>7. ASSUME NEW a \in {"setRoles", "setStatus"}, a \notin disputed'
        PROVE Chained(a)'
    <2>1. a \notin disputed /\ Chained(a)
      BY <1>7 DEF Begins, RInv
    <2>2. Has(a)' = Has(a)
      BY DEF Has
    <2>3. CASE q.op = a
      <3>1. Busied(a) = {}
        BY <1>7, <2>3 DEF Begins
      <3>2. \A s \in Handler : req[s].op # a
        BY <3>1 DEF Busied
      <3>3. q.before = Has(a)
        BY <2>3
      <3>4. \A s \in Handler : req'[s].op = a => s = r
        BY <1>2, <3>2
      <3>5. log[a] # <<>> => log[a][Len(log[a])].after = q.before
        BY <2>1, <3>2, <3>3 DEF Chained
      <3>6. \A i \in 2..Len(log[a]) : log[a][i].before = log[a][i - 1].after
        BY <2>1 DEF Chained
      <3> QED
        BY <1>2, <2>3, <3>4, <3>5, <3>6 DEF Chained
    <2>4. CASE q.op # a
      <3>1. Free.op # a
        BY FreeFacts
      <3> QED
        BY <1>1, <1>2, <2>1, <2>2, <2>4, <3>1 DEF Chained
    <2> QED
      BY <2>3, <2>4
  <1> QED
    BY <1>3, <1>4, <1>5, <1>6, <1>7 DEF RInv

LEMMA RegisterKeeps ==
  ASSUME RInv, NEW r \in Handler, Register(r)
  PROVE RInv'
  <1>1. PICK q : q = [Free EXCEPT !.op = "register", !.pc = "create"]
    OBVIOUS
  <1>2. q \in Handling /\ q.op = "register" /\ q.pc = "create"
    BY <1>1 DEF Free, Handling, RolePcs, Logged, Actions
  <1>3. PhaseOK(q)
    BY <1>2 DEF PhaseOK
  <1>4. Begins(r, q) /\ UNCHANGED <<accounts, roles, userStatus, mails, log>>
    BY <1>1 DEF Register
  <1> QED
    BY <1>2, <1>3, <1>4, BeginsKeeps DEF Actions

LEMMA SetRolesKeeps ==
  ASSUME RInv, NEW r \in Handler, NEW names \in SUBSET Role, SetRoles(r, names)
  PROVE RInv'
  <1>1. PICK q : q = [Free EXCEPT !.op = "setRoles", !.pc = "delete", !.want = names,
                                  !.before = roles]
    OBVIOUS
  <1>2. roles \in Logged /\ names \in Logged
    BY DEF RInv, RolesTyped, Logged
  <1>3. /\ q \in Handling /\ q.op = "setRoles" /\ q.pc = "delete" /\ q.want = names
        /\ q.before = roles
    BY <1>1, <1>2 DEF Free, Handling, RolePcs, Logged, Actions
  <1>4. Begins(r, q) /\ UNCHANGED <<accounts, roles, userStatus, mails, log>> /\ accounts = 1
    BY <1>1 DEF SetRoles
  <1>5. PhaseOK(q)
    BY <1>3, <1>4 DEF PhaseOK
  <1> QED
    BY <1>3, <1>4, <1>5, BeginsKeeps DEF Actions, Has

LEMMA SetStatusKeeps ==
  ASSUME RInv, NEW r \in Handler, NEW status \in UserStatus, SetStatus(r, status)
  PROVE RInv'
  <1>1. PICK q : q = [Free EXCEPT !.op = "setStatus", !.pc = "update", !.want = {status},
                                  !.before = {userStatus}]
    OBVIOUS
  <1>2. {userStatus} \in Logged /\ {status} \in Logged
    BY DEF RInv, RolesTyped, Logged
  <1>3. /\ q \in Handling /\ q.op = "setStatus" /\ q.pc = "update" /\ q.want = {status}
        /\ q.before = {userStatus}
    BY <1>1, <1>2 DEF Free, Handling, RolePcs, Logged, Actions
  <1>4. Begins(r, q) /\ UNCHANGED <<accounts, roles, userStatus, mails, log>> /\ accounts = 1
    BY <1>1 DEF SetStatus
  <1>5. PhaseOK(q)
    BY <1>3, <1>4 DEF PhaseOK
  <1> QED
    BY <1>3, <1>4, <1>5, BeginsKeeps DEF Actions, Has

\* A request goes on to its next phase, and only reads.
LEMMA MovesKeeps ==
  ASSUME RInv, NEW r \in Handler, NEW x \in Handling, x = req[r], NEW q \in Handling,
         req' = [req EXCEPT ![r] = q], mails' \in Nat,
         UNCHANGED <<accounts, roles, userStatus, log, winners, disputed>>,
         q.op = x.op, q.before = x.before, PhaseOK(q),
         q.pc = "audit" /\ q.op = "register" => x.pc = "mail",
         q.pc # "mail",
         q.pc = "audit" /\ q.op # "register" => q.after = Has(q.op),
         q.pc = "replace" => q.after = roles
  PROVE RInv'
  <1>0. /\ RolesTyped /\ MadeOnce /\ FromWinners
        /\ \A s \in Handler : PhaseOK(req[s])
    BY DEF RInv
  <1>2. /\ req' \in [Handler -> Handling] /\ req'[r] = q
        /\ \A s \in Handler : s # r => req'[s] = req[s]
    BY <1>0, RequestChanges
  <1>3. RolesTyped'
    BY <1>0, <1>2 DEF RolesTyped
  <1>4. \A s \in Handler : PhaseOK(req[s])'
    BY <1>0, <1>2 DEF PhaseOK
  <1>5. MadeOnce'
    <2>1. \A s \in Handler : HasMade(req'[s]) => HasMade(req[s])
      BY <1>2 DEF HasMade
    <2> QED
      BY <1>0, <2>1 DEF MadeOnce
  <1>6. FromWinners'
    BY <1>0, <1>2 DEF FromWinners
  <1>7. ASSUME NEW a \in {"setRoles", "setStatus"}, a \notin disputed'
        PROVE Chained(a)'
    <2>1. a \notin disputed /\ Chained(a)
      BY <1>7 DEF RInv
    <2>2. Has(a)' = Has(a)
      BY DEF Has
    <2>3. \A s \in Handler : req'[s].op = req[s].op /\ req'[s].before = req[s].before
      BY <1>2
    <2>4. \A s \in Handler : req'[s].op = a =>
            /\ req'[s].pc = "audit" => req'[s].after = Has(a)
            /\ req'[s].pc = "replace" => req'[s].after = roles
      BY <1>2, <1>7, <2>1 DEF Chained
    <2> QED
      BY <2>1, <2>2, <2>3, <2>4 DEF Chained
  <1> QED
    BY <1>3, <1>4, <1>5, <1>6, <1>7 DEF RInv

LEMMA SendEmailVerificationKeeps ==
  ASSUME RInv, NEW r \in Handler, SendEmailVerification(r)
  PROVE RInv'
  <1>1. PICK x \in Handling : x = req[r] /\ x.pc = "mail" /\ PhaseOK(x)
    BY DEF RInv, RolesTyped, SendEmailVerification
  <1>2. PICK q : q = [x EXCEPT !.pc = "audit"]
    OBVIOUS
  <1>3. /\ q \in Handling /\ q.pc = "audit" /\ q.op = x.op /\ q.before = x.before
        /\ q.op = "register"
    BY <1>1, <1>2 DEF Handling, RolePcs, PhaseOK
  <1>4. PhaseOK(q)
    BY <1>3 DEF PhaseOK
  <1>5. req' = [req EXCEPT ![r] = q]
    BY <1>1, <1>2 DEF SendEmailVerification, Goes, RInv, RolesTyped
  <1>6. mails' \in Nat
    BY DEF SendEmailVerification, RInv, RolesTyped
  <1> QED
    BY <1>1, <1>3, <1>4, <1>5, <1>6, MovesKeeps DEF SendEmailVerification

LEMMA DeleteManyKeeps ==
  ASSUME RInv, NEW r \in Handler, DeleteMany(r)
  PROVE RInv'
  <1>1. PICK x \in Handling : x = req[r] /\ x.pc = "delete" /\ PhaseOK(x)
    BY DEF RInv, RolesTyped, DeleteMany
  <1>2. PICK q : q = [x EXCEPT !.pc = "replace", !.after = roles]
    OBVIOUS
  <1>3. roles \in Logged
    BY DEF RInv, RolesTyped, Logged
  <1>4. /\ q \in Handling /\ q.pc = "replace" /\ q.op = x.op /\ q.before = x.before
        /\ q.want = x.want /\ q.after = roles
    BY <1>1, <1>2, <1>3 DEF Handling, RolePcs
  <1>5. PhaseOK(q)
    BY <1>1, <1>4 DEF PhaseOK
  <1>6. req' = [req EXCEPT ![r] = q]
    BY <1>1, <1>2 DEF DeleteMany, RInv, RolesTyped, Handling
  <1> QED
    BY <1>1, <1>4, <1>5, <1>6, MovesKeeps DEF DeleteMany, RInv, RolesTyped

LEMMA ReadAfterKeeps ==
  ASSUME RInv, NEW r \in Handler, ReadAfter(r)
  PROVE RInv'
  <1>1. PICK x \in Handling : x = req[r] /\ x.pc = "after" /\ PhaseOK(x)
    BY DEF RInv, RolesTyped, ReadAfter
  <1>2. PICK v : v = Has(x.op)
    OBVIOUS
  <1>3. v \in Logged
    BY <1>2 DEF Has, RInv, RolesTyped, Logged
  <1>4. PICK q : q = [x EXCEPT !.pc = "audit", !.after = v]
    OBVIOUS
  <1>5. /\ q \in Handling /\ q.pc = "audit" /\ q.op = x.op /\ q.before = x.before
        /\ q.want = x.want /\ q.after = v
    BY <1>1, <1>3, <1>4 DEF Handling, RolePcs
  <1>6. PhaseOK(q) /\ q.op \in {"setRoles", "setStatus"}
    BY <1>1, <1>5 DEF PhaseOK
  <1>7. req' = [req EXCEPT ![r] = q]
    BY <1>1, <1>2, <1>4 DEF ReadAfter, Has, RInv, RolesTyped, Handling
  <1> QED
    BY <1>1, <1>2, <1>5, <1>6, <1>7, MovesKeeps DEF ReadAfter, RInv, RolesTyped

\* A request that makes no difference is free again: its slot only.
LEMMA EndsKeeps ==
  ASSUME RInv, NEW r \in Handler, req' = [req EXCEPT ![r] = Free],
         UNCHANGED <<accounts, roles, userStatus, mails, log, winners>>,
         disputed' = disputed \/ disputed' = disputed \cup {req[r].op},
         req[r].op \in {"setRoles", "setStatus"} => req[r].op \in disputed'
  PROVE RInv'
  <1>0. /\ RolesTyped /\ MadeOnce /\ FromWinners
        /\ \A s \in Handler : PhaseOK(req[s])
    BY DEF RInv
  <1>2. /\ req' \in [Handler -> Handling] /\ req'[r] = Free
        /\ \A s \in Handler : s # r => req'[s] = req[s]
    BY <1>0, FreeFacts, RequestChanges
  <1>3. RolesTyped'
    BY <1>0, <1>2 DEF RolesTyped
  <1>4. \A s \in Handler : PhaseOK(req[s])'
    BY <1>0, <1>2, FreeFacts DEF PhaseOK
  <1>5. MadeOnce'
    BY <1>0, <1>2, FreeFacts DEF MadeOnce, HasMade
  <1>6. FromWinners'
    BY <1>0, <1>2, FreeFacts DEF FromWinners
  <1>7. ASSUME NEW a \in {"setRoles", "setStatus"}, a \notin disputed'
        PROVE Chained(a)'
    <2>1. a \notin disputed /\ Chained(a) /\ req[r].op # a
      BY <1>7 DEF RInv
    <2>2. Has(a)' = Has(a)
      BY DEF Has
    <2> QED
      BY <1>2, <2>1, <2>2, FreeFacts DEF Chained
  <1> QED
    BY <1>3, <1>4, <1>5, <1>6, <1>7 DEF RInv

LEMMA AbortKeeps ==
  ASSUME RInv, NEW r \in Handler, Abort(r)
  PROVE RInv'
  BY EndsKeeps DEF Abort

LEMMA CreateKeeps ==
  ASSUME RInv, NEW r \in Handler, Create(r)
  PROVE RInv'
  <1>0. /\ RolesTyped /\ MadeOnce /\ FromWinners
        /\ \A s \in Handler : PhaseOK(req[s])
    BY DEF RInv
  <1>1. PICK x \in Handling : x = req[r] /\ x.pc = "create" /\ x.op = "register"
    BY <1>0 DEF RolesTyped, Create, PhaseOK
  <1>2. CASE accounts # 0
    <2>1. /\ req' = [req EXCEPT ![r] = Free]
          /\ UNCHANGED <<accounts, roles, userStatus, mails, log, winners, disputed>>
      BY <1>2 DEF Create
    <2> QED
      BY <1>1, <2>1, EndsKeeps
  <1>3. CASE accounts = 0
    <2>1. PICK q : q = [x EXCEPT !.pc = "mail"]
      OBVIOUS
    <2>2. q \in Handling /\ q.pc = "mail" /\ q.op = "register"
      BY <1>1, <2>1 DEF Handling, RolePcs
    <2>3. /\ req' = [req EXCEPT ![r] = q] /\ accounts' = 1 /\ roles' = {"student"}
          /\ UNCHANGED <<userStatus, mails, log, winners, disputed>>
      BY <1>0, <1>1, <1>3, <2>1 DEF Create, Goes, RolesTyped
    <2>4. /\ req' \in [Handler -> Handling] /\ req'[r] = q
          /\ \A s \in Handler : s # r => req'[s] = req[s]
      BY <1>0, <2>2, <2>3, RequestChanges
    <2>5. /\ \A s \in Handler : req[s].op \notin {"setRoles", "setStatus"}
          /\ winners = {} /\ log["register"] = <<>>
          /\ \A s \in Handler : ~HasMade(req[s])
      BY <1>0, <1>3 DEF PhaseOK, FromWinners, MadeOnce
    <2>6. RolesTyped'
      <3>1. roles' \subseteq Role /\ accounts' \in 0..1
        BY <2>3, UserRolesAssumption
      <3>2. userStatus' = userStatus /\ mails' = mails /\ log' = log
        BY <2>3
      <3> QED
        BY <1>0, <2>4, <3>1, <3>2 DEF RolesTyped
    <2>7. \A s \in Handler : PhaseOK(req[s])'
      BY <1>0, <2>2, <2>3, <2>4 DEF PhaseOK
    <2>8. MadeOnce'
      BY <1>0, <2>2, <2>3, <2>4, <2>5 DEF MadeOnce, HasMade
    <2>9. FromWinners'
      <3>1. \A s \in Handler : req'[s].pc # "replace"
        BY <1>0, <2>2, <2>4, <2>5 DEF PhaseOK
      <3> QED
        BY <2>3, <2>5, <3>1 DEF FromWinners
    <2>10. ASSUME NEW a \in {"setRoles", "setStatus"}, a \notin disputed'
           PROVE Chained(a)'
      <3>1. Chained(a)
        BY <2>3, <2>10 DEF RInv
      <3>2. \A s \in Handler : req'[s].op # a
        BY <2>2, <2>4, <2>5
      <3>3. CASE a = "setRoles"
        <4>1. log[a] = <<>>
          BY <1>0, <1>3, <3>3 DEF MadeOnce
        <4> QED
          BY <2>3, <3>1, <3>2, <4>1 DEF Chained
      <3>4. CASE a = "setStatus"
        <4>1. Has(a)' = Has(a)
          BY <2>3, <3>4 DEF Has
        <4>2. \A s \in Handler : req[s].op # a
          BY <2>5, <3>4
        <4> QED
          BY <2>3, <3>1, <3>2, <4>1, <4>2 DEF Chained
      <3> QED
        BY <3>3, <3>4
    <2> QED
      BY <2>6, <2>7, <2>8, <2>9, <2>10 DEF RInv
  <1> QED
    BY <1>2, <1>3

LEMMA CreateManyKeeps ==
  ASSUME RInv, NEW r \in Handler, CreateMany(r)
  PROVE RInv'
  <1>0. /\ RolesTyped /\ MadeOnce /\ FromWinners
        /\ \A s \in Handler : PhaseOK(req[s])
    BY DEF RInv
  <1>1. PICK x \in Handling : /\ x = req[r] /\ x.pc = "replace" /\ x.op = "setRoles"
                              /\ x.want \subseteq Role /\ accounts = 1
    BY <1>0 DEF RolesTyped, CreateMany, PhaseOK
  <1>2. PICK kept : kept = roles \ x.after
    OBVIOUS
  <1>3. CASE x.want \cap kept # {}
    <2>1. /\ req' = [req EXCEPT ![r] = Free]
          /\ UNCHANGED <<accounts, roles, userStatus, mails, log, winners, disputed>>
      BY <1>1, <1>2, <1>3 DEF CreateMany
    <2>2. "setRoles" \in disputed
      <3>1. SUFFICES ASSUME "setRoles" \notin disputed PROVE FALSE
        OBVIOUS
      <3>2. Chained("setRoles")
        BY <3>1 DEF RInv
      <3>3. x.after = roles
        BY <1>1, <3>2 DEF Chained
      <3> QED
        BY <1>2, <1>3, <3>3
    <2> QED
      BY <1>1, <2>1, <2>2, EndsKeeps
  <1>4. CASE x.want \cap kept = {}
    <2>1. PICK q : q = [x EXCEPT !.pc = "after"]
      OBVIOUS
    <2>2. /\ q \in Handling /\ q.pc = "after" /\ q.op = "setRoles" /\ q.want = x.want
          /\ q.before = x.before
      BY <1>1, <2>1 DEF Handling, RolePcs
    <2>3. /\ roles' = kept \cup x.want /\ winners' = winners \cup {x.want}
          /\ req' = [s \in Handler |->
               IF s = r THEN q
               ELSE IF req[s].pc = "replace" THEN [req[s] EXCEPT !.after = @ \ x.after]
               ELSE req[s]]
          /\ UNCHANGED <<accounts, userStatus, mails, log, disputed>>
      BY <1>1, <1>2, <1>4, <2>1 DEF CreateMany
    <2>4. ASSUME NEW s \in Handler, s # r
          PROVE \E y \in Handling :
                  /\ req'[s] = y /\ y.op = req[s].op /\ y.pc = req[s].pc
                  /\ y.want = req[s].want /\ y.before = req[s].before
                  /\ y.pc # "replace" => y = req[s]
                  /\ y.pc = "replace" => y.after = req[s].after \ x.after
      <3>1. PICK z \in Handling : z = req[s]
        BY <1>0 DEF RolesTyped
      <3>2. PICK S : S = z.after \ x.after
        OBVIOUS
      <3>3. S \in Logged
        BY <3>2 DEF Handling, Logged
      <3>4. PICK y : y = IF z.pc = "replace" THEN [z EXCEPT !.after = S] ELSE z
        OBVIOUS
      <3>5. /\ y \in Handling /\ y.op = z.op /\ y.pc = z.pc /\ y.want = z.want
            /\ y.before = z.before /\ (y.pc # "replace" => y = z)
            /\ (y.pc = "replace" => y.after = S)
        BY <3>3, <3>4 DEF Handling
      <3>6. req'[s] = y
        <4>1. req'[s] = IF z.pc = "replace" THEN [z EXCEPT !.after = @ \ x.after] ELSE z
          BY <2>3, <2>4, <3>1
        <4>2. [z EXCEPT !.after = @ \ x.after] = [z EXCEPT !.after = S]
          BY <3>2 DEF Handling
        <4> QED
          BY <3>4, <4>1, <4>2
      <3> QED
        BY <3>1, <3>2, <3>5, <3>6
    <2>5. req' \in [Handler -> Handling] /\ req'[r] = q
      BY <2>2, <2>3, <2>4
    <2>6. RolesTyped'
      BY <1>0, <1>1, <1>2, <2>3, <2>5 DEF RolesTyped
    <2>7. ASSUME NEW s \in Handler PROVE PhaseOK(req[s])'
      <3>1. CASE s = r
        BY <1>1, <2>2, <2>3, <2>5, <3>1 DEF PhaseOK
      <3>2. CASE s # r
        <4>1. PICK y \in Handling :
                /\ req'[s] = y /\ y.op = req[s].op /\ y.pc = req[s].pc
                /\ y.want = req[s].want
                /\ y.pc # "replace" => y = req[s]
          BY <2>4, <3>2
        <4>2. PhaseOK(req[s]) /\ accounts' = accounts
          BY <1>0, <2>3
        <4> QED
          BY <4>1, <4>2 DEF PhaseOK
      <3> QED
        BY <3>1, <3>2
    <2>8. MadeOnce'
      <3>1. \A s \in Handler : HasMade(req'[s]) => HasMade(req[s])
        BY <2>2, <2>4, <2>5 DEF HasMade
      <3> QED
        BY <1>0, <2>3, <3>1 DEF MadeOnce
    <2>9. FromWinners'
      <3>1. kept \subseteq UNION winners
        BY <1>0, <1>1, <1>2 DEF FromWinners
      <3>2. UNION winners' = (UNION winners) \cup x.want
        BY <2>3
      <3>3. roles' \subseteq UNION winners' /\ x.want \in winners' /\ x.want \subseteq roles'
        BY <2>3, <3>1, <3>2
      <3>4. ASSUME NEW s \in Handler, req'[s].pc = "replace"
            PROVE roles' \ req'[s].after \subseteq UNION winners'
        BY <3>3
      <3> QED
        BY <1>1, <2>3, <3>3, <3>4 DEF FromWinners
    <2>10. ASSUME NEW a \in {"setRoles", "setStatus"}, a \notin disputed'
           PROVE Chained(a)'
      <3>1. Chained(a)
        BY <2>3, <2>10 DEF RInv
      <3>2. \A s \in Handler : req'[s].op = req[s].op /\ req'[s].before = req[s].before
        BY <1>1, <2>2, <2>4, <2>5
      <3>3. CASE a = "setStatus"
        <4>1. Has(a)' = Has(a)
          BY <2>3, <3>3 DEF Has
        <4>2. \A s \in Handler : req'[s].op = a => s # r /\ req'[s].pc # "replace"
          BY <1>0, <2>2, <2>5, <2>7, <3>3 DEF PhaseOK
        <4>3. \A s \in Handler : req'[s].op = a => req'[s] = req[s]
          BY <2>4, <4>2
        <4> QED
          BY <2>3, <3>1, <3>2, <4>1, <4>2, <4>3 DEF Chained
      <3>4. CASE a = "setRoles"
        <4>1. \A s \in Handler : req'[s].op = a => s = r
          BY <1>1, <3>1, <3>2, <3>4 DEF Chained
        <4>2. log[a] # <<>> => log[a][Len(log[a])].after = q.before
          BY <1>1, <2>2, <3>1, <3>4 DEF Chained
        <4>3. q.op = a
          BY <2>2, <3>4
        <4> QED
          BY <2>2, <2>3, <2>5, <3>1, <4>1, <4>2, <4>3 DEF Chained
      <3> QED
        BY <3>3, <3>4
    <2> QED
      BY <2>6, <2>7, <2>8, <2>9, <2>10 DEF RInv
  <1> QED
    BY <1>3, <1>4

LEMMA UpdateStatusKeeps ==
  ASSUME RInv, NEW r \in Handler, UpdateStatus(r)
  PROVE RInv'
  <1>0. /\ RolesTyped /\ MadeOnce /\ FromWinners
        /\ \A s \in Handler : PhaseOK(req[s])
    BY DEF RInv
  <1>1. PICK x \in Handling : /\ x = req[r] /\ x.pc = "update" /\ x.op = "setStatus"
                              /\ accounts = 1 /\ userStatus' \in UserStatus
    <2>1. PhaseOK(req[r]) /\ req[r] \in Handling
      BY <1>0 DEF RolesTyped
    <2> QED
      BY <2>1 DEF UpdateStatus, PhaseOK
  <1>2. PICK q : q = [x EXCEPT !.pc = "after"]
    OBVIOUS
  <1>3. /\ q \in Handling /\ q.pc = "after" /\ q.op = x.op /\ q.before = x.before
    BY <1>1, <1>2 DEF Handling, RolePcs
  <1>4. /\ req' = [req EXCEPT ![r] = q]
        /\ UNCHANGED <<accounts, roles, mails, log, winners, disputed>>
    BY <1>0, <1>1, <1>2 DEF UpdateStatus, Goes, RolesTyped
  <1>5. /\ req' \in [Handler -> Handling] /\ req'[r] = q
        /\ \A s \in Handler : s # r => req'[s] = req[s]
    BY <1>0, <1>3, <1>4, RequestChanges
  <1>6. RolesTyped'
    BY <1>0, <1>1, <1>4, <1>5 DEF RolesTyped
  <1>7. \A s \in Handler : PhaseOK(req[s])'
    BY <1>0, <1>1, <1>3, <1>4, <1>5 DEF PhaseOK
  <1>8. MadeOnce'
    <2>1. \A s \in Handler : HasMade(req'[s]) => HasMade(req[s])
      BY <1>3, <1>5 DEF HasMade
    <2> QED
      BY <1>0, <1>4, <2>1 DEF MadeOnce
  <1>9. FromWinners'
    BY <1>0, <1>3, <1>4, <1>5 DEF FromWinners
  <1>10. ASSUME NEW a \in {"setRoles", "setStatus"}, a \notin disputed'
         PROVE Chained(a)'
    <2>1. Chained(a)
      BY <1>4, <1>10 DEF RInv
    <2>2. \A s \in Handler : req'[s].op = req[s].op /\ req'[s].before = req[s].before
      BY <1>1, <1>3, <1>5
    <2>3. CASE a = "setRoles"
      <3>1. Has(a)' = Has(a)
        BY <1>4, <2>3 DEF Has
      <3>2. \A s \in Handler : req'[s].op = a => req'[s] = req[s]
        BY <1>1, <1>5, <2>2, <2>3
      <3> QED
        BY <1>4, <2>1, <2>2, <3>1, <3>2 DEF Chained
    <2>4. CASE a = "setStatus"
      <3>1. \A s \in Handler : req'[s].op = a => s = r
        BY <1>1, <2>1, <2>2, <2>4 DEF Chained
      <3>2. req'[r].op = a
        BY <1>1, <1>3, <1>5, <2>4
      <3> QED
        BY <1>3, <1>4, <1>5, <2>1, <2>2, <3>1, <3>2 DEF Chained
    <2> QED
      BY <2>3, <2>4
  <1> QED
    BY <1>6, <1>7, <1>8, <1>9, <1>10 DEF RInv

LEMMA MarkEmailVerifiedKeeps ==
  ASSUME RInv, MarkEmailVerified
  PROVE RInv'
  <1>0. /\ RolesTyped /\ MadeOnce /\ FromWinners
        /\ \A s \in Handler : PhaseOK(req[s])
    BY DEF RInv
  <1>1. UNCHANGED <<accounts, roles, log, req, winners>>
    BY DEF MarkEmailVerified
  <1>2. RolesTyped'
    <2>1. userStatus' \in UserStatus /\ mails' \in Nat
      BY <1>0 DEF RolesTyped, MarkEmailVerified, UserStatus
    <2> QED
      BY <1>0, <1>1, <2>1 DEF RolesTyped
  <1>3. MadeOnce' /\ FromWinners' /\ \A s \in Handler : PhaseOK(req[s])'
    BY <1>0, <1>1 DEF MadeOnce, FromWinners, PhaseOK
  <1>4. ASSUME NEW a \in {"setRoles", "setStatus"}, a \notin disputed'
        PROVE Chained(a)'
    <2>1. a = "setRoles" /\ Chained(a)
      BY <1>4 DEF MarkEmailVerified, RInv
    <2>2. Has(a)' = Has(a)
      BY <1>1, <2>1 DEF Has
    <2> QED
      BY <1>1, <2>1, <2>2 DEF Chained
  <1> QED
    BY <1>2, <1>3, <1>4 DEF RInv

LEMMA RecordKeeps ==
  ASSUME RInv, NEW r \in Handler, Record(r)
  PROVE RInv'
  <1>0. /\ RolesTyped /\ MadeOnce /\ FromWinners
        /\ \A s \in Handler : PhaseOK(req[s])
    BY DEF RInv
  <1>1. PICK x \in Handling : x = req[r] /\ x.pc = "audit" /\ PhaseOK(x)
    BY <1>0 DEF RolesTyped, Record
  <1>2. x.op \in Actions
    BY <1>1 DEF PhaseOK, Handling
  <1>3. PICK e : e = [before |-> x.before, after |-> x.after]
    OBVIOUS
  <1>4. e \in [before : Logged, after : Logged] /\ e.before = x.before /\ e.after = x.after
    BY <1>3 DEF Handling
  <1>5. /\ log' = [log EXCEPT ![x.op] = Append(@, e)]
        /\ req' = [req EXCEPT ![r] = Free]
        /\ UNCHANGED <<accounts, roles, userStatus, mails, winners, disputed>>
    BY <1>1, <1>3 DEF Record
  <1>6. /\ req' \in [Handler -> Handling] /\ req'[r] = Free
        /\ \A s \in Handler : s # r => req'[s] = req[s]
    BY <1>0, <1>5, FreeFacts, RequestChanges
  <1>7. /\ log'[x.op] = Append(log[x.op], e)
        /\ \A a \in Actions : a # x.op => log'[a] = log[a]
        /\ log' \in [Actions -> Seq([before : Logged, after : Logged])]
    <2>1. PICK S : S = [before : Logged, after : Logged]
      OBVIOUS
    <2>2. log \in [Actions -> Seq(S)] /\ e \in S
      BY <1>0, <1>4, <2>1 DEF RolesTyped
    <2>3. PICK t : t = Append(log[x.op], e)
      OBVIOUS
    <2>4. t \in Seq(S)
      BY <1>2, <2>2, <2>3
    <2>5. log' = [log EXCEPT ![x.op] = t]
      BY <1>2, <1>5, <2>2, <2>3
    <2> QED
      BY <1>2, <2>1, <2>2, <2>3, <2>4, <2>5
  <1>8. RolesTyped'
    BY <1>0, <1>5, <1>6, <1>7 DEF RolesTyped
  <1>9. \A s \in Handler : PhaseOK(req[s])'
    BY <1>0, <1>5, <1>6, FreeFacts DEF PhaseOK
  <1>10. \A s \in Handler : HasMade(req'[s]) => s # r /\ HasMade(req[s])
    BY <1>6, FreeFacts DEF HasMade
  <1>11. MadeOnce'
    <2>1. CASE x.op = "register"
      <3>1. HasMade(x)
        BY <1>1, <2>1 DEF HasMade
      <3>2. /\ log["register"] = <<>> /\ accounts = 1
            /\ \A s \in Handler : HasMade(req[s]) => s = r
        BY <1>0, <1>1, <3>1 DEF MadeOnce
      <3>3. log'["register"] = Append(<<>>, e) /\ log'["setRoles"] = log["setRoles"]
        BY <1>7, <2>1, <3>2 DEF Actions
      <3>4. Len(log'["register"]) = 1
        BY <3>3
      <3> QED
        BY <1>5, <1>10, <3>2, <3>4 DEF MadeOnce
    <2>2. CASE x.op # "register"
      <3>1. accounts = 1 /\ log'["register"] = log["register"]
        BY <1>1, <1>2, <1>7, <2>2 DEF PhaseOK, Actions
      <3> QED
        BY <1>0, <1>5, <1>10, <3>1 DEF MadeOnce
    <2> QED
      BY <2>1, <2>2
  <1>12. FromWinners'
    BY <1>0, <1>5, <1>6, FreeFacts DEF FromWinners
  <1>13. ASSUME NEW a \in {"setRoles", "setStatus"}, a \notin disputed'
         PROVE Chained(a)'
    <2>1. Chained(a) /\ a \in Actions
      BY <1>5, <1>13 DEF RInv, Actions
    <2>2. Has(a)' = Has(a)
      BY <1>5 DEF Has
    <2>3. CASE x.op # a
      <3>1. log'[a] = log[a]
        BY <1>7, <2>1, <2>3
      <3>2. \A s \in Handler : req'[s].op = a <=> req[s].op = a
        BY <1>1, <1>6, <2>1, <2>3, FreeFacts DEF Actions
      <3>3. \A s \in Handler : req'[s].op = a => req'[s] = req[s]
        BY <1>6, <2>1, FreeFacts DEF Actions
      <3> QED
        BY <1>5, <2>1, <2>2, <3>1, <3>2, <3>3 DEF Chained
    <2>4. CASE x.op = a
      <3>1. PICK s \in Seq([before : Logged, after : Logged]) : s = log[a]
        BY <1>0, <2>1 DEF RolesTyped
      <3>2. log'[a] = Append(s, e)
        BY <1>7, <2>4, <3>1
      <3>3. /\ e.after = Has(a)
            /\ s # <<>> => s[Len(s)].after = e.before
            /\ \A i \in 2..Len(s) : s[i].before = s[i - 1].after
        BY <1>1, <1>4, <2>1, <2>4, <3>1 DEF Chained
      <3>4. \A t \in Handler : req'[t].op # a
        BY <1>1, <1>6, <2>1, <2>4, FreeFacts DEF Chained, Actions
      <3>5. ASSUME NEW i \in 2..Len(log'[a]) PROVE log'[a][i].before = log'[a][i - 1].after
        <4>1. CASE i \in 2..Len(s)
          <5>1. Append(s, e)[i] = s[i] /\ Append(s, e)[i - 1] = s[i - 1]
            BY <4>1
          <5> QED
            BY <3>2, <3>3, <4>1, <5>1
        <4>2. CASE i = Len(s) + 1
          <5>1. /\ Append(s, e)[i] = e /\ Append(s, e)[i - 1] = s[Len(s)] /\ s # <<>>
            BY <3>2, <3>5, <4>2
          <5> QED
            BY <3>2, <3>3, <5>1
        <4> QED
          BY <3>2, <3>5, <4>1, <4>2
      <3>6. log'[a][Len(log'[a])] = e
        BY <3>2
      <3> QED
        BY <2>2, <3>3, <3>4, <3>5, <3>6 DEF Chained
    <2> QED
      BY <2>3, <2>4
  <1> QED
    BY <1>8, <1>9, <1>11, <1>12, <1>13 DEF RInv

LEMMA RolesStepKeeps ==
  ASSUME RInv, [UserRolesNext]_userRoles
  PROVE RInv'
  <1>1. ASSUME NEW r \in Handler, NEW names \in SUBSET Role, SetRoles(r, names) PROVE RInv'
    BY <1>1, SetRolesKeeps
  <1>2. ASSUME NEW r \in Handler, NEW status \in UserStatus, SetStatus(r, status) PROVE RInv'
    BY <1>2, SetStatusKeeps
  <1>3. ASSUME NEW r \in Handler,
               \/ Register(r) \/ Create(r) \/ SendEmailVerification(r)
               \/ DeleteMany(r) \/ CreateMany(r) \/ UpdateStatus(r)
               \/ ReadAfter(r) \/ Record(r) \/ Abort(r)
        PROVE RInv'
    BY <1>3, RegisterKeeps, CreateKeeps, SendEmailVerificationKeeps, DeleteManyKeeps,
       CreateManyKeeps, UpdateStatusKeeps, ReadAfterKeeps, RecordKeeps, AbortKeeps
  <1>4. ASSUME UNCHANGED userRoles PROVE RInv'
    <2>1. UNCHANGED <<accounts, roles, userStatus, mails, log, req, winners, disputed>>
      BY <1>4 DEF userRoles
    <2>2. RolesTyped' /\ MadeOnce' /\ FromWinners' /\ \A r \in Handler : PhaseOK(req[r])'
      BY <2>1 DEF RInv, RolesTyped, MadeOnce, FromWinners, PhaseOK
    <2>3. \A a \in {"setRoles", "setStatus"} : (a \in disputed \/ Chained(a))'
      BY <2>1 DEF RInv, Chained, Has
    <2> QED
      BY <2>2, <2>3 DEF RInv
  <1> QED
    BY <1>1, <1>2, <1>3, <1>4, MarkEmailVerifiedKeeps DEF UserRolesNext

\* A step of Parts is a step of the roles, or does not touch them.
LEMMA RolesOfParts == [PartsNext]_parts => [UserRolesNext]_userRoles
  BY DEF PartsNext, parts, server

LEMMA RolesFollow == RInv => RolesAndLog
  <1> SUFFICES ASSUME RInv PROVE RolesAndLog
    OBVIOUS
  <1>1. RolesReplaced
    BY DEF RolesReplaced, RInv, FromWinners
  <1>2. Len(log["register"]) <= 1
    BY DEF RInv, MadeOnce
  <1>3. DOMAIN Current = {"setRoles", "setStatus"}
    BY DEF Current
  <1>4. ASSUME NEW a \in {"setRoles", "setStatus"}, a \notin disputed
        PROVE /\ \A i \in 2..Len(log[a]) : log[a][i].before = log[a][i - 1].after
              /\ (Busied(a) = {} /\ log[a] # <<>>) => Last(log[a]).after = Current[a]
    <2>1. Chained(a)
      BY <1>4 DEF RInv
    <2>2. Current[a] = Has(a)
      BY DEF Current, Has
    <2>3. Busied(a) = {} => \A r \in Handler : req[r].op # a
      BY DEF Busied
    <2> QED
      BY <2>1, <2>2, <2>3 DEF Chained, Last
  <1> QED
    BY <1>1, <1>2, <1>3, <1>4 DEF RolesAndLog, LogFollows

\* What holds of an account between the steps of the requests that change it.
THEOREM RolesInvariant == PartsSpec => []RInv
  <1>1. PartsInit => RInv
    BY RolesInitHolds DEF PartsInit
  <1>2. RInv /\ [PartsNext]_parts => RInv'
    BY RolesOfParts, RolesStepKeeps
  <1> QED
    BY <1>1, <1>2, PTL DEF PartsSpec

\* However the changes of one account interleave and fail: its roles are those
\* of the last changes (users.service.ts, setRoles), and the records of the
\* audit log follow one another and end with what the account has.
THEOREM RolesAndLogHold == PartsSpec => []RolesAndLog
  BY RolesInvariant, RolesFollow, PTL

-----------------------------------------------------------------------------
(* LessonPlayer: the inductive invariant.                                   *)

PlayerTyped ==
  /\ LessonPlayerTypeOK
  /\ furthest \in 0..Duration /\ reports \in Nat
  /\ stored = [watched |-> stored.watched, position |-> stored.position]
  \* the report of the cleanup comes on top of those that were counted
  /\ reports <= MaxReports + 1 /\ (onLesson => reports <= MaxReports)
  /\ Len(sent) <= reports

\* The player is where the last render left it, and went on from there.
LoopKept ==
  /\ position <= currentTime + lag
  /\ IsLoopActive(loop) =>
       /\ loop.a < loop.b
       /\ currentTime >= loop.b => position <= loop.a + lag

\* What a report says was played, and what it writes covers what it says.
InFlightOK(q) ==
  /\ q.seconds <= furthest /\ q.watched <= furthest
  /\ q.watched # Null => q.seconds <= q.watched

\* What React and the API know of the furthest position.
FurthestKnown ==
  /\ currentTime <= furthest /\ position <= furthest
  /\ stored.position <= stored.watched /\ stored.watched <= furthest
  /\ \A i \in DOMAIN sent : InFlightOK(sent[i])
  /\ currentTime < lastReported + ReportInterval
  /\ furthest < lastReported + ReportInterval + MaxLag

\* The last report has arrived, a later one has, or it is under way; and the one
\* that the API handles will write no less than is stored.
ReportKept ==
  (~lost /\ ~atOnce) =>
    /\ lastReported <= stored.watched \/ \E i \in DOMAIN sent : sent[i].seconds = lastReported
    /\ \A i \in DOMAIN sent : sent[i].watched # Null =>
         /\ stored.watched <= sent[i].watched
         /\ \A j \in DOMAIN sent : sent[j].watched # Null => i = j

\* The cleanup's report is the last one.
LeftWith ==
  (~onLesson /\ ~lost /\ ~reordered /\ currentTime > 0) =>
    /\ sent = <<>> => stored.position = currentTime
    /\ sent # <<>> => sent[Len(sent)].seconds = currentTime

PlayerInv == PlayerTyped /\ LoopKept /\ FurthestKnown /\ ReportKept /\ LeftWith

-----------------------------------------------------------------------------
(* LessonPlayer: a report that arrives out of turn.                         *)

LEMMA RemoveAtFacts ==
  ASSUME NEW S, NEW s \in Seq(S), NEW i \in DOMAIN s
  PROVE /\ RemoveAt(s, i) \in Seq(S) /\ Len(RemoveAt(s, i)) = Len(s) - 1
        /\ \A j \in 1..(Len(s) - 1) :
             RemoveAt(s, i)[j] = IF j < i THEN s[j] ELSE s[j + 1]
  <1>1. i \in 1..Len(s) /\ Len(s) \in Nat
    OBVIOUS
  <1>2. PICK u : u = SubSeq(s, 1, i - 1)
    OBVIOUS
  <1>3. PICK v : v = SubSeq(s, i + 1, Len(s))
    OBVIOUS
  <1>4. u \in Seq(S) /\ Len(u) = i - 1 /\ \A j \in 1..(i - 1) : u[j] = s[j]
    BY <1>1, <1>2
  <1>5. v \in Seq(S) /\ Len(v) = Len(s) - i /\ \A j \in 1..(Len(s) - i) : v[j] = s[i + j]
    BY <1>1, <1>3
  <1>6. RemoveAt(s, i) = u \o v
    BY <1>2, <1>3 DEF RemoveAt
  <1>7. u \o v \in Seq(S) /\ Len(u \o v) = Len(s) - 1
    BY <1>1, <1>4, <1>5
  <1>8. ASSUME NEW j \in 1..(Len(s) - 1)
        PROVE (u \o v)[j] = IF j < i THEN s[j] ELSE s[j + 1]
    <2>1. CASE j < i
      BY <1>1, <1>4, <1>5, <2>1
    <2>2. CASE ~(j < i)
      <3>1. (u \o v)[j] = v[j - Len(u)]
        BY <1>1, <1>4, <1>5, <2>2
      <3>2. j - Len(u) \in 1..(Len(s) - i) /\ i + (j - Len(u)) = j + 1
        BY <1>1, <1>4, <2>2
      <3> QED
        BY <1>1, <1>5, <2>2, <3>1, <3>2
    <2> QED
      BY <2>1, <2>2
  <1> QED
    BY <1>6, <1>7, <1>8

-----------------------------------------------------------------------------
(* LessonPlayer: each of its steps keeps the invariant.                     *)

LEMMA PlayerBounds ==
  /\ Duration \in Nat /\ ReportInterval \in Nat /\ MaxLag \in Nat /\ MaxReports \in Nat
  /\ Duration > 0 /\ ReportInterval > 0 /\ MaxLag > 0 /\ MaxReports > 0
  <1>1. \A n \in {Duration, ReportInterval, MaxLag, MaxReports, MaxPlayed} : n \in Nat /\ n # 0
    BY LessonPlayerAssumption
  <1> QED
    BY <1>1

USE PlayerBounds DEF lessonPlayer

LEMMA PlayerInitHolds == LessonPlayerInit => PlayerInv
  <1> SUFFICES ASSUME LessonPlayerInit PROVE PlayerInv
    OBVIOUS
  <1>1. PlayerTyped
    <2>1. sent \in Seq(InFlight) /\ Len(sent) = 0
      BY DEF LessonPlayerInit
    <2>2. /\ stored.watched = 0 /\ stored.position = 0
          /\ stored = [watched |-> stored.watched, position |-> stored.position]
      BY DEF LessonPlayerInit
    <2>3. loop \in [a : {Null} \cup 0..Duration, b : {Null} \cup 0..Duration]
      BY DEF LessonPlayerInit, EmptyLoop
    <2>4. /\ position = 0 /\ lag = 0 /\ currentTime = 0 /\ lastReported = 0 /\ furthest = 0
          /\ reports = 0 /\ playing \in BOOLEAN /\ onLesson \in BOOLEAN
      BY DEF LessonPlayerInit
    <2> QED
      BY <2>1, <2>2, <2>3, <2>4 DEF PlayerTyped, LessonPlayerTypeOK
  <1>2. LoopKept
    BY DEF LessonPlayerInit, LoopKept, EmptyLoop, Null, IsLoopActive
  <1>3. FurthestKnown /\ ReportKept /\ LeftWith
    BY DEF LessonPlayerInit, FurthestKnown, ReportKept, LeftWith
  <1> QED
    BY <1>1, <1>2, <1>3 DEF PlayerInv

\* An active loop that is reached sends the player back to its beginning.
LEMMA SeekFacts ==
  ASSUME PlayerTyped, NEW l \in [a : {Null} \cup 0..Duration, b : {Null} \cup 0..Duration],
         NEW t \in 0..Duration, SeekEffect(l, t)
  PROVE /\ position' \in 0..Duration
        /\ Seeks(l, t) => position' = l.a /\ l.a \in 0..Duration /\ l.b \in 0..Duration
        /\ ~Seeks(l, t) => position' = position
  BY DEF PlayerTyped, LessonPlayerTypeOK, SeekEffect, Seeks, IsLoopActive, Null

\* A report joins those that are under way.
LEMMA ReportFacts ==
  ASSUME PlayerTyped, NEW t \in 1..Duration, Report(t), reports <= MaxReports
  PROVE /\ sent' \in Seq(InFlight) /\ Len(sent') = Len(sent) + 1
        /\ sent'[Len(sent')].seconds = t
        /\ \A i \in DOMAIN sent : i \in DOMAIN sent' /\ sent'[i] = sent[i]
        /\ \A i \in DOMAIN sent' :
             \/ i \in DOMAIN sent /\ sent'[i] = sent[i]
             \/ sent'[i].seconds = t /\ sent'[i].watched = Null
        /\ sent' # <<>> /\ reports' = reports + 1 /\ Len(sent') <= reports'
        /\ Len(sent') <= MaxReports + 1 /\ Len(sent') \in DOMAIN sent'
  <1>1. PICK s \in Seq(InFlight) : s = sent /\ Len(s) <= reports
    BY DEF PlayerTyped, LessonPlayerTypeOK
  <1>2. reports \in Nat /\ MaxReports \in Nat
    BY DEF PlayerTyped
  <1>a. PICK q : q = [seconds |-> t, watched |-> Null]
    OBVIOUS
  <1>b. q \in InFlight /\ q.seconds = t /\ q.watched = Null
    BY <1>a DEF InFlight
  <1>3. sent' = Append(s, q) /\ reports' = reports + 1
    BY <1>1, <1>a DEF Report
  <1> QED
    BY <1>1, <1>2, <1>b, <1>3

\* A new report of a time that was played joins others that say what was played.
LEMMA SaysPlayed ==
  ASSUME PlayerTyped, FurthestKnown, NEW t \in 1..Duration, t <= furthest, UNCHANGED furthest,
         \A i \in DOMAIN sent' :
           \/ i \in DOMAIN sent /\ sent'[i] = sent[i]
           \/ sent'[i].seconds = t /\ sent'[i].watched = Null
  PROVE \A i \in DOMAIN sent' : InFlightOK(sent[i])'
  <1> SUFFICES ASSUME NEW i \in DOMAIN sent' PROVE InFlightOK(sent[i])'
    OBVIOUS
  <1>1. CASE i \in DOMAIN sent /\ sent'[i] = sent[i]
    BY <1>1 DEF FurthestKnown, InFlightOK
  <1>2. CASE sent'[i].seconds = t /\ sent'[i].watched = Null
    BY <1>2 DEF PlayerTyped, InFlightOK, Null
  <1> QED
    BY <1>1, <1>2

LEMMA TimeUpdateKeeps ==
  ASSUME PlayerInv, TimeUpdate
  PROVE PlayerInv'
  <1>0. PlayerTyped /\ LoopKept /\ FurthestKnown /\ ReportKept /\ LeftWith /\ LessonPlayerTypeOK
    BY DEF PlayerInv, PlayerTyped
  <1>1. /\ onLesson /\ lag > 0 /\ currentTime' = position /\ lag' = 0
        /\ UNCHANGED <<playing, loop, onLesson, stored, furthest, played, lost, reordered, atOnce>>
    BY DEF TimeUpdate, playback
  <1>2. PICK t \in 0..Duration : t = position /\ currentTime' = t
    BY <1>0, <1>1 DEF LessonPlayerTypeOK
  <1>3. /\ position' \in 0..Duration
        /\ Seeks(loop, t) => position' = loop.a /\ loop.a \in 0..Duration /\ loop.b \in 0..Duration
        /\ ~Seeks(loop, t) => position' = position
    BY <1>0, <1>2, SeekFacts DEF TimeUpdate, LessonPlayerTypeOK
  <1>a. /\ position' <= t /\ furthest \in 0..Duration /\ t <= furthest
        /\ lastReported \in 0..Duration /\ stored.watched <= furthest
        /\ furthest < lastReported + ReportInterval + MaxLag
    BY <1>0, <1>2, <1>3
       DEF LoopKept, FurthestKnown, PlayerTyped, LessonPlayerTypeOK, Seeks, IsLoopActive, Null
  <1>4. \/ UNCHANGED <<sent, reports, lastReported>> /\ t - lastReported < ReportInterval
        \/ /\ reports < MaxReports /\ Report(t) /\ lastReported' = t
           /\ t >= lastReported + ReportInterval
    BY <1>0, <1>2 DEF TimeUpdate, ReportEffect, LessonPlayerTypeOK
  <1>5. CASE UNCHANGED <<sent, reports, lastReported>> /\ t - lastReported < ReportInterval
    <2>1. PlayerTyped'
      BY <1>0, <1>1, <1>2, <1>3, <1>5 DEF PlayerTyped, LessonPlayerTypeOK
    <2>2. LoopKept'
      BY <1>0, <1>1, <1>2, <1>3 DEF LoopKept, LessonPlayerTypeOK, Seeks, IsLoopActive, Null
    <2>3. FurthestKnown'
      <3>1. \A i \in DOMAIN sent' : InFlightOK(sent[i])'
        BY <1>0, <1>1, <1>5 DEF FurthestKnown, InFlightOK
      <3> QED
        BY <1>0, <1>1, <1>2, <1>3, <1>a, <1>5, <3>1 DEF FurthestKnown
    <2>4. ReportKept' /\ LeftWith'
      BY <1>0, <1>1, <1>5 DEF ReportKept, LeftWith
    <2> QED
      BY <2>1, <2>2, <2>3, <2>4 DEF PlayerInv
  <1>6. CASE /\ reports < MaxReports /\ Report(t) /\ lastReported' = t
             /\ t >= lastReported + ReportInterval
    <2>0. t \in 1..Duration
      BY <1>0, <1>6 DEF LessonPlayerTypeOK
    <2>1. /\ sent' \in Seq(InFlight) /\ Len(sent') = Len(sent) + 1
          /\ sent'[Len(sent')].seconds = t
          /\ \A i \in DOMAIN sent : i \in DOMAIN sent' /\ sent'[i] = sent[i]
          /\ \A i \in DOMAIN sent' :
               \/ i \in DOMAIN sent /\ sent'[i] = sent[i]
               \/ sent'[i].seconds = t /\ sent'[i].watched = Null
          /\ sent' # <<>> /\ reports' = reports + 1 /\ Len(sent') <= reports'
          /\ Len(sent') <= MaxReports + 1 /\ Len(sent') \in DOMAIN sent'
      BY <1>0, <1>6, <2>0, ReportFacts DEF PlayerTyped
    <2>2. PlayerTyped'
      <3>1. LessonPlayerTypeOK'
        BY <1>0, <1>1, <1>2, <1>3, <1>6, <2>1 DEF LessonPlayerTypeOK
      <3>2. reports' \in Nat /\ reports' <= MaxReports
        BY <1>0, <1>6, <2>1 DEF PlayerTyped
      <3> QED
        BY <1>0, <1>1, <2>1, <3>1, <3>2 DEF PlayerTyped
    <2>3. LoopKept'
      BY <1>0, <1>1, <1>2, <1>3 DEF LoopKept, LessonPlayerTypeOK, Seeks, IsLoopActive, Null
    <2>4. FurthestKnown'
      <3>1. \A i \in DOMAIN sent' : InFlightOK(sent[i])'
        BY <1>0, <1>1, <1>2, <1>a, <2>0, <2>1, SaysPlayed
      <3> QED
        BY <1>0, <1>1, <1>2, <1>3, <1>a, <1>6, <3>1 DEF FurthestKnown
    <2>5. ReportKept' /\ LeftWith'
      BY <1>0, <1>1, <1>6, <2>1 DEF ReportKept, LeftWith
    <2> QED
      BY <2>2, <2>3, <2>4, <2>5 DEF PlayerInv
  <1> QED
    BY <1>4, <1>5, <1>6

LEMMA MarkKeeps ==
  ASSUME PlayerInv, NEW l \in [a : {Null} \cup 0..Duration, b : {Null} \cup 0..Duration],
         IsLoopActive(l) => l.a < l.b, Mark(l)
  PROVE PlayerInv'
  <1>0. PlayerTyped /\ LoopKept /\ FurthestKnown /\ ReportKept /\ LeftWith /\ LessonPlayerTypeOK
    BY DEF PlayerInv, PlayerTyped
  <1>1. /\ onLesson /\ loop' = l
        /\ UNCHANGED <<playing, lag, currentTime, lastReported, onLesson, sent, stored, reports,
                       furthest, played, lost, reordered, atOnce>>
    BY DEF Mark, playback
  <1>2. currentTime \in 0..Duration
    BY <1>0 DEF LessonPlayerTypeOK
  <1>3. /\ position' \in 0..Duration
        /\ Seeks(l, currentTime) => position' = l.a /\ l.a \in 0..Duration /\ l.b \in 0..Duration
        /\ ~Seeks(l, currentTime) => position' = position
    BY <1>0, <1>2, SeekFacts DEF Mark
  <1>4. PlayerTyped'
    BY <1>0, <1>1, <1>3 DEF PlayerTyped, LessonPlayerTypeOK
  <1>5. LoopKept'
    BY <1>0, <1>1, <1>3 DEF LoopKept, LessonPlayerTypeOK, Seeks, IsLoopActive, Null
  <1>6. FurthestKnown'
    BY <1>0, <1>1, <1>3
       DEF FurthestKnown, InFlightOK, LoopKept, PlayerTyped, LessonPlayerTypeOK, Seeks, IsLoopActive, Null
  <1>7. ReportKept' /\ LeftWith'
    BY <1>0, <1>1 DEF ReportKept, LeftWith
  <1> QED
    BY <1>4, <1>5, <1>6, <1>7 DEF PlayerInv

LEMMA MarksKeep ==
  ASSUME PlayerInv, MarkLoopA \/ MarkLoopB \/ ClearLoop
  PROVE PlayerInv'
  <1>0. /\ LoopKept /\ currentTime \in 0..Duration
        /\ loop \in [a : {Null} \cup 0..Duration, b : {Null} \cup 0..Duration]
    BY DEF PlayerInv, PlayerTyped, LessonPlayerTypeOK
  <1>1. CASE MarkLoopA
    <2>1. PICK l : l = SetPointA(loop, currentTime)
      OBVIOUS
    <2>2. /\ l \in [a : {Null} \cup 0..Duration, b : {Null} \cup 0..Duration]
          /\ IsLoopActive(l) => l.a < l.b
      BY <1>0, <2>1 DEF SetPointA, IsLoopActive, Null
    <2> QED
      BY <1>1, <2>1, <2>2, MarkKeeps DEF MarkLoopA
  <1>2. CASE MarkLoopB
    <2>1. PICK l : l = SetPointB(loop, currentTime)
      OBVIOUS
    <2>2. /\ l \in [a : {Null} \cup 0..Duration, b : {Null} \cup 0..Duration]
          /\ IsLoopActive(l) => l.a < l.b
      BY <1>0, <2>1 DEF SetPointB, IsLoopActive, Null, LoopKept
    <2> QED
      BY <1>2, <2>1, <2>2, MarkKeeps DEF MarkLoopB
  <1>3. CASE ClearLoop
    <2>1. /\ EmptyLoop \in [a : {Null} \cup 0..Duration, b : {Null} \cup 0..Duration]
          /\ ~IsLoopActive(EmptyLoop)
      BY DEF EmptyLoop, IsLoopActive, Null
    <2> QED
      BY <1>3, <2>1, MarkKeeps DEF ClearLoop
  <1> QED
    BY <1>1, <1>2, <1>3

LEMMA PlayPauseKeeps ==
  ASSUME PlayerInv, PlayPause
  PROVE PlayerInv'
  <1>0. PlayerTyped /\ LoopKept /\ FurthestKnown /\ ReportKept /\ LeftWith /\ LessonPlayerTypeOK
    BY DEF PlayerInv, PlayerTyped
  <1>1. /\ playing' \in BOOLEAN
        /\ UNCHANGED <<position, lag, currentTime, loop, lastReported, onLesson, sent, stored,
                       reports, furthest, played, lost, reordered, atOnce>>
    BY <1>0 DEF PlayPause, playback
  <1>2. PlayerTyped'
    BY <1>0, <1>1 DEF PlayerTyped, LessonPlayerTypeOK
  <1> QED
    BY <1>0, <1>1, <1>2
       DEF PlayerInv, LoopKept, FurthestKnown, InFlightOK, ReportKept, LeftWith, IsLoopActive

LEMMA PlayKeeps ==
  ASSUME PlayerInv, Play
  PROVE PlayerInv'
  <1>0. PlayerTyped /\ LoopKept /\ FurthestKnown /\ ReportKept /\ LeftWith /\ LessonPlayerTypeOK
    BY DEF PlayerInv, PlayerTyped
  <1>1. /\ UNCHANGED <<playing, currentTime, loop, lastReported, onLesson, sent, stored, reports,
                       lost, reordered, atOnce>>
        /\ position < Duration /\ lag < MaxLag
        /\ position' = position + 1 /\ lag' = lag + 1
        /\ furthest' = IF position' > furthest THEN position' ELSE furthest
    BY DEF Play
  <1>2. PlayerTyped'
    BY <1>0, <1>1 DEF PlayerTyped, LessonPlayerTypeOK
  <1>3. LoopKept'
    BY <1>0, <1>1 DEF LoopKept, LessonPlayerTypeOK, IsLoopActive, Null
  <1>4. FurthestKnown'
    <2>1. \A i \in DOMAIN sent : sent[i].seconds \in Nat /\ sent[i].watched \in Int
      <3>1. ASSUME NEW i \in DOMAIN sent PROVE sent[i].seconds \in Nat /\ sent[i].watched \in Int
        <4>1. sent[i] \in InFlight
          BY <1>0 DEF LessonPlayerTypeOK
        <4> QED
          BY <4>1 DEF InFlight, Null
      <3> QED
        BY <3>1
    <2>2. furthest' >= furthest /\ furthest' \in 0..Duration
      BY <1>0, <1>1 DEF PlayerTyped, LessonPlayerTypeOK
    <2>3. \A i \in DOMAIN sent' : InFlightOK(sent[i])'
      BY <1>0, <1>1, <2>1, <2>2 DEF FurthestKnown, InFlightOK, PlayerTyped
    <2> QED
      BY <1>0, <1>1, <2>2, <2>3 DEF FurthestKnown, LoopKept, PlayerTyped, LessonPlayerTypeOK
  <1>5. ReportKept' /\ LeftWith'
    BY <1>0, <1>1 DEF ReportKept, LeftWith
  <1> QED
    BY <1>2, <1>3, <1>4, <1>5 DEF PlayerInv

LEMMA LeaveLessonKeeps ==
  ASSUME PlayerInv, LeaveLesson
  PROVE PlayerInv'
  <1>0. PlayerTyped /\ LoopKept /\ FurthestKnown /\ ReportKept /\ LeftWith /\ LessonPlayerTypeOK
    BY DEF PlayerInv, PlayerTyped
  <1>1. /\ onLesson /\ onLesson' = FALSE /\ playing' = FALSE
        /\ UNCHANGED <<position, lag, currentTime, loop, lastReported, stored, furthest, played,
                       lost, reordered, atOnce>>
    BY DEF LeaveLesson, playback
  <1>2. LoopKept'
    BY <1>0, <1>1 DEF LoopKept, IsLoopActive
  <1>3. CASE currentTime > 0
    <2>0. Report(currentTime) /\ currentTime \in 1..Duration /\ reports <= MaxReports
      BY <1>0, <1>1, <1>3 DEF LeaveLesson, LessonPlayerTypeOK, PlayerTyped
    <2>1. /\ sent' \in Seq(InFlight) /\ Len(sent') = Len(sent) + 1
          /\ sent'[Len(sent')].seconds = currentTime
          /\ \A i \in DOMAIN sent : i \in DOMAIN sent' /\ sent'[i] = sent[i]
          /\ \A i \in DOMAIN sent' :
               \/ i \in DOMAIN sent /\ sent'[i] = sent[i]
               \/ sent'[i].seconds = currentTime /\ sent'[i].watched = Null
          /\ sent' # <<>> /\ reports' = reports + 1 /\ Len(sent') <= reports'
          /\ Len(sent') <= MaxReports + 1 /\ Len(sent') \in DOMAIN sent'
      BY <1>0, <2>0, ReportFacts
    <2>2. PlayerTyped'
      <3>1. LessonPlayerTypeOK'
        BY <1>0, <1>1, <2>1 DEF LessonPlayerTypeOK
      <3>2. reports' \in Nat /\ reports' <= MaxReports + 1
        BY <1>0, <2>0, <2>1 DEF PlayerTyped
      <3> QED
        BY <1>0, <1>1, <2>1, <3>1, <3>2 DEF PlayerTyped
    <2>3. \A i \in DOMAIN sent' : InFlightOK(sent[i])'
      BY <1>0, <1>1, <2>0, <2>1, SaysPlayed DEF FurthestKnown
    <2>4. FurthestKnown'
      BY <1>0, <1>1, <2>3 DEF FurthestKnown
    <2>5. ReportKept' /\ LeftWith'
      BY <1>0, <1>1, <2>1 DEF ReportKept, LeftWith
    <2> QED
      BY <1>2, <2>2, <2>4, <2>5 DEF PlayerInv
  <1>4. CASE ~(currentTime > 0)
    <2>1. UNCHANGED <<sent, reports>>
      BY <1>4 DEF LeaveLesson
    <2>2. PlayerTyped'
      BY <1>0, <1>1, <2>1 DEF PlayerTyped, LessonPlayerTypeOK
    <2>3. FurthestKnown' /\ ReportKept' /\ LeftWith'
      BY <1>0, <1>1, <1>4, <2>1 DEF FurthestKnown, InFlightOK, ReportKept, LeftWith
    <2> QED
      BY <1>2, <2>2, <2>3 DEF PlayerInv
  <1> QED
    BY <1>3, <1>4

\* One report less: the others stay, in their order.
LEMMA RemovedFacts ==
  ASSUME sent \in Seq(InFlight), NEW i \in DOMAIN sent, sent' = RemoveAt(sent, i)
  PROVE /\ sent' \in Seq(InFlight) /\ Len(sent') = Len(sent) - 1 /\ Len(sent) \in Nat
        /\ i \in 1..Len(sent) /\ DOMAIN sent' = 1..(Len(sent) - 1)
        /\ \A j \in DOMAIN sent' : sent'[j] = IF j < i THEN sent[j] ELSE sent[j + 1]
        /\ \A j \in DOMAIN sent' : \E k \in DOMAIN sent : k # i /\ sent'[j] = sent[k]
        /\ \A k \in DOMAIN sent : k # i => \E j \in DOMAIN sent' : sent'[j] = sent[k]
  <1>1. i \in 1..Len(sent) /\ Len(sent) \in Nat /\ DOMAIN sent = 1..Len(sent)
    OBVIOUS
  <1>2. /\ sent' \in Seq(InFlight) /\ Len(sent') = Len(sent) - 1
        /\ \A j \in 1..(Len(sent) - 1) : sent'[j] = IF j < i THEN sent[j] ELSE sent[j + 1]
    BY <1>1, RemoveAtFacts
  <1>3. DOMAIN sent' = 1..(Len(sent) - 1)
    BY <1>1, <1>2
  <1>4. ASSUME NEW j \in DOMAIN sent' PROVE \E k \in DOMAIN sent : k # i /\ sent'[j] = sent[k]
    <2>1. CASE j < i
      <3>1. j \in DOMAIN sent /\ sent'[j] = sent[j] /\ j # i
        BY <1>1, <1>2, <1>3, <2>1
      <3> QED
        BY <3>1
    <2>2. CASE ~(j < i)
      <3>1. j + 1 \in DOMAIN sent /\ sent'[j] = sent[j + 1] /\ j + 1 # i
        BY <1>1, <1>2, <1>3, <2>2
      <3> QED
        BY <3>1
    <2> QED
      BY <2>1, <2>2
  <1>5. ASSUME NEW k \in DOMAIN sent, k # i PROVE \E j \in DOMAIN sent' : sent'[j] = sent[k]
    <2>1. CASE k < i
      <3>1. k \in DOMAIN sent' /\ sent'[k] = sent[k]
        BY <1>1, <1>2, <1>3, <2>1
      <3> QED
        BY <3>1
    <2>2. CASE k > i
      <3>1. k - 1 \in DOMAIN sent' /\ sent'[k - 1] = sent[k]
        BY <1>1, <1>2, <1>3, <2>2
      <3> QED
        BY <3>1
    <2> QED
      BY <1>1, <1>5, <2>1, <2>2
  <1> QED
    BY <1>1, <1>2, <1>3, <1>4, <1>5

LEMMA ReadStoredKeeps ==
  ASSUME PlayerInv, NEW i \in DOMAIN sent, ReadStored(i)
  PROVE PlayerInv'
  <1>0. PlayerTyped /\ LoopKept /\ FurthestKnown /\ ReportKept /\ LeftWith /\ LessonPlayerTypeOK
    BY DEF PlayerInv, PlayerTyped
  <1>1. /\ UNCHANGED <<position, playing, lag, currentTime, loop, lastReported, onLesson, stored,
                       reports, furthest, played, lost, reordered>>
        /\ sent[i].watched = Null
    BY DEF ReadStored, native
  <1>2. /\ stored.watched \in 0..Duration /\ furthest \in 0..Duration /\ stored.watched <= furthest
        /\ lastReported \in 0..Duration
    BY <1>0 DEF LessonPlayerTypeOK, PlayerTyped, FurthestKnown
  <1>3. PICK s \in Seq(InFlight) : /\ s = sent /\ i \in 1..Len(s) /\ Len(s) \in Nat
                                    /\ DOMAIN s = 1..Len(s)
    BY <1>0 DEF LessonPlayerTypeOK
  <1>4. PICK q \in InFlight : q = s[i] /\ q.seconds \in 1..Duration /\ q.seconds <= furthest
    <2>1. s[i] \in InFlight
      BY <1>3
    <2>2. s[i].seconds \in 1..Duration
      BY <2>1 DEF InFlight
    <2> QED
      BY <1>0, <1>3, <2>1, <2>2 DEF FurthestKnown, InFlightOK
  <1>5. PICK w : w = IF q.seconds > stored.watched THEN q.seconds ELSE stored.watched
    OBVIOUS
  <1>6. w \in 0..Duration /\ q.seconds <= w /\ stored.watched <= w /\ w <= furthest /\ w # Null
    BY <1>2, <1>4, <1>5 DEF Null
  <1>7. PICK n : n = [q EXCEPT !.watched = w]
    OBVIOUS
  <1>8. n \in InFlight /\ n.seconds = q.seconds /\ n.watched = w
    BY <1>6, <1>7 DEF InFlight
  <1>9. sent' = [s EXCEPT ![i] = n]
    BY <1>3, <1>4, <1>5, <1>7 DEF ReadStored
  <1>10. /\ sent' \in Seq(InFlight) /\ Len(sent') = Len(s) /\ DOMAIN sent' = DOMAIN s /\ sent'[i] = n
         /\ \A j \in DOMAIN s : j # i => sent'[j] = s[j]
    BY <1>3, <1>8, <1>9
  <1>11. \A j \in DOMAIN s : sent'[j].seconds = s[j].seconds
    BY <1>4, <1>8, <1>10
  <1>12. PlayerTyped'
    <2>1. LessonPlayerTypeOK'
      BY <1>0, <1>1, <1>3, <1>10 DEF LessonPlayerTypeOK
    <2> QED
      BY <1>0, <1>1, <1>3, <1>10, <2>1 DEF PlayerTyped
  <1>13. LoopKept'
    BY <1>0, <1>1 DEF LoopKept, IsLoopActive
  <1>14. FurthestKnown'
    <2>1. ASSUME NEW j \in DOMAIN sent' PROVE InFlightOK(sent[j])'
      <3>1. CASE j = i
        BY <1>1, <1>4, <1>6, <1>8, <1>10, <3>1 DEF InFlightOK
      <3>2. CASE j # i
        BY <1>0, <1>1, <1>3, <1>10, <2>1, <3>2 DEF InFlightOK, FurthestKnown
      <3> QED
        BY <3>1, <3>2
    <2> QED
      BY <1>0, <1>1, <2>1 DEF FurthestKnown
  <1>15. ReportKept'
    <2> SUFFICES ASSUME ~lost, ~atOnce'
                 PROVE /\ \/ lastReported <= stored.watched
                          \/ \E j \in DOMAIN sent' : sent'[j].seconds = lastReported
                       /\ \A j \in DOMAIN sent' : sent'[j].watched # Null =>
                            /\ stored.watched <= sent'[j].watched
                            /\ \A k \in DOMAIN sent' : sent'[k].watched # Null => j = k
      BY <1>1 DEF ReportKept
    <2>1. ~atOnce /\ \A j \in DOMAIN sent : sent[j].watched = Null
      BY DEF ReadStored
    <2>2. \A j \in DOMAIN sent' : sent'[j].watched # Null => j = i
      BY <1>3, <1>10, <2>1
    <2>3. lastReported <= stored.watched \/ \E j \in DOMAIN sent : sent[j].seconds = lastReported
      BY <1>0, <2>1 DEF ReportKept
    <2>4. lastReported <= stored.watched \/ \E j \in DOMAIN sent' : sent'[j].seconds = lastReported
      BY <1>3, <1>10, <1>11, <2>3
    <2> QED
      BY <1>6, <1>8, <1>10, <2>2, <2>4
  <1>16. LeftWith'
    <2>1. (sent' = <<>> <=> sent = <<>>) /\ (sent # <<>> => Len(sent) \in DOMAIN s)
      BY <1>3, <1>10
    <2> QED
      BY <1>0, <1>1, <1>3, <1>10, <1>11, <2>1 DEF LeftWith
  <1> QED
    BY <1>12, <1>13, <1>14, <1>15, <1>16 DEF PlayerInv

LEMMA StoreReportKeeps ==
  ASSUME PlayerInv, NEW i \in DOMAIN sent, StoreReport(i)
  PROVE PlayerInv'
  <1>0. PlayerTyped /\ LoopKept /\ FurthestKnown /\ ReportKept /\ LeftWith /\ LessonPlayerTypeOK
    BY DEF PlayerInv, PlayerTyped
  <1>1. /\ UNCHANGED <<position, playing, lag, currentTime, loop, lastReported, onLesson, reports,
                       furthest, played, lost, atOnce>>
        /\ sent' = RemoveAt(sent, i) /\ reordered' = (reordered \/ i > 1)
        /\ sent[i].watched # Null
    BY DEF StoreReport, native
  <1>2. sent \in Seq(InFlight)
    BY <1>0 DEF LessonPlayerTypeOK
  <1>3. /\ sent[i].seconds \in 1..Duration /\ sent[i].watched \in 0..Duration
        /\ sent[i].seconds <= sent[i].watched /\ sent[i].watched <= furthest
    <2>1. sent[i] \in InFlight
      BY <1>2
    <2> QED
      BY <1>0, <1>1, <2>1 DEF InFlight, FurthestKnown, InFlightOK
  <1>4. /\ stored' = [watched |-> stored'.watched, position |-> stored'.position]
        /\ stored'.watched = sent[i].watched /\ stored'.position = sent[i].seconds
    BY DEF StoreReport
  <1>5. /\ sent' \in Seq(InFlight) /\ Len(sent') = Len(sent) - 1 /\ Len(sent) \in Nat
        /\ i \in 1..Len(sent) /\ DOMAIN sent' = 1..(Len(sent) - 1)
        /\ \A j \in DOMAIN sent' : sent'[j] = IF j < i THEN sent[j] ELSE sent[j + 1]
        /\ \A j \in DOMAIN sent' : \E k \in DOMAIN sent : k # i /\ sent'[j] = sent[k]
        /\ \A k \in DOMAIN sent : k # i => \E j \in DOMAIN sent' : sent'[j] = sent[k]
    BY <1>1, <1>2, RemovedFacts
  <1>6. PlayerTyped'
    <2>1. LessonPlayerTypeOK'
      BY <1>0, <1>1, <1>3, <1>4, <1>5 DEF LessonPlayerTypeOK
    <2>2. reports' \in Nat /\ Len(sent') <= reports'
      BY <1>0, <1>1, <1>5 DEF PlayerTyped
    <2> QED
      BY <1>0, <1>1, <1>4, <2>1, <2>2 DEF PlayerTyped
  <1>7. LoopKept'
    BY <1>0, <1>1 DEF LoopKept, IsLoopActive
  <1>8. FurthestKnown'
    <2>1. \A j \in DOMAIN sent' : InFlightOK(sent[j])'
      BY <1>0, <1>1, <1>5 DEF FurthestKnown, InFlightOK
    <2> QED
      BY <1>0, <1>1, <1>3, <1>4, <2>1 DEF FurthestKnown
  <1>9. ReportKept'
    <2> SUFFICES ASSUME ~lost, ~atOnce
                 PROVE /\ \/ lastReported <= stored'.watched
                          \/ \E j \in DOMAIN sent' : sent'[j].seconds = lastReported
                       /\ \A j \in DOMAIN sent' : sent'[j].watched = Null
      BY <1>1 DEF ReportKept
    <2>1. stored.watched <= sent[i].watched /\ \A k \in DOMAIN sent : sent[k].watched # Null => i = k
      BY <1>0, <1>1 DEF ReportKept
    <2>2. \A j \in DOMAIN sent' : sent'[j].watched = Null
      BY <1>5, <2>1
    <2>3. lastReported \in Nat /\ stored.watched \in Nat
      BY <1>0 DEF LessonPlayerTypeOK
    <2>4. CASE lastReported <= stored.watched
      BY <1>3, <1>4, <2>1, <2>2, <2>3, <2>4
    <2>5. CASE sent[i].seconds = lastReported
      BY <1>3, <1>4, <2>2, <2>3, <2>5
    <2>6. ASSUME NEW k \in DOMAIN sent, k # i, sent[k].seconds = lastReported
          PROVE \E j \in DOMAIN sent' : sent'[j].seconds = lastReported
      BY <1>5, <2>6
    <2> QED
      BY <1>0, <2>2, <2>4, <2>5, <2>6 DEF ReportKept
  <1>10. LeftWith'
    <2> SUFFICES ASSUME ~onLesson, ~lost, ~reordered, ~(i > 1), currentTime > 0
                 PROVE /\ sent' = <<>> => stored'.position = currentTime
                       /\ sent' # <<>> => sent'[Len(sent')].seconds = currentTime
      BY <1>1 DEF LeftWith
    <2>1. i = 1 /\ sent # <<>> /\ sent[Len(sent)].seconds = currentTime
      BY <1>0, <1>5 DEF LeftWith
    <2>2. CASE Len(sent) = 1
      <3>1. sent' = <<>>
        BY <1>5, <2>2
      <3> QED
        BY <1>4, <2>1, <2>2, <3>1
    <2>3. CASE Len(sent) > 1
      <3>1. sent'[Len(sent) - 1] = sent[Len(sent)]
        <4>1. PICK n \in Nat : n = Len(sent)
          BY <1>5
        <4>2. n - 1 \in DOMAIN sent' /\ ~(n - 1 < i) /\ (n - 1) + 1 = n
          BY <1>5, <2>1, <2>3, <4>1
        <4>3. sent'[n - 1] = sent[(n - 1) + 1]
          BY <1>5, <4>2
        <4> QED
          BY <4>1, <4>2, <4>3
      <3>2. sent' # <<>>
        BY <1>5, <2>3
      <3> QED
        BY <1>5, <2>1, <3>1, <3>2
    <2>4. PICK n \in Nat : n = Len(sent) /\ n >= 1
      BY <1>5
    <2>5. n = 1 \/ n > 1
      BY <2>4
    <2> QED
      BY <2>2, <2>3, <2>4, <2>5
  <1> QED
    BY <1>6, <1>7, <1>8, <1>9, <1>10 DEF PlayerInv

LEMMA LoseReportKeeps ==
  ASSUME PlayerInv, NEW i \in DOMAIN sent, LoseReport(i)
  PROVE PlayerInv'
  <1>0. PlayerTyped /\ LoopKept /\ FurthestKnown /\ ReportKept /\ LeftWith /\ LessonPlayerTypeOK
    BY DEF PlayerInv, PlayerTyped
  <1>1. /\ UNCHANGED <<position, playing, lag, currentTime, loop, lastReported, onLesson, stored,
                       reports, furthest, played, reordered, atOnce>>
        /\ sent' = RemoveAt(sent, i) /\ lost' = TRUE
    BY DEF LoseReport, native
  <1>2. /\ sent' \in Seq(InFlight) /\ Len(sent') = Len(sent) - 1 /\ Len(sent) \in Nat
        /\ \A j \in DOMAIN sent' : \E k \in DOMAIN sent : sent'[j] = sent[k]
    BY <1>0, <1>1, RemovedFacts DEF LessonPlayerTypeOK
  <1>3. PlayerTyped'
    BY <1>0, <1>1, <1>2 DEF PlayerTyped, LessonPlayerTypeOK
  <1>4. LoopKept'
    BY <1>0, <1>1 DEF LoopKept, IsLoopActive
  <1>5. \A j \in DOMAIN sent' : InFlightOK(sent[j])'
    BY <1>0, <1>1, <1>2 DEF FurthestKnown, InFlightOK
  <1>6. FurthestKnown'
    BY <1>0, <1>1, <1>5 DEF FurthestKnown
  <1>7. ReportKept' /\ LeftWith'
    BY <1>1 DEF ReportKept, LeftWith
  <1> QED
    BY <1>3, <1>4, <1>6, <1>7 DEF PlayerInv

LEMMA PlayerStepKeeps ==
  ASSUME PlayerInv, [LessonPlayerNext]_lessonPlayer
  PROVE PlayerInv'
  <1>1. ASSUME NEW i \in DOMAIN sent, ReadStored(i) \/ StoreReport(i) \/ LoseReport(i)
        PROVE PlayerInv'
    BY <1>1, ReadStoredKeeps, StoreReportKeeps, LoseReportKeeps
  <1>2. ASSUME UNCHANGED lessonPlayer PROVE PlayerInv'
    <2>1. UNCHANGED <<position, playing, lag, currentTime, loop, lastReported, onLesson, sent,
                      stored, reports, furthest, played, lost, reordered, atOnce>>
      BY <1>2 DEF native, playback
    <2>2. PlayerTyped' /\ LoopKept'
      BY <2>1 DEF PlayerInv, PlayerTyped, LessonPlayerTypeOK, LoopKept, IsLoopActive
    <2>3. FurthestKnown' /\ ReportKept' /\ LeftWith'
      BY <2>1 DEF PlayerInv, FurthestKnown, InFlightOK, ReportKept, LeftWith
    <2> QED
      BY <2>2, <2>3 DEF PlayerInv
  <1> QED
    BY <1>1, <1>2, TimeUpdateKeeps, MarksKeep, PlayPauseKeeps, LeaveLessonKeeps, PlayKeeps
       DEF LessonPlayerNext

\* A step of Parts is a step of the player, or does not touch it.
LEMMA PlayerOfParts == [PartsNext]_parts => [LessonPlayerNext]_lessonPlayer
  BY DEF PartsNext, parts, tools

LEMMA PlayerFollows == PlayerInv => LessonPlayed
  <1> SUFFICES ASSUME PlayerInv PROVE LessonPlayed
    OBVIOUS
  <1>0. PlayerTyped /\ LoopKept /\ FurthestKnown /\ ReportKept /\ LeftWith /\ LessonPlayerTypeOK
    BY DEF PlayerInv, PlayerTyped
  <1>1. LoopHolds
    BY <1>0 DEF LoopHolds, LoopKept, LessonPlayerTypeOK, IsLoopActive, Null
  <1>2. stored.position <= stored.watched /\ stored.watched <= furthest
    BY <1>0 DEF FurthestKnown
  <1>3. ASSUME ~onLesson, sent = <<>>, ~lost
        PROVE /\ ~atOnce => furthest - stored.watched < ReportInterval + MaxLag
              /\ (~reordered /\ currentTime > 0) => stored.position = currentTime
    <2>1. ~atOnce => lastReported <= stored.watched
      BY <1>0, <1>3 DEF ReportKept
    <2>2. ~atOnce => furthest - stored.watched < ReportInterval + MaxLag
      BY <1>0, <2>1 DEF FurthestKnown, PlayerTyped, LessonPlayerTypeOK
    <2> QED
      BY <1>0, <1>3, <2>2 DEF LeftWith
  <1> QED
    BY <1>1, <1>2, <1>3 DEF LessonPlayed, Reported

\* What holds between the player, its hook and the reports that are under way.
THEOREM PlayerInvariant == PartsSpec => []PlayerInv
  <1>1. PartsInit => PlayerInv
    BY PlayerInitHolds DEF PartsInit
  <1>2. PlayerInv /\ [PartsNext]_parts => PlayerInv'
    BY PlayerOfParts, PlayerStepKeeps
  <1> QED
    BY <1>1, <1>2, PTL DEF PartsSpec

\* However a lesson is played, marked and left (use-lesson-player.ts, loop-a-b.ts):
\* an active loop holds the player, and what was played is known to the API but
\* for an interval, unless a report was lost or two of them atOnce in it
\* (progress.service.ts); it never knows more than was played.
THEOREM LessonIsPlayed == PartsSpec => []LessonPlayed
  BY PlayerInvariant, PlayerFollows, PTL

-----------------------------------------------------------------------------
(* The seed.                                                                *)

\* A step of Parts is a step of the seed, or does not touch it.
LEMMA SeedOfParts == [PartsNext]_parts => [SeedNext]_seed
  BY DEF PartsNext, parts, server

\* What every row of the seed keeps of its key and its parent.
THEOREM SeedInvariant == PartsSpec => []SeedInv
  <1>1. PartsInit => SeedInv
    BY SeedInitHolds DEF PartsInit
  <1>2. SeedInv /\ [PartsNext]_parts => SeedInv'
    BY SeedOfParts, SeedKept
  <1> QED
    BY <1>1, <1>2, PTL DEF PartsSpec

\* However often the script (seed.ts) is run, is cut short or meets the API's
\* own writes: a run that nobody disturbed leaves a row of every kind under its
\* parent, there is no second one while no slug was changed, and no upsert takes
\* an administrator's edit back.
THEOREM SeedRepeats == PartsSpec => SeedRepeatable
  <1>1. SeedInv /\ SeedInv' /\ [PartsNext]_parts => [SeedNext]_seed
    BY SeedOfParts
  <1>2. SeedInv => OneOfEach
    BY OneOfEachFollows
  <1>3. SeedInv /\ SeedInv' /\ [SeedNext]_seed =>
          [step = Len(Order) /\ step' = 0 /\ ~crossed' =>
             /\ \A k \in Kind : keyed'[k] # 0
             /\ subscribed'
             /\ ~renamed => \A r \in rows' :
                  Parent(r.kind) # "none" => r.of = keyed'[Parent(r.kind)]]_seed
    BY SeedCompletesStep
  <1>4. SeedInv /\ [SeedNext]_seed => [acts' = acts => altered \subseteq altered']_seed
    BY EditsKeptStep
  <1> QED
    BY <1>1, <1>2, <1>3, <1>4, SeedInvariant, PTL
       DEF PartsSpec, SeedRepeatable, SeedCompletes, EditsKept

-----------------------------------------------------------------------------
(* The tools.                                                               *)

\* A step of Parts is a step of the metronome, or does not touch it.
LEMMA MetronomeOfParts == [PartsNext]_parts => [MetronomeNext]_metronome
  BY DEF PartsNext, parts, tools

\* The ticks of a run are a chain within the lookahead of the clock.
THEOREM MetronomeInvariant == PartsSpec => []MetronomeInv
  <1>1. PartsInit => MetronomeInv
    BY MetronomeInitHolds DEF PartsInit
  <1>2. MetronomeInv /\ [PartsNext]_parts => MetronomeInv'
    BY MetronomeOfParts, MetronomeKept
  <1> QED
    BY <1>1, <1>2, PTL DEF PartsSpec

\* While the scheduler (metronome-engine.ts) is called in time no tick is late,
\* and once stopped nothing sounds beyond the lookahead.
THEOREM InTimeHolds == PartsSpec => []InTime
  BY MetronomeInvariant, InTimeFollows, PTL

\* Under unchanged settings each tick follows the one heard before it by one
\* interval, at the next position of the bar, however late the timer was.
THEOREM GridHolds == PartsSpec => GridKept
  <1>1. [PartsNext]_parts => [MetronomeNext]_metronome
    BY MetronomeOfParts
  <1>2. MetronomeInv /\ [MetronomeNext]_metronome =>
          [(heard' # heard /\ run > 0 /\ heard'[run] # heard[run] /\ steady) =>
             IF heard[run] = NoTick THEN heard'[run].beat = 0 /\ heard'[run].sub = 0
                                    ELSE Follows(heard[run], heard'[run])]_metronome
    BY GridFollows
  <1> QED
    BY <1>1, <1>2, MetronomeInvariant, PTL DEF PartsSpec, GridKept

\* A step of Parts is a step of the tuner, or does not touch it.
LEMMA TunerOfParts == [PartsNext]_parts => [TunerNext]_tuner
  BY DEF PartsNext, parts, tools

\* The captures of the microphone, and the window behind what is shown.
THEOREM TunerInvariant == PartsSpec => []TunerInv
  <1>1. PartsInit => TunerInv
    BY TunerInitHolds DEF PartsInit
  <1>2. TunerInv /\ [PartsNext]_parts => TunerInv'
    BY TunerOfParts, TunerKept
  <1> QED
    BY <1>1, <1>2, PTL DEF PartsSpec

\* A string that is held through a window is the one that is shown, at its own
\* deviation; what the tuner says it listens with is a microphone that is open;
\* and as long as no press crossed another, while the screen is shown one is open
\* exactly when the tuner says so.  Of a screen that was left it says nothing.
THEOREM TunerIsTruthful == PartsSpec => []TunerTruthful
  BY TunerInvariant, TunerFollows, PTL

-----------------------------------------------------------------------------
(* The progress of lessons, and all the parts.                              *)

\* A step of Parts is a step of the progress, or does not touch it.
THEOREM ProgressOfParts == PartsSpec => Spec
  <1>1. PartsInit => Init
    BY DEF PartsInit
  <1>2. [PartsNext]_parts => [Next]_vars
    BY DEF PartsNext, parts, server
  <1> QED
    BY <1>1, <1>2, PTL DEF PartsSpec, Spec

\* The variables of every part keep their types, whichever part is followed.
THEOREM PartsTypesHold == PartsSpec => []PartsTypeOK
  <1>1. RInv => UserRolesTypeOK
    BY DEF RInv, RolesTyped, Handling, UserRolesTypeOK, RolePcs
  <1>2. PlayerInv => LessonPlayerTypeOK
    BY DEF PlayerInv, PlayerTyped
  <1>3. MetronomeInv => MetronomeTypeOK
    BY DEF MetronomeInv, MetronomeTyped
  <1>4. TunerInv => TunerTypeOK
    BY DEF TunerInv
  <1>5. SeedInv => SeedTypeOK
    BY DEF SeedInv
  <1> QED
    BY <1>1, <1>2, <1>3, <1>4, <1>5, ProgressOfParts, TypeCorrect, RolesInvariant,
       PlayerInvariant, MetronomeInvariant, TunerInvariant, SeedInvariant, PTL DEF PartsTypeOK
=============================================================================
