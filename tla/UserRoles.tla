----------------------------- MODULE UserRoles -----------------------------
(***************************************************************************)
(* One account of the API: its registration (UsersService.createStudent),  *)
(* the changes of its roles and status by administrators, the verification *)
(* of its e-mail, and the audit log of them (AuditService).                *)
(*                                                                         *)
(* r \in Handler is a request being handled:                                   *)
(*                                                                         *)
(*   register    check -> create -> mail -> audit                          *)
(*   setRoles    check -> delete -> replace -> after -> audit              *)
(*   setStatus   check -> update -> after -> audit                         *)
(*                                                                         *)
(* The transaction of setRoles runs at READ COMMITTED: its deleteMany      *)
(* finds the rows committed before that statement began, and a row that    *)
(* another transaction deleted, or inserted again, meanwhile is not its    *)
(* own to delete.  createMany fails on a row that is there.                *)
(***************************************************************************)
EXTENDS Integers, Sequences, FiniteSets

LOCAL INSTANCE SequencesExt

CONSTANTS
  Role,          \* the roles of the table
  Handler,           \* slots of requests
  MaxRequests    \* bound: requests ever made

ASSUME UserRolesAssumption ==
  "student" \in Role /\ MaxRequests \in Nat

VARIABLES
  accounts,      \* rows with the e-mail
  roles,         \* user_roles of the account, as committed
  userStatus,    \* UserStatus
  mails,         \* verification mails that wait to be used
  log,           \* audit log: of each action its records, oldest first
  req,           \* requests being handled
  requests,      \* bound: requests made
  winners,       \* history: the roles asked by the changes committed since none was in flight
  disputed       \* history: actions whose requests overlapped, or stopped before their record

userRoles == <<accounts, roles, userStatus, mails, log, req, requests, winners, disputed>>

-----------------------------------------------------------------------------
UserStatus == {"PENDING_VERIFICATION", "ACTIVE", "BLOCKED"}
Actions == {"register", "setRoles", "setStatus"}
Free == [op |-> "none", pc |-> "free", want |-> {}, before |-> {}, after |-> {}]

\* A role or a status, as the set that a record of the log keeps.
Logged == SUBSET (Role \cup UserStatus)
\* The account, its requests and its log.
UserRolesTypeOK ==
  /\ accounts \in 0..1
  /\ roles \subseteq Role /\ userStatus \in UserStatus
  /\ mails \in Nat
  /\ log \in [Actions -> Seq([before : Logged, after : Logged])]
  /\ \A r \in Handler :
       /\ req[r].op \in Actions \cup {"none"}
       /\ req[r].pc \in {"free", "create", "mail", "delete", "replace", "update", "after", "audit"}
       /\ req[r].before \in Logged /\ req[r].after \in Logged

UserRolesInit ==
  /\ accounts = 0 /\ roles = {} /\ userStatus = "PENDING_VERIFICATION"
  /\ mails = 0 /\ log = [a \in Actions |-> <<>>]
  /\ req = [r \in Handler |-> Free] /\ requests = 0
  /\ winners = {} /\ disputed = {}

-----------------------------------------------------------------------------
Busied(op) == {r \in Handler : req[r].op = op}
Goes(r, pc) == req' = [req EXCEPT ![r].pc = pc]

\* The first read of a handler answers, and the request goes on.
Begins(r, rq) ==
  /\ req[r] = Free /\ requests < MaxRequests
  /\ req' = [req EXCEPT ![r] = rq]
  /\ requests' = requests + 1
  /\ disputed' = IF Busied(rq.op) = {} THEN disputed ELSE disputed \cup {rq.op}
  /\ winners' = IF rq.op = "setRoles" /\ Busied("setRoles") = {} THEN {} ELSE winners

\* findByEmail: a known e-mail is refused.
Register(r) ==
  /\ accounts = 0
  /\ Begins(r, [Free EXCEPT !.op = "register", !.pc = "create"])
  /\ UNCHANGED <<accounts, roles, userStatus, mails, log>>

\* user.create, the role with it; the unique column refuses a second row.
Create(r) ==
  /\ req[r].pc = "create"
  /\ IF accounts = 0
       THEN accounts' = 1 /\ roles' = {"student"} /\ Goes(r, "mail")
       ELSE req' = [req EXCEPT ![r] = Free] /\ UNCHANGED <<accounts, roles>>
  /\ UNCHANGED <<userStatus, mails, log, requests, winners, disputed>>

SendEmailVerification(r) ==
  /\ req[r].pc = "mail" /\ Goes(r, "audit")
  /\ mails' = mails + 1
  /\ UNCHANGED <<accounts, roles, userStatus, log, requests, winners, disputed>>

-----------------------------------------------------------------------------
(* setRoles.  An unknown name is refused with no effect, an empty list is   *)
(* not.                                                                     *)

SetRoles(r, names) ==
  /\ accounts = 1
  /\ Begins(r, [Free EXCEPT !.op = "setRoles", !.pc = "delete", !.want = names, !.before = roles])
  /\ UNCHANGED <<accounts, roles, userStatus, mails, log>>

\* Faulty variant: no role is deleted.
FaultyDeleteMany(r) ==
  /\ req[r].pc = "delete"
  /\ req' = [req EXCEPT ![r].pc = "replace", ![r].after = {}]
  /\ UNCHANGED <<accounts, roles, userStatus, mails, log, requests, winners, disputed>>
\* Until the commit, "after" holds the rows that are this transaction's to delete.
DeleteMany(r) ==
  /\ req[r].pc = "delete"
  /\ req' = [req EXCEPT ![r].pc = "replace", ![r].after = roles]
  /\ UNCHANGED <<accounts, roles, userStatus, mails, log, requests, winners, disputed>>

\* createMany and the commit, or the rollback.
CreateMany(r) ==
  LET rq == req[r]
      kept == roles \ rq.after
  IN
  /\ rq.pc = "replace"
  /\ IF rq.want \cap kept = {}
       THEN /\ roles' = kept \cup rq.want
            /\ winners' = winners \cup {rq.want}
            /\ req' = [q \in Handler |->
                 IF q = r THEN [rq EXCEPT !.pc = "after"]
                 ELSE IF req[q].pc = "replace" THEN [req[q] EXCEPT !.after = @ \ rq.after]
                 ELSE req[q]]
       ELSE req' = [req EXCEPT ![r] = Free] /\ UNCHANGED <<roles, winners>>
  /\ UNCHANGED <<accounts, userStatus, mails, log, requests, disputed>>

-----------------------------------------------------------------------------
(* setStatus.                                                               *)

SetStatus(r, status) ==
  /\ accounts = 1
  /\ Begins(r, [Free EXCEPT !.op = "setStatus", !.pc = "update", !.want = {status}, !.before = {userStatus}])
  /\ UNCHANGED <<accounts, roles, userStatus, mails, log>>

UpdateStatus(r) ==
  /\ req[r].pc = "update" /\ Goes(r, "after")
  /\ userStatus' \in req[r].want
  /\ UNCHANGED <<accounts, roles, mails, log, requests, winners, disputed>>

\* markEmailVerified: the account is active, a blocked one too, and no record
\* tells of it.
MarkEmailVerified ==
  /\ mails > 0 /\ mails' = mails - 1
  /\ userStatus' = "ACTIVE"
  /\ disputed' = disputed \cup {"setStatus"}
  /\ UNCHANGED <<accounts, roles, log, req, requests, winners>>

-----------------------------------------------------------------------------
(* What both changes end with.                                              *)

ReadAfter(r) ==
  LET rq == req[r]  IN
  /\ rq.pc = "after"
  /\ req' = [req EXCEPT ![r].pc = "audit",
                        ![r].after = IF rq.op = "setRoles" THEN roles ELSE {userStatus}]
  /\ UNCHANGED <<accounts, roles, userStatus, mails, log, requests, winners, disputed>>

\* The request is answered after its record is stored.
Record(r) ==
  LET rq == req[r]  IN
  /\ rq.pc = "audit"
  /\ log' = [log EXCEPT ![rq.op] = Append(@, [before |-> rq.before, after |-> rq.after])]
  /\ req' = [req EXCEPT ![r] = Free]
  /\ UNCHANGED <<accounts, roles, userStatus, mails, requests, winners, disputed>>

\* The database or the process fails; an open transaction is rolled back.
Abort(r) ==
  /\ req[r] # Free /\ req' = [req EXCEPT ![r] = Free]
  /\ disputed' = disputed \cup {req[r].op}
  /\ UNCHANGED <<accounts, roles, userStatus, mails, log, requests, winners>>

UserRolesNext ==
  \/ \E r \in Handler :
       \/ Register(r) \/ Create(r) \/ SendEmailVerification(r)
       \/ (\E names \in SUBSET Role : SetRoles(r, names))
       \/ DeleteMany(r) \/ CreateMany(r)
       \/ (\E status \in UserStatus : SetStatus(r, status)) \/ UpdateStatus(r)
       \/ ReadAfter(r) \/ Record(r) \/ Abort(r)
  \/ MarkEmailVerified

UserRolesSpec == UserRolesInit /\ [][UserRolesNext]_userRoles

-----------------------------------------------------------------------------
(* Properties.                                                              *)

\* When no change is in flight any more, every role was asked by one of the last
\* changes, and all that one of them asked for are there: exactly the list of a
\* change that no other overlapped, and never a role of an earlier one; changes
\* that overlapped may leave more than either asked for (RolesWhole).
RolesReplaced ==
  (Busied("setRoles") = {} /\ winners # {}) =>
    /\ roles \subseteq UNION winners
    /\ \E names \in winners : names \subseteq roles

\* A change replaces the roles entirely (users.service.ts, setRoles): when none is
\* in flight any more, the roles are the list that one change asked for.
RolesWhole == (Busied("setRoles") = {} /\ winners # {}) => roles \in winners

\* The records of the log follow one another, and the last one tells what the
\* account has, unless two changes overlapped, one stopped before its record, or
\* an e-mail was verified; of the registrations of one e-mail that all found it
\* free, one is recorded.
Current == [setRoles |-> roles, setStatus |-> {userStatus}]
LogFollows ==
  /\ \A a \in DOMAIN Current : a \notin disputed =>
       /\ \A i \in 2..Len(log[a]) : log[a][i].before = log[a][i - 1].after
       /\ (Busied(a) = {} /\ log[a] # <<>>) => Last(log[a]).after = Current[a]
  /\ Len(log["register"]) <= 1

\* The roles are those of the last changes, and the log tells of them.
RolesAndLog == RolesReplaced /\ LogFollows
=============================================================================
