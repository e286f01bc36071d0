------------------------------ MODULE Catalog ------------------------------
(***************************************************************************)
(* The catalogue of apps/api: instruments, their courses, and the modules, *)
(* lessons and materials below a course, with the rules on who sees and    *)
(* who manages them (catalog-visibility.util) and on who may consume what  *)
(* is premium (AccessControlService).                                      *)
(*                                                                         *)
(* r \in Req is an in-flight request.  A service reads a row with all its  *)
(* ancestors in one Prisma call, decides, and only then writes by id or    *)
(* reads again, so a request that reads and then writes has two steps:     *)
(*                                                                         *)
(*   create, update, delete    check -> the write                          *)
(*   list of a parent's rows   check -> the second read -> answered        *)
(*   playback, materials       check -> the entitlement -> answered        *)
(*                                                                         *)
(* The code tells PUBLISHED from the other statuses only, so "HIDDEN"      *)
(* stands for DRAFT and ARCHIVED.  A request that is refused changes       *)
(* nothing and is not modelled unless its write is refused by the database.*)
(***************************************************************************)
EXTENDS FiniteSets

CONSTANTS
  Instrument, Course, Module, Lesson, Material,  \* ids of the five kinds
  User, Admin, Teacher,   \* users; those whose access token names the role
  Subscriber,             \* bound: users who may subscribe
  Req, None               \* request slots; null, or no row

Item == Instrument \cup Course \cup Module \cup Lesson \cup Material

ASSUME CatalogAssumption ==
  /\ Admin \subseteq User /\ Teacher \subseteq User /\ Subscriber \subseteq User
  /\ Instrument \cap (Course \cup Module \cup Lesson \cup Material) = {}
  /\ Course \cap (Module \cup Lesson \cup Material) = {}
  /\ Module \cap (Lesson \cup Material) = {} /\ Lesson \cap Material = {}
  /\ None \notin Item \cup User /\ User \cap Item = {}

VARIABLES
  row,        \* the five tables: the row of an id, or None
  entitled,   \* users whose subscription counts as active (external: Subscriptions)
  req         \* requests in flight, with the history that the properties need

vars == <<row, entitled, req>>

-----------------------------------------------------------------------------
(* Rows and the foreign keys between them.                                  *)

Status == {"PUBLISHED", "HIDDEN"}
Row == [status : Status, parent : Item \cup {None}, teacher : User \cup {None}]
ASSUME RowAssumption == None \notin Row
NewRow(status, parent) == [status |-> status, parent |-> parent, teacher |-> None]

Exists(i) == row[i] # None
IsPublished(i) == Exists(i) /\ row[i].status = "PUBLISHED"
Published == {i \in Item : IsPublished(i)}
ChildrenOf(S) == {j \in Item : Exists(j) /\ row[j].parent \in S}

\* What ON DELETE CASCADE removes with a row, the row included.
Below(i) ==
  LET a == ChildrenOf({i})  b == ChildrenOf(a)  c == ChildrenOf(b)
  IN  {i} \cup a \cup b \cup c \cup ChildrenOf(c)
ParentsOf(S) == {row[j].parent : j \in S \ {None}}
Chain(i) ==
  LET a == {row[i].parent}  b == ParentsOf(a)  c == ParentsOf(b)
  IN  ({i} \cup a \cup b \cup c \cup ParentsOf(c)) \ {None}

-----------------------------------------------------------------------------
(* The rules every service shares.                                          *)

IsAdmin(u) == u \in Admin
IsOwnerOrAdmin(u, c) == IsAdmin(u) \/ row[c].teacher = u
IsInstrumentPublished(i) == row[i].status = "PUBLISHED"
IsCoursePublished(c) == row[c].status = "PUBLISHED" /\ IsInstrumentPublished(row[c].parent)
IsModulePublished(m) == row[m].status = "PUBLISHED" /\ IsCoursePublished(row[m].parent)
IsLessonPublished(l) == row[l].status = "PUBLISHED" /\ IsModulePublished(row[l].parent)

\* RolesGuard: the handlers of each controller that write name the roles they need.
OnlyAdmin == {"admin"}
AdminOrTeacher == {"admin", "teacher"}
RolesGuard(u, required) ==
  \/ "admin" \in required /\ u \in Admin
  \/ "teacher" \in required /\ u \in Teacher

ManagesCourse(u, c) == IsOwnerOrAdmin(u, c)
ManagesModule(u, m) == ManagesCourse(u, row[m].parent)
ManagesLesson(u, l) == ManagesModule(u, row[l].parent)
CourseViewable(u, c) == ManagesCourse(u, c) \/ IsCoursePublished(c)
ModuleViewable(u, m) == ManagesModule(u, m) \/ IsModulePublished(m)
LessonViewable(u, l) == ManagesLesson(u, l) \/ IsLessonPublished(l)

-----------------------------------------------------------------------------
(* Requests.                                                                *)

Idle == [pc |-> "idle", user |-> None, item |-> None, data |-> None, manager |-> FALSE,
         premium |-> FALSE, shown |-> {}, seen |-> {}, paid |-> FALSE, raced |-> FALSE]

Started(u, pc, i, data) ==
  [Idle EXCEPT !.pc = pc, !.user = u, !.item = i, !.data = data]

Begin(r, rq) ==
  /\ req[r] = Idle
  /\ req' = [req EXCEPT ![r] = rq]
  /\ UNCHANGED <<row, entitled>>

\* A uuid that no row has and no request in flight names.
Fresh(i) == ~Exists(i) /\ \A r \in Req : req[r].item # i

\* A dto: the fields that are left undefined are None.
Patch(status) == NewRow(status, None)
\* Faulty variant: what the dto leaves undefined is erased.
FaultyPatched(old, dto) == dto
Patched(old, dto) ==
  [f \in DOMAIN old |-> IF dto[f] = None THEN old[f] ELSE dto[f]]

-----------------------------------------------------------------------------
(* Instruments: written by an admin, checked against the courses.           *)

\* No check but the slug precedes the write: it is the whole request.
CreateInstrument(u, i, status) ==
  /\ RolesGuard(u, OnlyAdmin) /\ Fresh(i)
  /\ row' = [row EXCEPT ![i] = NewRow(status, None)]

UpdateInstrument(u, i, dto) ==
  /\ RolesGuard(u, OnlyAdmin) /\ Exists(i)
  /\ row' = [row EXCEPT ![i] = Patched(@, dto)]

BeginRemoveInstrument(r, u, i) ==
  /\ RolesGuard(u, OnlyAdmin) /\ Exists(i)
  /\ ChildrenOf({i}) = {}
  /\ Begin(r, Started(u, "delete", i, None))

-----------------------------------------------------------------------------
(* Courses: a teacher creates courses of his own, an admin any.             *)

BeginCreateCourse(r, u, c, i, status, teacher) ==
  /\ RolesGuard(u, AdminOrTeacher) /\ Exists(i) /\ Fresh(c)
  /\ (IsAdmin(u) \/ teacher \in {None, u})
  /\ Begin(r, Started(u, "create", c,
       [status |-> status, parent |-> i, teacher |-> IF IsAdmin(u) THEN teacher ELSE u]))

\* Faulty variant: a teacher may give his course to another one.
FaultyBeginUpdateCourse(r, u, c, dto) ==
  /\ RolesGuard(u, AdminOrTeacher) /\ Exists(c)
  /\ ManagesCourse(u, c)
  /\ dto.parent # None => Exists(dto.parent)
  /\ Begin(r, Started(u, "update", c, dto))
BeginUpdateCourse(r, u, c, dto) ==
  /\ RolesGuard(u, AdminOrTeacher) /\ Exists(c)
  /\ ManagesCourse(u, c)
  /\ (IsAdmin(u) \/ dto.teacher = None)
  /\ dto.parent # None => Exists(dto.parent)
  /\ Begin(r, Started(u, "update", c, dto))

\* Faulty variant: a published course may be removed.
FaultyBeginRemoveCourse(r, u, c) ==
  /\ RolesGuard(u, AdminOrTeacher) /\ Exists(c)
  /\ ManagesCourse(u, c)
  /\ Begin(r, Started(u, "delete", c, None))
BeginRemoveCourse(r, u, c) ==
  /\ RolesGuard(u, AdminOrTeacher) /\ Exists(c)
  /\ ManagesCourse(u, c)
  /\ ~IsPublished(c)
  /\ Begin(r, Started(u, "delete", c, None))

-----------------------------------------------------------------------------
(* Modules, lessons and materials: managed by who manages the course.       *)

BeginCreateModule(r, u, m, c, status) ==
  /\ RolesGuard(u, AdminOrTeacher) /\ Exists(c) /\ Fresh(m)
  /\ ManagesCourse(u, c)
  /\ Begin(r, Started(u, "create", m, NewRow(status, c)))

BeginUpdateModule(r, u, m, dto) ==
  /\ RolesGuard(u, AdminOrTeacher) /\ Exists(m)
  /\ ManagesModule(u, m)
  /\ Begin(r, Started(u, "update", m, dto))

BeginRemoveModule(r, u, m) ==
  /\ RolesGuard(u, AdminOrTeacher) /\ Exists(m)
  /\ ManagesModule(u, m)
  /\ ~IsPublished(m)
  /\ Begin(r, Started(u, "delete", m, None))

BeginCreateLesson(r, u, l, m, status) ==
  /\ RolesGuard(u, AdminOrTeacher) /\ Exists(m) /\ Fresh(l)
  /\ ManagesModule(u, m)
  /\ Begin(r, Started(u, "create", l, NewRow(status, m)))

BeginUpdateLesson(r, u, l, dto) ==
  /\ RolesGuard(u, AdminOrTeacher) /\ Exists(l)
  /\ ManagesLesson(u, l)
  /\ Begin(r, Started(u, "update", l, dto))

BeginRemoveLesson(r, u, l) ==
  /\ RolesGuard(u, AdminOrTeacher) /\ Exists(l)
  /\ ManagesLesson(u, l)
  /\ ~IsPublished(l)
  /\ Begin(r, Started(u, "delete", l, None))

\* A material has no status of its own: it is shown with its lesson, and what
\* its update changes is not modelled.
BeginCreateMaterial(r, u, x, l) ==
  /\ RolesGuard(u, AdminOrTeacher) /\ Exists(l) /\ Fresh(x)
  /\ ManagesLesson(u, l)
  /\ Begin(r, Started(u, "create", x, NewRow("PUBLISHED", l)))

BeginRemoveMaterial(r, u, x) ==
  /\ RolesGuard(u, AdminOrTeacher) /\ Exists(x)
  /\ ManagesLesson(u, row[x].parent)
  /\ Begin(r, Started(u, "delete", x, None))

-----------------------------------------------------------------------------
(* The writes, by id, of whatever the row has become.                       *)

\* History: a read remembers what has been published during the request (a
\* course counts with its instrument), a deletion that its row came to be.
Shown == {i \in Item : IsPublished(i) /\ (i \in Course => IsCoursePublished(i))}
Observed(rq) ==
  IF rq.pc = "list" \/ rq.premium
  THEN [rq EXCEPT !.raced = TRUE, !.seen = @ \cup IF rq.manager THEN {} ELSE Shown']
  ELSE IF rq.pc = "delete" /\ rq.item \in Published'
  THEN [rq EXCEPT !.raced = TRUE]
  ELSE rq

\* The request r writes and ends; None stands for a request of one step.
Writes(r) ==
  /\ req' = [q \in Req |-> IF q = r THEN Idle ELSE Observed(req[q])]
  /\ UNCHANGED entitled

\* Faulty variant: no foreign key, only the check that was made before.
FaultyParentThere(data) == TRUE
\* A foreign key that names no row refuses the write.
ParentThere(data) == data.parent # None => Exists(data.parent)

Insert(r) ==
  LET i == req[r].item  data == req[r].data  IN
  /\ req[r].pc = "create"
  /\ row' = IF ParentThere(data) THEN [row EXCEPT ![i] = data] ELSE row
  /\ Writes(r)

Update(r) ==
  LET i == req[r].item  dto == req[r].data  IN
  /\ req[r].pc = "update"
  /\ row' = IF Exists(i) /\ ParentThere(dto) THEN [row EXCEPT ![i] = Patched(@, dto)] ELSE row
  /\ Writes(r)

\* courses.instrument_id is RESTRICT, the foreign keys below it are CASCADE.
Delete(r) ==
  LET i == req[r].item  IN
  /\ req[r].pc = "delete"
  /\ row' = IF i \in Instrument /\ ChildrenOf({i}) # {} THEN row
            ELSE [j \in Item |-> IF j \in Below(i) THEN None ELSE row[j]]
  /\ Writes(r)

-----------------------------------------------------------------------------
(* Reads: the parent first, then its rows or the subscription.              *)

Reading(u, pc, i, manager) ==
  [Started(u, pc, i, None) EXCEPT !.manager = manager, !.seen = IF manager THEN {} ELSE Shown]

BeginListModules(r, u, c) ==
  /\ Exists(c) /\ CourseViewable(u, c)
  /\ Begin(r, Reading(u, "list", c, ManagesCourse(u, c)))

BeginListLessons(r, u, m) ==
  /\ Exists(m) /\ ModuleViewable(u, m)
  /\ Begin(r, Reading(u, "list", m, ManagesModule(u, m)))

\* What is premium is first read with its lesson, then the subscription.
Premium(r, u, pc, l, i) ==
  /\ LessonViewable(u, l)
  /\ Begin(r, [Reading(u, pc, i, ManagesLesson(u, l)) EXCEPT
                 !.premium = TRUE, !.paid = ManagesLesson(u, l) \/ u \in entitled])

BeginListMaterials(r, u, l) == Exists(l) /\ Premium(r, u, "entitleList", l, l)
BeginFindMaterial(r, u, x) == Exists(x) /\ Premium(r, u, "entitleOne", row[x].parent, x)
BeginPlayback(r, u, l) == Exists(l) /\ Premium(r, u, "entitleOne", l, l)

Answered(rq, items) == [rq EXCEPT !.pc = "answered", !.shown = items]

\* Faulty variant: only the answer with a single row asks for a subscription.
FaultyAssertEntitled(r) ==
  LET rq == req[r]  passes == rq.manager \/ rq.user \in entitled  IN
  /\ rq.pc \in {"entitleList", "entitleOne"}
  /\ req' = [req EXCEPT ![r] =
       IF rq.pc = "entitleList" THEN [rq EXCEPT !.pc = "list"]
       ELSE IF ~passes THEN Idle ELSE Answered(rq, {rq.item})]
  /\ UNCHANGED <<row, entitled>>

\* assertEntitled: who manages the course needs no subscription; anyone else without one is refused.
AssertEntitled(r) ==
  LET rq == req[r]  passes == rq.manager \/ rq.user \in entitled  IN
  /\ rq.pc \in {"entitleList", "entitleOne"}
  /\ req' = [req EXCEPT ![r] =
       IF ~passes THEN Idle
       ELSE IF rq.pc = "entitleList" THEN [rq EXCEPT !.pc = "list"]
       ELSE Answered(rq, {rq.item})]
  /\ UNCHANGED <<row, entitled>>

\* The rows below the parent that was checked, with a filter on their own status.
AnswerList(r) ==
  LET rq == req[r]
      items == {j \in ChildrenOf({rq.item}) : rq.manager \/ IsPublished(j)}
  IN  /\ rq.pc = "list"
      /\ req' = [req EXCEPT ![r] = Answered(rq, items)]
      /\ UNCHANGED <<row, entitled>>

\* Instruments and courses are listed by one query.
InstrumentsWhere(u) == {i \in Instrument : Exists(i) /\ (IsAdmin(u) \/ IsPublished(i))}
ListInstruments(r, u) ==
  Begin(r, Answered(Reading(u, "list", None, IsAdmin(u)), InstrumentsWhere(u)))

Managed(u) == {c \in Course : Exists(c) /\ ManagesCourse(u, c)}
VisibilityWhere(u, c) == IsAdmin(u) \/ IsCoursePublished(c) \/ row[c].teacher = u
ListCourses(r, u) ==
  Begin(r, Answered([Reading(u, "list", None, FALSE) EXCEPT !.seen = @ \cup Managed(u)],
                    {c \in Course : Exists(c) /\ VisibilityWhere(u, c)}))

Finish(r) ==
  /\ req[r].pc = "answered"
  /\ req' = [req EXCEPT ![r] = Idle]
  /\ UNCHANGED <<row, entitled>>

\* External: a subscription starts or ends.
SetEntitled(u) ==
  /\ u \in Subscriber
  /\ entitled' = IF u \in entitled THEN entitled \ {u} ELSE entitled \cup {u}
  /\ req' = [q \in Req |-> IF req[q].user = u /\ req[q].premium
                           THEN [req[q] EXCEPT !.paid = TRUE] ELSE req[q]]
  /\ UNCHANGED row

-----------------------------------------------------------------------------
Init ==
  /\ row = [i \in Item |-> None]
  /\ entitled = {}
  /\ req = [r \in Req |-> Idle]

Dto == {Patch(s) : s \in Status}
CourseDto ==
  Dto \cup [status : {None}, parent : Instrument, teacher : {None}]
      \cup [status : {None}, parent : {None}, teacher : User]

OneStep(u) ==
  /\ \E i \in Instrument :
       \/ \E s \in Status : CreateInstrument(u, i, s)
       \/ \E dto \in Dto : UpdateInstrument(u, i, dto)
  /\ Writes(None)

StartOnCourse(r, u) ==
  \E c \in Course :
    \/ \E i \in Instrument, s \in Status, t \in User \cup {None} :
         BeginCreateCourse(r, u, c, i, s, t)
    \/ \E dto \in CourseDto : BeginUpdateCourse(r, u, c, dto)
    \/ BeginRemoveCourse(r, u, c)
    \/ BeginListModules(r, u, c)
    \/ \E m \in Module, s \in Status : BeginCreateModule(r, u, m, c, s)

StartBelow(r, u) ==
  \/ \E m \in Module :
       \/ \E dto \in Dto : BeginUpdateModule(r, u, m, dto)
       \/ BeginRemoveModule(r, u, m)
       \/ BeginListLessons(r, u, m)
       \/ \E l \in Lesson, s \in Status : BeginCreateLesson(r, u, l, m, s)
  \/ \E l \in Lesson :
       \/ \E dto \in Dto : BeginUpdateLesson(r, u, l, dto)
       \/ BeginRemoveLesson(r, u, l)
       \/ BeginListMaterials(r, u, l)
       \/ BeginPlayback(r, u, l)
       \/ \E x \in Material : BeginCreateMaterial(r, u, x, l)
  \/ \E x \in Material : BeginRemoveMaterial(r, u, x) \/ BeginFindMaterial(r, u, x)

Start(r, u) ==
  \/ \E i \in Instrument : BeginRemoveInstrument(r, u, i)
  \/ ListInstruments(r, u)
  \/ ListCourses(r, u)
  \/ StartOnCourse(r, u)
  \/ StartBelow(r, u)

Continue(r) ==
  \/ Insert(r) \/ Update(r) \/ Delete(r)
  \/ AssertEntitled(r) \/ AnswerList(r)

\* An answer is looked at before anything else happens.
Next ==
  \/ \E r \in Req : Finish(r)
  \/ /\ \A r \in Req : req[r].pc # "answered"
     /\ \/ \E u \in User : OneStep(u) \/ SetEntitled(u)
        \/ \E r \in Req : Continue(r) \/ \E u \in User : Start(r, u)

Spec == Init /\ [][Next]_vars

-----------------------------------------------------------------------------
(* Properties.                                                              *)

Pcs == {"idle", "create", "update", "delete", "list", "entitleList", "entitleOne", "answered"}
Data == [status : Status \cup {None}, parent : Item \cup {None}, teacher : User \cup {None}]
Request ==
  [pc : Pcs, user : User \cup {None}, item : Item \cup {None}, data : Data \cup {None},
   manager : BOOLEAN, premium : BOOLEAN, shown : SUBSET Item, seen : SUBSET Item,
   paid : BOOLEAN, raced : BOOLEAN]

\* The rows and the requests are well formed.
TypeOK ==
  /\ row \in [Item -> Row \cup {None}]
  /\ entitled \subseteq User
  /\ req \in [Req -> Request]

\* Whatever is created, moved and removed at once, every row of the catalogue
\* hangs from a row of the kind above it: a count of courses that is stale when
\* the instrument is deleted, or a parent that is gone when a child is
\* inserted, leaves no orphan.
TreeIntact ==
  \A i \in Item : Exists(i) =>
    LET p == row[i].parent IN
    /\ (i \in Instrument) <=> (p = None)
    /\ (i \in Course => p \in Instrument /\ Exists(p))
    /\ (i \in Module => p \in Course /\ Exists(p))
    /\ (i \in Lesson => p \in Module /\ Exists(p))
    /\ (i \in Material => p \in Lesson /\ Exists(p))

\* remove refuses what is published, at each level: so a lesson that students
\* can see never vanishes under them, unless it, or what is above it, was
\* published between the check and the deletion.
VisibleNotDeleted ==
  [][\A l \in Lesson : (Exists(l) /\ IsLessonPublished(l) /\ row'[l] = None) =>
       \E r \in Req : /\ req[r].pc = "delete" /\ l \in Below(req[r].item)
                      /\ req[r].raced]_vars

\* What list, playback and materials show is, link by link up to the course,
\* something the reader could see at some moment of the request, and who is
\* shown something premium had a subscription, or managed the course, at some
\* moment of it.  A list that nothing overlapped shows exactly what its reader
\* may see.
AnswersJustified ==
  \A r \in Req : req[r].pc = "answered" =>
    /\ \A i \in {j \in req[r].shown : Exists(j)} :
         req[r].manager \/ Chain(i) \ (Instrument \ {i}) \subseteq req[r].seen
    /\ (req[r].premium => req[r].paid)
    /\ (~req[r].raced /\ req[r].item \in Course \cup Module) =>
         req[r].shown = {j \in ChildrenOf({req[r].item}) :
                           IF j \in Module THEN ModuleViewable(req[r].user, j)
                           ELSE LessonViewable(req[r].user, j)}

\* A course comes to a teacher other than by an admin only when that teacher
\* creates it, however the updates in flight are ordered.
TeacherByAdmin ==
  [][\A c \in Course : (row'[c] # None /\ row'[c].teacher # None) =>
       \/ Exists(c) /\ row[c].teacher = row'[c].teacher
       \/ \E r \in Req : /\ req[r].item = c /\ req[r].pc \in {"create", "update"}
                         /\ \/ IsAdmin(req[r].user)
                            \/ req[r].pc = "create" /\ req[r].user = row'[c].teacher]_vars
=============================================================================
