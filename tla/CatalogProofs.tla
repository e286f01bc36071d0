--------------------------- MODULE CatalogProofs ---------------------------
(***************************************************************************)
(* For any number of rows of each kind, users and requests in flight: the  *)
(* tree of the catalogue stays whole, what is visible is not deleted, a    *)
(* course changes hands only by an admin, and every answer is justified.   *)
(***************************************************************************)
EXTENDS Catalog, TLAPS

-----------------------------------------------------------------------------
(* The inductive invariant.                                                 *)

\* The kind of row that a row of each kind hangs from.
Fits(i, p) ==
  /\ (i \in Instrument) <=> (p = None)
  /\ i \in Course => p \in Instrument
  /\ i \in Module => p \in Course
  /\ i \in Lesson => p \in Module
  /\ i \in Material => p \in Lesson

\* A material is shown whenever its lesson is.
MaterialsShown == \A x \in Material : Exists(x) => IsPublished(x)

\* What the write of a request relies on, from the check that preceded it.
CreateOK(q) ==
  /\ q.item \in Item \ Instrument /\ q.data \in Row /\ Fits(q.item, q.data.parent)
  /\ ~Exists(q.item)
  /\ q.item \in Material => q.data.status = "PUBLISHED"
  /\ IsAdmin(q.user) \/ q.data.teacher \in {None, q.user}
UpdateOK(q) ==
  /\ q.item \in Item \ Material /\ q.data \in Data
  /\ q.data.parent # None => q.item \in Course /\ q.data.parent \in Instrument
  /\ q.data.teacher # None => IsAdmin(q.user)
DeleteOK(q) ==
  /\ q.item \in Item
  /\ q.item \in Course \cup Module \cup Lesson /\ IsPublished(q.item) => q.raced
WriteOK(q) ==
  /\ q.pc = "create" => CreateOK(q)
  /\ q.pc = "update" => UpdateOK(q)
  /\ q.pc = "delete" => DeleteOK(q)

\* An id that is being created is named by nobody else.
Alone(r) == req[r].pc = "create" => \A s \in Req : req[s].item = req[r].item => s = r

\* A reader has seen what is published, and what was above the row he asked for.
Reads == {"list", "entitleList", "entitleOne"}
Above(i) == Chain(i) \ Instrument
SeenOK(q) ==
  ~q.manager => Shown \subseteq q.seen /\ (Exists(q.item) => Above(q.item) \subseteq q.seen)
PaidOK(q) ==
  q.premium =>
    /\ q.pc = "list" => q.paid
    /\ q.manager \/ q.user \in entitled => q.paid
\* Until something is written, what the check found still holds.
FreshOK(q) ==
  ~q.raced =>
    /\ q.item \in Course =>
         /\ Exists(q.item) /\ (q.manager <=> ManagesCourse(q.user, q.item))
         /\ q.manager \/ IsCoursePublished(q.item)
    /\ q.item \in Module =>
         /\ Exists(q.item) /\ (q.manager <=> ManagesModule(q.user, q.item))
         /\ q.manager \/ IsModulePublished(q.item)
ReadOK(q) ==
  q.pc \in Reads =>
    /\ q.item \in Item \ Instrument
    /\ q.item \in Course \cup Module => q.pc = "list" /\ ~q.premium
    /\ q.pc \in {"entitleList", "entitleOne"} => q.premium
    /\ SeenOK(q) /\ PaidOK(q) /\ FreshOK(q)

CInv ==
  /\ TypeOK /\ TreeIntact /\ MaterialsShown /\ AnswersJustified
  /\ \A r \in Req : WriteOK(req[r]) /\ Alone(r) /\ ReadOK(req[r])

-----------------------------------------------------------------------------
(* What the properties ask of one answer, and steps that write no row.      *)

Justified(q) ==
  q.pc = "answered" =>
    /\ \A i \in {j \in q.shown : Exists(j)} :
         q.manager \/ Chain(i) \ (Instrument \ {i}) \subseteq q.seen
    /\ q.premium => q.paid
    /\ (~q.raced /\ q.item \in Course \cup Module) =>
         q.shown = {j \in ChildrenOf({q.item}) :
                      IF j \in Module THEN ModuleViewable(q.user, j)
                      ELSE LessonViewable(q.user, j)}

LEMMA AnswersAreJustified ==
  AnswersJustified <=> \A r \in Req : Justified(req[r])
  BY DEF AnswersJustified, Justified

LEMMA IdleFacts ==
  /\ Idle \in Request /\ Idle.pc = "idle" /\ Idle.item = None
  /\ ~Idle.premium /\ ~Idle.raced
  BY DEF Idle, Request, Pcs

LEMMA StartedFacts ==
  ASSUME NEW u \in User, NEW pc \in Pcs, NEW i \in Item, NEW data \in Data \cup {None}
  PROVE LET q == Started(u, pc, i, data)
        IN  /\ q \in Request
            /\ q.pc = pc /\ q.user = u /\ q.item = i /\ q.data = data
            /\ ~q.premium /\ ~q.raced
  BY IdleFacts DEF Started, Idle, Request

\* What is said of a request depends on the rows and the subscriptions only.
LEMMA SameRows ==
  ASSUME UNCHANGED row, NEW q
  PROVE /\ WriteOK(q) => WriteOK(q)'
        /\ Justified(q) => Justified(q)'
        /\ UNCHANGED entitled /\ ReadOK(q) => ReadOK(q)'
  <1>1. WriteOK(q) => WriteOK(q)'
    BY DEF WriteOK, CreateOK, UpdateOK, DeleteOK, Exists, IsPublished
  <1>2. Justified(q) => Justified(q)'
    BY DEF Justified, Exists, Chain, ParentsOf, ChildrenOf, ModuleViewable, ManagesModule,
           ManagesCourse, IsOwnerOrAdmin, IsModulePublished, IsCoursePublished,
           IsInstrumentPublished, LessonViewable, ManagesLesson, IsLessonPublished
  <1>3. UNCHANGED entitled /\ ReadOK(q) => ReadOK(q)'
    BY DEF ReadOK, SeenOK, PaidOK, FreshOK, Shown, Above, Exists, IsPublished, Chain,
           ParentsOf, ManagesModule, ManagesCourse, IsOwnerOrAdmin, IsModulePublished,
           IsCoursePublished, IsInstrumentPublished
  <1> QED
    BY <1>1, <1>2, <1>3

LEMMA RowFacts ==
  ASSUME UNCHANGED row
  PROVE (TreeIntact => TreeIntact') /\ (MaterialsShown => MaterialsShown')
  BY DEF TreeIntact, MaterialsShown, Exists, IsPublished

\* A step that only changes request r, to q.
LEMMA OneRequest ==
  ASSUME CInv, NEW r \in Req, NEW q \in Request, req' = [req EXCEPT ![r] = q],
         UNCHANGED <<row, entitled>>,
         WriteOK(q), ReadOK(q), Justified(q),
         \A s \in Req \ {r} : req[s].pc = "create" => req[s].item # q.item,
         q.pc = "create" => \A s \in Req \ {r} : req[s].item # q.item
  PROVE CInv'
  <1>0. /\ TypeOK /\ TreeIntact /\ MaterialsShown
        /\ \A s \in Req : WriteOK(req[s]) /\ Alone(s) /\ ReadOK(req[s]) /\ Justified(req[s])
    BY AnswersAreJustified DEF CInv
  <1>1. /\ TypeOK' /\ req'[r] = q
        /\ \A s \in Req : s # r => req'[s] = req[s]
    BY <1>0 DEF TypeOK
  <1>2. TreeIntact' /\ MaterialsShown'
    BY <1>0, RowFacts
  <1>3. ASSUME NEW s \in Req
        PROVE WriteOK(req'[s]) /\ ReadOK(req'[s]) /\ Justified(req'[s]) /\ Alone(s)'
    BY <1>0, <1>1 DEF Alone
  <1>4. \A s \in Req : WriteOK(req[s])' /\ ReadOK(req[s])' /\ Justified(req[s])'
    <2> TAKE s \in Req
    <2>1. PICK x : x = req'[s]
      OBVIOUS
    <2>2. WriteOK(x) /\ ReadOK(x) /\ Justified(x)
      BY <1>3, <2>1
    <2>3. WriteOK(x)' /\ ReadOK(x)' /\ Justified(x)'
      BY <2>2, SameRows
    <2> QED
      BY <2>1, <2>3
  <1>5. AnswersJustified'
    BY <1>4 DEF AnswersJustified, Justified
  <1> QED
    BY <1>1, <1>2, <1>3, <1>4, <1>5 DEF CInv

-----------------------------------------------------------------------------
(* Requests that begin to write.                                            *)

LEMMA BeginWrite ==
  ASSUME CInv, NEW r \in Req, NEW u \in User, NEW pc \in {"create", "update", "delete"},
         NEW i \in Item, NEW data \in Data \cup {None},
         Begin(r, Started(u, pc, i, data)), WriteOK(Started(u, pc, i, data)),
         pc = "create" => Fresh(i), pc # "create" => Exists(i)
  PROVE CInv'
  <1>1. PICK q : q = Started(u, pc, i, data)
    OBVIOUS
  <1>2. q \in Request /\ q.pc = pc /\ q.item = i /\ WriteOK(q)
    BY <1>1, StartedFacts DEF Pcs
  <1>3. req' = [req EXCEPT ![r] = q] /\ UNCHANGED <<row, entitled>>
    BY <1>1 DEF Begin
  <1>4. ReadOK(q) /\ Justified(q)
    BY <1>2 DEF ReadOK, Reads, Justified
  <1>5. \A s \in Req \ {r} : req[s].pc = "create" => req[s].item # q.item
    BY <1>2 DEF CInv, WriteOK, CreateOK, Fresh
  <1>6. q.pc = "create" => \A s \in Req \ {r} : req[s].item # q.item
    BY <1>2 DEF Fresh
  <1> QED
    BY <1>2, <1>3, <1>4, <1>5, <1>6, OneRequest

LEMMA BeginCreate ==
  ASSUME CInv, NEW r \in Req, NEW u \in User, NEW i \in Item \ Instrument, NEW data \in Row,
         Begin(r, Started(u, "create", i, data)), Fresh(i),
         Fits(i, data.parent), i \in Material => data.status = "PUBLISHED",
         IsAdmin(u) \/ data.teacher \in {None, u}
  PROVE CInv'
  <1>1. data \in Data
    BY DEF Row, Data
  <1>2. WriteOK(Started(u, "create", i, data))
    <2>1. PICK q : q = Started(u, "create", i, data)
      OBVIOUS
    <2>2. q.pc = "create" /\ q.item = i /\ q.data = data /\ q.user = u
      BY <1>1, <2>1, StartedFacts DEF Pcs
    <2>3. WriteOK(q)
      BY <2>2 DEF WriteOK, CreateOK, Fresh
    <2> QED
      BY <2>1, <2>3
  <1> QED
    BY <1>1, <1>2, BeginWrite

LEMMA BeginUpdate ==
  ASSUME CInv, NEW r \in Req, NEW u \in User, NEW i \in Item \ Material, NEW data \in Data,
         Begin(r, Started(u, "update", i, data)), Exists(i),
         data.parent # None => i \in Course /\ data.parent \in Instrument,
         data.teacher # None => IsAdmin(u)
  PROVE CInv'
  <1>1. WriteOK(Started(u, "update", i, data))
    <2>1. PICK q : q = Started(u, "update", i, data)
      OBVIOUS
    <2>2. q.pc = "update" /\ q.item = i /\ q.data = data /\ q.user = u
      BY <2>1, StartedFacts DEF Pcs
    <2>3. WriteOK(q)
      BY <2>2 DEF WriteOK, UpdateOK
    <2> QED
      BY <2>1, <2>3
  <1> QED
    BY <1>1, BeginWrite

LEMMA BeginDelete ==
  ASSUME CInv, NEW r \in Req, NEW u \in User, NEW i \in Item,
         Begin(r, Started(u, "delete", i, None)), Exists(i),
         i \in Course \cup Module \cup Lesson => ~IsPublished(i)
  PROVE CInv'
  <1>1. WriteOK(Started(u, "delete", i, None))
    <2>1. PICK q : q = Started(u, "delete", i, None)
      OBVIOUS
    <2>2. q.pc = "delete" /\ q.item = i
      BY <2>1, StartedFacts DEF Pcs
    <2>3. WriteOK(q)
      BY <2>2 DEF WriteOK, DeleteOK
    <2> QED
      BY <2>1, <2>3
  <1> QED
    BY <1>1, BeginWrite

\* The kinds do not overlap, and null is of none.
LEMMA Kinds ==
  /\ Instrument \subseteq Item /\ Course \subseteq Item /\ Module \subseteq Item
  /\ Lesson \subseteq Item /\ Material \subseteq Item
  /\ None \notin Item /\ None \notin Row /\ None \notin User
  /\ \A i \in Item :
       /\ i \in Instrument => i \notin Course \cup Module \cup Lesson \cup Material
       /\ i \in Course => i \notin Instrument \cup Module \cup Lesson \cup Material
       /\ i \in Module => i \notin Instrument \cup Course \cup Lesson \cup Material
       /\ i \in Lesson => i \notin Instrument \cup Course \cup Module \cup Material
       /\ i \in Material => i \notin Instrument \cup Course \cup Module \cup Lesson
  BY CatalogAssumption, RowAssumption DEF Item

LEMMA NewRowFacts ==
  ASSUME NEW st \in Status, NEW p \in Item \cup {None}
  PROVE LET d == NewRow(st, p)
        IN  d \in Row /\ d.status = st /\ d.parent = p /\ d.teacher = None
  BY DEF NewRow, Row

LEMMA DtoFacts ==
  ASSUME NEW d \in Dto
  PROVE d \in Data /\ d.parent = None /\ d.teacher = None
  BY DEF Dto, Patch, NewRow, Data

LEMMA StartWrites ==
  ASSUME CInv, NEW r \in Req, NEW u \in User,
         \/ \E i \in Instrument : BeginRemoveInstrument(r, u, i)
         \/ \E c \in Course :
              \/ \E i \in Instrument, s \in Status, t \in User \cup {None} :
                   BeginCreateCourse(r, u, c, i, s, t)
              \/ \E dto \in CourseDto : BeginUpdateCourse(r, u, c, dto)
              \/ BeginRemoveCourse(r, u, c)
              \/ \E m \in Module, s \in Status : BeginCreateModule(r, u, m, c, s)
         \/ \E m \in Module :
              \/ \E dto \in Dto : BeginUpdateModule(r, u, m, dto)
              \/ BeginRemoveModule(r, u, m)
              \/ \E l \in Lesson, s \in Status : BeginCreateLesson(r, u, l, m, s)
         \/ \E l \in Lesson :
              \/ \E dto \in Dto : BeginUpdateLesson(r, u, l, dto)
              \/ BeginRemoveLesson(r, u, l)
              \/ \E x \in Material : BeginCreateMaterial(r, u, x, l)
         \/ \E x \in Material : BeginRemoveMaterial(r, u, x)
  PROVE CInv'
  <1>1. ASSUME NEW i \in Instrument, BeginRemoveInstrument(r, u, i) PROVE CInv'
    BY <1>1, BeginDelete, Kinds DEF BeginRemoveInstrument
  <1>2. ASSUME NEW c \in Course, NEW i \in Instrument, NEW s \in Status,
               NEW t \in User \cup {None}, BeginCreateCourse(r, u, c, i, s, t)
        PROVE CInv'
    <2>1. PICK o \in User \cup {None} : o = IF IsAdmin(u) THEN t ELSE u
      OBVIOUS
    <2> DEFINE d == [status |-> s, parent |-> i, teacher |-> o]
    <2>2. d \in Row /\ d.parent = i /\ d.teacher = o
      BY Kinds DEF Row
    <2>3. Begin(r, Started(u, "create", c, d)) /\ Fresh(c)
      BY <1>2, <2>1 DEF BeginCreateCourse
    <2> HIDE DEF d
    <2>4. Fits(c, d.parent) /\ (IsAdmin(u) \/ d.teacher \in {None, u})
      BY <2>1, <2>2, Kinds DEF Fits
    <2> QED
      BY <2>2, <2>3, <2>4, Kinds, BeginCreate
  <1>3. ASSUME NEW c \in Course, NEW dto \in CourseDto, BeginUpdateCourse(r, u, c, dto)
        PROVE CInv'
    <2>1. /\ dto \in Data /\ (dto.parent # None => dto.parent \in Instrument)
      BY Kinds, DtoFacts DEF CourseDto, Data
    <2> QED
      BY <1>3, <2>1, Kinds, BeginUpdate DEF BeginUpdateCourse
  <1>4. ASSUME NEW c \in Course, BeginRemoveCourse(r, u, c) PROVE CInv'
    BY <1>4, Kinds, BeginDelete DEF BeginRemoveCourse
  <1>5. ASSUME NEW c \in Course, NEW m \in Module, NEW s \in Status,
               BeginCreateModule(r, u, m, c, s)
        PROVE CInv'
    <2>1. PICK d : d = NewRow(s, c)
      OBVIOUS
    <2>2. d \in Row /\ d.parent = c /\ d.teacher = None
      BY <2>1, NewRowFacts, Kinds
    <2>3. Begin(r, Started(u, "create", m, d)) /\ Fresh(m)
      BY <1>5, <2>1 DEF BeginCreateModule
    <2>4. Fits(m, d.parent)
      BY <2>2, Kinds DEF Fits
    <2> QED
      BY <2>2, <2>3, <2>4, Kinds, BeginCreate
  <1>6. ASSUME NEW m \in Module, NEW dto \in Dto, BeginUpdateModule(r, u, m, dto)
        PROVE CInv'
    BY <1>6, DtoFacts, Kinds, BeginUpdate DEF BeginUpdateModule
  <1>7. ASSUME NEW m \in Module, BeginRemoveModule(r, u, m) PROVE CInv'
    BY <1>7, Kinds, BeginDelete DEF BeginRemoveModule
  <1>8. ASSUME NEW m \in Module, NEW l \in Lesson, NEW s \in Status,
               BeginCreateLesson(r, u, l, m, s)
        PROVE CInv'
    <2>1. PICK d : d = NewRow(s, m)
      OBVIOUS
    <2>2. d \in Row /\ d.parent = m /\ d.teacher = None
      BY <2>1, NewRowFacts, Kinds
    <2>3. Begin(r, Started(u, "create", l, d)) /\ Fresh(l)
      BY <1>8, <2>1 DEF BeginCreateLesson
    <2>4. Fits(l, d.parent)
      BY <2>2, Kinds DEF Fits
    <2> QED
      BY <2>2, <2>3, <2>4, Kinds, BeginCreate
  <1>9. ASSUME NEW l \in Lesson, NEW dto \in Dto, BeginUpdateLesson(r, u, l, dto)
        PROVE CInv'
    BY <1>9, DtoFacts, Kinds, BeginUpdate DEF BeginUpdateLesson
  <1>10. ASSUME NEW l \in Lesson, BeginRemoveLesson(r, u, l) PROVE CInv'
    BY <1>10, Kinds, BeginDelete DEF BeginRemoveLesson
  <1>11. ASSUME NEW x \in Material, NEW l \in Lesson, BeginCreateMaterial(r, u, x, l)
         PROVE CInv'
    <2>1. PICK d : d = NewRow("PUBLISHED", l)
      OBVIOUS
    <2>2. d \in Row /\ d.parent = l /\ d.teacher = None /\ d.status = "PUBLISHED"
      BY <2>1, NewRowFacts, Kinds DEF Status
    <2>3. Begin(r, Started(u, "create", x, d)) /\ Fresh(x)
      BY <1>11, <2>1 DEF BeginCreateMaterial
    <2>4. Fits(x, d.parent)
      BY <2>2, Kinds DEF Fits
    <2> QED
      BY <2>2, <2>3, <2>4, Kinds, BeginCreate
  <1>12. ASSUME NEW x \in Material, BeginRemoveMaterial(r, u, x) PROVE CInv'
    BY <1>12, Kinds, BeginDelete DEF BeginRemoveMaterial
  <1> QED
    BY <1>1, <1>2, <1>3, <1>4, <1>5, <1>6, <1>7, <1>8, <1>9, <1>10, <1>11, <1>12

-----------------------------------------------------------------------------
(* The tree above a row.                                                    *)

LEMMA ParentsOfOne ==
  /\ ParentsOf({}) = {} /\ ParentsOf({None}) = {}
  /\ \A p : p # None => ParentsOf({p}) = {row[p].parent}
  BY DEF ParentsOf

\* Four rows, or three and null, each the parent of the one before.
LEMMA LongChain ==
  ASSUME NEW i,
         LET a == row[i].parent  b == row[a].parent  c == row[b].parent
         IN  a # None /\ b # None /\ c # None
  PROVE LET a == row[i].parent  b == row[a].parent  c == row[b].parent
        IN  Chain(i) = {i, a, b, c, row[c].parent} \ {None}
  <1>1. PICK a, b, c, d : a = row[i].parent /\ b = row[a].parent /\ c = row[b].parent
                          /\ d = row[c].parent
    OBVIOUS
  <1>2. {row[i].parent} = {a} /\ ParentsOf({a}) = {b} /\ ParentsOf({b}) = {c}
        /\ ParentsOf({c}) = {d}
    BY <1>1, ParentsOfOne
  <1>3. Chain(i) = ({i} \cup {a} \cup {b} \cup {c} \cup {d}) \ {None}
    BY <1>2 DEF Chain
  <1> QED
    BY <1>1, <1>3

LEMMA ChainFacts ==
  ASSUME TreeIntact, NEW i \in Item, Exists(i)
  PROVE /\ i \in Instrument => Chain(i) = {i}
        /\ i \in Course => Above(i) = {i}
        /\ i \in Module => Above(i) = {i, row[i].parent}
        /\ i \in Lesson => Above(i) = {i, row[i].parent, row[row[i].parent].parent}
        /\ i \in Material => Above(i) =
             {i, row[i].parent, row[row[i].parent].parent, row[row[row[i].parent].parent].parent}
  <1>1. CASE i \in Instrument
    <2>1. row[i].parent = None
      BY <1>1 DEF TreeIntact
    <2>2. Chain(i) = {i}
      BY <2>1, ParentsOfOne, Kinds DEF Chain
    <2> QED
      BY <1>1, <2>2, Kinds
  <1>2. CASE i \in Course
    <2>1. PICK a \in Instrument : a = row[i].parent /\ row[a].parent = None
      BY <1>2, Kinds DEF TreeIntact
    <2>2. Chain(i) = {i, a}
      BY <2>1, ParentsOfOne, Kinds DEF Chain
    <2> QED
      BY <1>2, <2>1, <2>2, Kinds DEF Above
  <1>3. CASE i \in Module
    <2>1. PICK a \in Course : a = row[i].parent /\ Exists(a)
      BY <1>3, Kinds DEF TreeIntact
    <2>2. PICK b \in Instrument : b = row[a].parent /\ row[b].parent = None
      BY <2>1, Kinds DEF TreeIntact
    <2>3. Chain(i) = {i, a, b}
      BY <2>1, <2>2, ParentsOfOne, Kinds DEF Chain
    <2> QED
      BY <1>3, <2>1, <2>2, <2>3, Kinds DEF Above
  <1>4. CASE i \in Lesson
    <2>1. PICK a \in Module : a = row[i].parent /\ Exists(a)
      BY <1>4, Kinds DEF TreeIntact
    <2>2. PICK b \in Course : b = row[a].parent /\ Exists(b)
      BY <2>1, Kinds DEF TreeIntact
    <2>3. PICK c \in Instrument : c = row[b].parent /\ row[c].parent = None
      BY <2>2, Kinds DEF TreeIntact
    <2>4. Chain(i) = {i, a, b, c}
      <3>1. Chain(i) = {i, a, b, c, None} \ {None}
        BY <2>1, <2>2, <2>3, LongChain, Kinds
      <3> QED
        BY <3>1, <2>1, <2>2, <2>3, Kinds
    <2> QED
      BY <1>4, <2>1, <2>2, <2>3, <2>4, Kinds DEF Above
  <1>5. CASE i \in Material
    <2>1. PICK a \in Lesson : a = row[i].parent /\ Exists(a)
      BY <1>5, Kinds DEF TreeIntact
    <2>2. PICK b \in Module : b = row[a].parent /\ Exists(b)
      BY <2>1, Kinds DEF TreeIntact
    <2>3. PICK c \in Course : c = row[b].parent /\ Exists(c)
      BY <2>2, Kinds DEF TreeIntact
    <2>4. PICK d \in Instrument : d = row[c].parent
      BY <2>3, Kinds DEF TreeIntact
    <2>5. Chain(i) = {i, a, b, c, d}
      <3>1. i # None /\ a # None /\ b # None /\ c # None /\ d # None
        BY Kinds
      <3>2. /\ a = row[i].parent /\ b = row[a].parent
            /\ c = row[b].parent /\ d = row[c].parent
        BY <2>1, <2>2, <2>3, <2>4
      <3>3. Chain(i) = {i, a, b, c, d} \ {None}
        BY <3>1, <3>2, LongChain
      <3> QED
        BY <3>1, <3>3
    <2>6. Above(i) = {i, a, b, c}
      BY <1>5, <2>5, Kinds DEF Above
    <2> QED
      BY <1>5, <2>1, <2>2, <2>3, <2>6, Kinds
  <1> QED
    BY <1>1, <1>2, <1>3, <1>4, <1>5 DEF Item

\* A published row is one of those shown, and so is all that is above it.
LEMMA PublishedAbove ==
  ASSUME TypeOK, TreeIntact, MaterialsShown
  PROVE /\ \A c \in Course : Exists(c) /\ IsCoursePublished(c) => Above(c) \subseteq Shown
        /\ \A m \in Module : Exists(m) /\ IsModulePublished(m) => Above(m) \subseteq Shown
        /\ \A l \in Lesson : Exists(l) /\ IsLessonPublished(l) => Above(l) \subseteq Shown
        /\ \A x \in Material : Exists(x) /\ IsLessonPublished(row[x].parent) =>
             Above(x) \subseteq Shown
  <1>1. ASSUME NEW c \in Course, Exists(c), IsCoursePublished(c) PROVE c \in Shown
    BY <1>1, Kinds DEF IsCoursePublished, IsInstrumentPublished, Shown, IsPublished
  <1>2. ASSUME NEW m \in Module, Exists(m), IsModulePublished(m)
        PROVE /\ m \in Shown /\ row[m].parent \in Course
              /\ Exists(row[m].parent) /\ IsCoursePublished(row[m].parent)
    BY <1>2, Kinds DEF IsModulePublished, Shown, IsPublished, TreeIntact
  <1>3. ASSUME NEW l \in Lesson, Exists(l), IsLessonPublished(l)
        PROVE /\ l \in Shown /\ row[l].parent \in Module
              /\ Exists(row[l].parent) /\ IsModulePublished(row[l].parent)
    BY <1>3, Kinds DEF IsLessonPublished, Shown, IsPublished, TreeIntact
  <1>4. ASSUME NEW x \in Material, Exists(x), IsLessonPublished(row[x].parent)
        PROVE x \in Shown /\ row[x].parent \in Lesson /\ Exists(row[x].parent)
    BY <1>4, Kinds DEF MaterialsShown, Shown, IsPublished, TreeIntact
  <1>5. \A c \in Course : Exists(c) /\ IsCoursePublished(c) => Above(c) \subseteq Shown
    BY <1>1, ChainFacts, Kinds
  <1>6. \A m \in Module : Exists(m) /\ IsModulePublished(m) => Above(m) \subseteq Shown
    BY <1>1, <1>2, ChainFacts, Kinds
  <1>7. \A l \in Lesson : Exists(l) /\ IsLessonPublished(l) => Above(l) \subseteq Shown
    <2> SUFFICES ASSUME NEW l \in Lesson, Exists(l), IsLessonPublished(l)
                 PROVE Above(l) \subseteq Shown
      OBVIOUS
    <2>1. l \in Shown /\ row[l].parent \in Shown /\ row[row[l].parent].parent \in Shown
      BY <1>1, <1>2, <1>3
    <2> QED
      BY <2>1, ChainFacts, Kinds
  <1>8. \A x \in Material : Exists(x) /\ IsLessonPublished(row[x].parent) =>
          Above(x) \subseteq Shown
    <2> SUFFICES ASSUME NEW x \in Material, Exists(x), IsLessonPublished(row[x].parent)
                 PROVE Above(x) \subseteq Shown
      OBVIOUS
    <2>1. PICK l \in Lesson : l = row[x].parent /\ Exists(l) /\ IsLessonPublished(l)
      BY <1>4
    <2>2. /\ x \in Shown /\ l \in Shown /\ row[l].parent \in Shown
          /\ row[row[l].parent].parent \in Shown
      BY <1>1, <1>2, <1>3, <1>4, <2>1
    <2> QED
      BY <2>1, <2>2, ChainFacts, Kinds
  <1> QED
    BY <1>5, <1>6, <1>7, <1>8

-----------------------------------------------------------------------------
(* Requests that begin to read.                                             *)

LEMMA BeginRead ==
  ASSUME CInv, NEW r \in Req, NEW q \in Request, Begin(r, q),
         q.pc \in Reads, Exists(q.item), ReadOK(q)
  PROVE CInv'
  <1>1. req' = [req EXCEPT ![r] = q] /\ UNCHANGED <<row, entitled>>
    BY DEF Begin
  <1>2. WriteOK(q) /\ Justified(q)
    BY DEF WriteOK, Reads, Justified
  <1>3. \A s \in Req \ {r} : req[s].pc = "create" => req[s].item # q.item
    BY DEF CInv, WriteOK, CreateOK
  <1> QED
    BY <1>1, <1>2, <1>3, OneRequest DEF Reads

LEMMA ReadingFacts ==
  ASSUME NEW u \in User, NEW pc \in Reads, NEW i \in Item \cup {None}, NEW m \in BOOLEAN
  PROVE LET q == Reading(u, pc, i, m)
        IN  /\ q \in Request
            /\ q.pc = pc /\ q.item = i /\ q.user = u /\ q.manager = m
            /\ ~q.premium /\ ~q.paid /\ ~q.raced
            /\ q.seen = IF m THEN {} ELSE Shown
  <1>1. PICK x \in Request : x = Started(u, pc, i, None)
    BY DEF Started, Idle, Request, Reads, Pcs
  <1>2. /\ x.pc = pc /\ x.item = i /\ x.user = u
        /\ ~x.premium /\ ~x.paid /\ ~x.raced
    BY <1>1 DEF Started, Idle
  <1>3. PICK S \in SUBSET Item : S = IF m THEN {} ELSE Shown
    BY DEF Shown
  <1>4. Reading(u, pc, i, m) = [x EXCEPT !.manager = m, !.seen = S]
    BY <1>1, <1>3 DEF Reading
  <1> QED
    BY <1>1, <1>2, <1>3, <1>4 DEF Request

LEMMA StartListModules ==
  ASSUME CInv, NEW r \in Req, NEW u \in User, NEW c \in Course, BeginListModules(r, u, c)
  PROVE CInv'
  <1>0. TypeOK /\ TreeIntact /\ MaterialsShown
    BY DEF CInv
  <1>1. PICK m \in BOOLEAN : m = ManagesCourse(u, c)
    BY DEF ManagesCourse, IsOwnerOrAdmin, IsAdmin
  <1>2. PICK q : q = Reading(u, "list", c, m)
    OBVIOUS
  <1>3. Exists(c) /\ (m \/ IsCoursePublished(c)) /\ Begin(r, q)
    BY <1>1, <1>2 DEF BeginListModules, CourseViewable
  <1>4. /\ q \in Request /\ q.pc = "list" /\ q.item = c /\ q.user = u /\ q.manager = m
        /\ ~q.premium /\ (~m => q.seen = Shown)
    BY <1>2, ReadingFacts, Kinds DEF Reads
  <1>5. SeenOK(q)
    BY <1>0, <1>3, <1>4, PublishedAbove DEF SeenOK
  <1>6. FreshOK(q)
    BY <1>1, <1>3, <1>4, Kinds DEF FreshOK
  <1>7. ReadOK(q)
    BY <1>4, <1>5, <1>6, Kinds DEF ReadOK, PaidOK
  <1> QED
    BY <1>3, <1>4, <1>7, BeginRead DEF Reads

LEMMA StartListLessons ==
  ASSUME CInv, NEW r \in Req, NEW u \in User, NEW m \in Module, BeginListLessons(r, u, m)
  PROVE CInv'
  <1>0. TypeOK /\ TreeIntact /\ MaterialsShown
    BY DEF CInv
  <1>1. PICK b \in BOOLEAN : b = ManagesModule(u, m)
    BY DEF ManagesModule, ManagesCourse, IsOwnerOrAdmin, IsAdmin
  <1>2. PICK q : q = Reading(u, "list", m, b)
    OBVIOUS
  <1>3. Exists(m) /\ (b \/ IsModulePublished(m)) /\ Begin(r, q)
    BY <1>1, <1>2 DEF BeginListLessons, ModuleViewable
  <1>4. /\ q \in Request /\ q.pc = "list" /\ q.item = m /\ q.user = u /\ q.manager = b
        /\ ~q.premium /\ (~b => q.seen = Shown)
    BY <1>2, ReadingFacts, Kinds DEF Reads
  <1>5. SeenOK(q)
    BY <1>0, <1>3, <1>4, PublishedAbove DEF SeenOK
  <1>6. FreshOK(q)
    BY <1>1, <1>3, <1>4, Kinds DEF FreshOK
  <1>7. ReadOK(q)
    BY <1>4, <1>5, <1>6, Kinds DEF ReadOK, PaidOK
  <1> QED
    BY <1>3, <1>4, <1>7, BeginRead DEF Reads

\* What is premium is a lesson, or a material of it.
LEMMA StartPremium ==
  ASSUME CInv, NEW r \in Req, NEW u \in User, NEW pc \in {"entitleList", "entitleOne"},
         NEW l \in Lesson, NEW i \in Lesson \cup Material, Exists(l), Exists(i),
         i = l \/ (i \in Material /\ row[i].parent = l),
         Premium(r, u, pc, l, i)
  PROVE CInv'
  <1>0. TypeOK /\ TreeIntact /\ MaterialsShown
    BY DEF CInv
  <1>1. PICK b \in BOOLEAN : b = ManagesLesson(u, l)
    BY DEF ManagesLesson, ManagesModule, ManagesCourse, IsOwnerOrAdmin, IsAdmin
  <1>2. PICK p \in BOOLEAN : p = (ManagesLesson(u, l) \/ u \in entitled)
    OBVIOUS
  <1>3. PICK x : x = Reading(u, pc, i, b)
    OBVIOUS
  <1>4. PICK q : q = [x EXCEPT !.premium = TRUE, !.paid = p]
    OBVIOUS
  <1>5. /\ x \in Request /\ x.pc = pc /\ x.item = i /\ x.user = u /\ x.manager = b
        /\ (~b => x.seen = Shown)
    BY <1>3, ReadingFacts, Kinds DEF Reads
  <1>6. /\ q \in Request /\ q.pc = pc /\ q.item = i /\ q.user = u /\ q.manager = b
        /\ q.premium /\ q.paid = p /\ (~b => q.seen = Shown)
    BY <1>4, <1>5 DEF Request
  <1>7. (b \/ IsLessonPublished(l)) /\ Begin(r, q)
    BY <1>1, <1>2, <1>3, <1>4 DEF Premium, LessonViewable
  <1>8. SeenOK(q)
    BY <1>0, <1>6, <1>7, PublishedAbove, Kinds DEF SeenOK
  <1>9. FreshOK(q) /\ PaidOK(q)
    BY <1>1, <1>2, <1>6, Kinds DEF FreshOK, PaidOK
  <1>10. ReadOK(q)
    BY <1>6, <1>8, <1>9, Kinds DEF ReadOK
  <1> QED
    BY <1>6, <1>7, <1>10, BeginRead DEF Reads

LEMMA BeginAnswered ==
  ASSUME CInv, NEW r \in Req, NEW q \in Request, Begin(r, q),
         q.pc = "answered", q.item = None, Justified(q)
  PROVE CInv'
  <1>1. req' = [req EXCEPT ![r] = q] /\ UNCHANGED <<row, entitled>>
    BY DEF Begin
  <1>2. WriteOK(q) /\ ReadOK(q)
    BY DEF WriteOK, ReadOK, Reads
  <1>3. \A s \in Req \ {r} : req[s].pc = "create" => req[s].item # q.item
    BY Kinds DEF CInv, WriteOK, CreateOK
  <1> QED
    BY <1>1, <1>2, <1>3, OneRequest

LEMMA StartListInstruments ==
  ASSUME CInv, NEW r \in Req, NEW u \in User, ListInstruments(r, u)
  PROVE CInv'
  <1>0. TypeOK /\ TreeIntact /\ MaterialsShown
    BY DEF CInv
  <1>1. PICK b \in BOOLEAN : b = IsAdmin(u)
    <2>1. IsAdmin(u) \in BOOLEAN
      BY DEF IsAdmin
    <2> QED
      BY <2>1
  <1>2. PICK x : x = Reading(u, "list", None, b)
    OBVIOUS
  <1>3. PICK S : S = InstrumentsWhere(u)
    OBVIOUS
  <1>4. PICK q : q = [x EXCEPT !.pc = "answered", !.shown = S]
    OBVIOUS
  <1>5. /\ x \in Request /\ x.item = None /\ x.manager = b
        /\ ~x.premium /\ (~b => x.seen = Shown)
    BY <1>2, ReadingFacts DEF Reads
  <1>6. S \in SUBSET Item
    BY <1>3, Kinds DEF InstrumentsWhere
  <1>7. /\ q \in Request /\ q.pc = "answered" /\ q.item = None /\ q.manager = b
        /\ ~q.premium /\ (~b => q.seen = Shown) /\ q.shown = S
    BY <1>4, <1>5, <1>6 DEF Request, Pcs
  <1>8. Begin(r, q)
    BY <1>1, <1>2, <1>3, <1>4 DEF ListInstruments, Answered
  <1>9. ASSUME NEW i \in S, Exists(i), ~b PROVE Chain(i) \ (Instrument \ {i}) \subseteq q.seen
    <2>1. i \in Instrument /\ i \in Item /\ IsPublished(i) /\ i \notin Course
      BY <1>1, <1>3, <1>9, Kinds DEF InstrumentsWhere
    <2>2. Chain(i) = {i} /\ i \in Shown
      BY <1>0, <1>9, <2>1, ChainFacts DEF Shown
    <2> QED
      BY <1>7, <1>9, <2>2
  <1>10. Justified(q)
    BY <1>7, <1>9, Kinds DEF Justified
  <1> QED
    BY <1>7, <1>8, <1>10, BeginAnswered

LEMMA StartListCourses ==
  ASSUME CInv, NEW r \in Req, NEW u \in User, ListCourses(r, u)
  PROVE CInv'
  <1>0. TypeOK /\ TreeIntact /\ MaterialsShown
    BY DEF CInv
  <1>1. PICK x : x = Reading(u, "list", None, FALSE)
    OBVIOUS
  <1>2. PICK S : S = {c \in Course : Exists(c) /\ VisibilityWhere(u, c)}
    OBVIOUS
  <1>3. PICK T : T = x.seen \cup Managed(u)
    OBVIOUS
  <1>4. PICK y : y = [x EXCEPT !.seen = T]
    OBVIOUS
  <1>5. PICK q : q = [y EXCEPT !.pc = "answered", !.shown = S]
    OBVIOUS
  <1>6. x \in Request /\ x.item = None /\ ~x.premium /\ x.seen = Shown
    <2>1. PICK b \in BOOLEAN : b = FALSE
      OBVIOUS
    <2>2. x = Reading(u, "list", None, b)
      BY <1>1, <2>1
    <2> QED
      BY <2>1, <2>2, ReadingFacts DEF Reads
  <1>7. S \in SUBSET Item /\ T \in SUBSET Item /\ T = Shown \cup Managed(u)
    BY <1>2, <1>3, <1>6, Kinds DEF Managed, Shown
  <1>8. y \in Request /\ y.item = None /\ ~y.premium /\ y.seen = T
    BY <1>4, <1>6, <1>7 DEF Request
  <1>9. /\ q \in Request /\ q.pc = "answered" /\ q.item = None
        /\ ~q.premium /\ q.seen = T /\ q.shown = S
    BY <1>5, <1>7, <1>8 DEF Request, Pcs
  <1>10. Begin(r, q)
    <2>1. y = [x EXCEPT !.seen = @ \cup Managed(u)]
      BY <1>3, <1>4, <1>6 DEF Request
    <2> QED
      BY <1>1, <1>2, <1>5, <2>1 DEF ListCourses, Answered
  <1>11. ASSUME NEW i \in S, Exists(i) PROVE Chain(i) \ (Instrument \ {i}) \subseteq q.seen
    <2>1. i \in Course /\ i \in Item /\ i \notin Instrument
      BY <1>2, Kinds
    <2>2. Above(i) = {i}
      BY <1>0, <1>11, <2>1, ChainFacts
    <2>3. i \in Shown \cup Managed(u)
      BY <1>2, <1>11, <2>1
         DEF VisibilityWhere, Managed, ManagesCourse, IsOwnerOrAdmin, Shown, IsPublished,
             IsCoursePublished
    <2> QED
      BY <1>7, <1>9, <2>1, <2>2, <2>3 DEF Above
  <1>12. Justified(q)
    BY <1>9, <1>11, Kinds DEF Justified
  <1> QED
    BY <1>9, <1>10, <1>12, BeginAnswered

-----------------------------------------------------------------------------
(* Requests that read on and answer.                                        *)

LEMMA AboveChild ==
  ASSUME TreeIntact, NEW i \in Item, Exists(i), i \notin Instrument \cup Course
  PROVE /\ row[i].parent \in Item /\ Exists(row[i].parent)
        /\ row[i].parent \notin Instrument
        /\ Above(i) = {i} \cup Above(row[i].parent)
  <1>1. CASE i \in Module
    <2>1. PICK a \in Course : a = row[i].parent /\ Exists(a)
      BY <1>1, Kinds DEF TreeIntact
    <2>2. Above(i) = {i, a} /\ Above(a) = {a}
      BY <1>1, <2>1, ChainFacts, Kinds
    <2> QED
      BY <2>1, <2>2, Kinds
  <1>2. CASE i \in Lesson
    <2>1. PICK a \in Module : a = row[i].parent /\ Exists(a)
      BY <1>2, Kinds DEF TreeIntact
    <2>2. Above(i) = {i, a, row[a].parent} /\ Above(a) = {a, row[a].parent}
      BY <1>2, <2>1, ChainFacts, Kinds
    <2> QED
      BY <2>1, <2>2, Kinds
  <1>3. CASE i \in Material
    <2>1. PICK a \in Lesson : a = row[i].parent /\ Exists(a)
      BY <1>3, Kinds DEF TreeIntact
    <2>2. /\ Above(i) = {i, a, row[a].parent, row[row[a].parent].parent}
          /\ Above(a) = {a, row[a].parent, row[row[a].parent].parent}
      BY <1>3, <2>1, ChainFacts, Kinds
    <2> QED
      BY <2>1, <2>2, Kinds
  <1> QED
    BY <1>1, <1>2, <1>3 DEF Item

\* What a list shows is what its reader may see.
LEMMA ListIsRight ==
  ASSUME TypeOK, TreeIntact, NEW q \in Request, q.pc = "list", ReadOK(q), ~q.raced,
         q.item \in Course \cup Module
  PROVE {j \in ChildrenOf({q.item}) : q.manager \/ IsPublished(j)} =
        {j \in ChildrenOf({q.item}) : IF j \in Module THEN ModuleViewable(q.user, j)
                                      ELSE LessonViewable(q.user, j)}
  <1>1. FreshOK(q)
    BY DEF ReadOK, Reads
  <1>2. SUFFICES ASSUME NEW j \in Item, Exists(j), row[j].parent = q.item
                 PROVE (q.manager \/ IsPublished(j)) <=>
                         IF j \in Module THEN ModuleViewable(q.user, j)
                         ELSE LessonViewable(q.user, j)
    BY Zenon DEF ChildrenOf
  <1>3. CASE q.item \in Course
    <2>1. j \in Module
      BY <1>2, <1>3, Kinds DEF TreeIntact, Item
    <2>2. /\ q.manager <=> ManagesCourse(q.user, q.item)
          /\ q.manager \/ IsCoursePublished(q.item)
      BY <1>1, <1>3 DEF FreshOK
    <2>3. IsPublished(j) <=> row[j].status = "PUBLISHED"
      BY <1>2 DEF IsPublished
    <2> QED
      BY <1>2, <2>1, <2>2, <2>3 DEF ModuleViewable, ManagesModule, IsModulePublished
  <1>4. CASE q.item \in Module
    <2>1. j \notin Module
      BY <1>2, <1>4, Kinds DEF TreeIntact
    <2>2. /\ q.manager <=> ManagesModule(q.user, q.item)
          /\ q.manager \/ IsModulePublished(q.item)
      BY <1>1, <1>4 DEF FreshOK
    <2>3. IsPublished(j) <=> row[j].status = "PUBLISHED"
      BY <1>2 DEF IsPublished
    <2> QED
      BY <1>2, <2>1, <2>2, <2>3 DEF LessonViewable, ManagesLesson, IsLessonPublished
  <1> QED
    BY <1>3, <1>4

\* A request in flight goes on as q, which names the same row.
LEMMA GoesOn ==
  ASSUME CInv, NEW r \in Req, NEW q \in Request, req' = [req EXCEPT ![r] = q],
         UNCHANGED <<row, entitled>>, req[r].pc \in Reads, q.item = req[r].item,
         q.pc \in {"list", "answered"}, ReadOK(q), Justified(q)
  PROVE CInv'
  <1>1. \A s \in Req \ {r} : req[s].pc = "create" => req[s].item # q.item
    BY DEF CInv, Alone
  <1>2. WriteOK(q)
    BY DEF WriteOK
  <1> QED
    BY <1>1, <1>2, OneRequest

LEMMA BecomesIdle ==
  ASSUME CInv, NEW r \in Req, req' = [req EXCEPT ![r] = Idle], UNCHANGED <<row, entitled>>
  PROVE CInv'
  <1>1. \A s \in Req \ {r} : req[s].pc = "create" => req[s].item # Idle.item
    BY Kinds, IdleFacts DEF CInv, WriteOK, CreateOK
  <1>2. WriteOK(Idle) /\ ReadOK(Idle) /\ Justified(Idle)
    BY IdleFacts DEF WriteOK, ReadOK, Reads, Justified
  <1> QED
    BY <1>1, <1>2, IdleFacts, OneRequest

LEMMA AnswerListKeeps ==
  ASSUME CInv, NEW r \in Req, AnswerList(r)
  PROVE CInv'
  <1>0. TypeOK /\ TreeIntact /\ MaterialsShown
    BY DEF CInv
  <1>1. PICK x \in Request : x = req[r] /\ x.pc = "list" /\ ReadOK(x)
    BY DEF CInv, TypeOK, AnswerList
  <1>2. PICK S : S = {j \in ChildrenOf({x.item}) : x.manager \/ IsPublished(j)}
    OBVIOUS
  <1>3. PICK q : q = [x EXCEPT !.pc = "answered", !.shown = S]
    OBVIOUS
  <1>4. S \in SUBSET Item
    BY <1>2 DEF ChildrenOf
  <1>5. /\ q \in Request /\ q.pc = "answered" /\ q.shown = S
        /\ q.item = x.item /\ q.manager = x.manager /\ q.premium = x.premium
        /\ q.paid = x.paid /\ q.seen = x.seen /\ q.raced = x.raced /\ q.user = x.user
    BY <1>3, <1>4 DEF Request, Pcs
  <1>6. req' = [req EXCEPT ![r] = q] /\ UNCHANGED <<row, entitled>>
    BY <1>1, <1>2, <1>3 DEF AnswerList, Answered
  <1>7. x.item \in Item \ Instrument /\ SeenOK(x) /\ PaidOK(x)
    BY <1>1 DEF ReadOK, Reads
  <1>8. ASSUME NEW i \in S, Exists(i), ~x.manager
        PROVE Chain(i) \ (Instrument \ {i}) \subseteq x.seen
    <2>1. i \in Item /\ row[i].parent = x.item /\ IsPublished(i)
      BY <1>2, <1>8 DEF ChildrenOf
    <2>2. i \notin Instrument \cup Course
      BY <1>0, <1>7, <1>8, <2>1, Kinds DEF TreeIntact
    <2>3. Exists(x.item) /\ Above(i) = {i} \cup Above(x.item)
      BY <1>0, <1>8, <2>1, <2>2, AboveChild
    <2>4. i \in Shown
      BY <2>1, <2>2 DEF Shown
    <2>5. Above(i) \subseteq x.seen
      BY <1>7, <1>8, <2>3, <2>4 DEF SeenOK
    <2> QED
      BY <2>2, <2>5 DEF Above
  <1>9. (~x.raced /\ x.item \in Course \cup Module) =>
           S = {j \in ChildrenOf({x.item}) :
                  IF j \in Module THEN ModuleViewable(x.user, j)
                  ELSE LessonViewable(x.user, j)}
    BY <1>0, <1>1, <1>2, ListIsRight
  <1>10. Justified(q)
    BY <1>1, <1>5, <1>7, <1>8, <1>9 DEF Justified, PaidOK
  <1>11. ReadOK(q)
    BY <1>5 DEF ReadOK, Reads
  <1> QED
    BY <1>1, <1>5, <1>6, <1>10, <1>11, GoesOn DEF Reads

LEMMA AssertEntitledKeeps ==
  ASSUME CInv, NEW r \in Req, AssertEntitled(r)
  PROVE CInv'
  <1>0. TypeOK /\ TreeIntact /\ MaterialsShown
    BY DEF CInv
  <1>1. PICK x \in Request : /\ x = req[r] /\ x.pc \in {"entitleList", "entitleOne"}
                             /\ ReadOK(x)
    BY DEF CInv, TypeOK, AssertEntitled
  <1>2. /\ x.item \in Item \ Instrument /\ x.item \notin Course \cup Module
        /\ x.premium /\ SeenOK(x) /\ PaidOK(x)
    BY <1>1 DEF ReadOK, Reads
  <1>3. UNCHANGED <<row, entitled>>
    BY DEF AssertEntitled
  <1>4. CASE ~(x.manager \/ x.user \in entitled)
    <2>1. req' = [req EXCEPT ![r] = Idle]
      BY <1>1, <1>4 DEF AssertEntitled
    <2> QED
      BY <1>3, <2>1, BecomesIdle
  <1>5. CASE (x.manager \/ x.user \in entitled) /\ x.pc = "entitleList"
    <2>1. PICK q : q = [x EXCEPT !.pc = "list"]
      OBVIOUS
    <2>2. req' = [req EXCEPT ![r] = q]
      BY <1>1, <1>5, <2>1 DEF AssertEntitled
    <2>3. /\ q \in Request /\ q.pc = "list"
          /\ q.item = x.item /\ q.manager = x.manager /\ q.premium = x.premium
          /\ q.paid = x.paid /\ q.seen = x.seen /\ q.raced = x.raced /\ q.user = x.user
      BY <2>1 DEF Request, Pcs
    <2>4. ReadOK(q)
      BY <1>2, <1>5, <2>3 DEF ReadOK, SeenOK, PaidOK, FreshOK
    <2>5. Justified(q)
      BY <2>3 DEF Justified
    <2> QED
      BY <1>1, <1>3, <2>2, <2>3, <2>4, <2>5, GoesOn DEF Reads
  <1>6. CASE (x.manager \/ x.user \in entitled) /\ x.pc = "entitleOne"
    <2>1. PICK q : q = [x EXCEPT !.pc = "answered", !.shown = {x.item}]
      OBVIOUS
    <2>2. req' = [req EXCEPT ![r] = q]
      BY <1>1, <1>6, <2>1 DEF AssertEntitled, Answered
    <2>3. /\ q \in Request /\ q.pc = "answered" /\ q.shown = {x.item}
          /\ q.item = x.item /\ q.manager = x.manager /\ q.premium = x.premium
          /\ q.paid = x.paid /\ q.seen = x.seen /\ q.raced = x.raced /\ q.user = x.user
      BY <1>2, <2>1 DEF Request, Pcs
    <2>4. ReadOK(q)
      BY <2>3 DEF ReadOK, Reads
    <2>5. Exists(x.item) /\ ~x.manager => Chain(x.item) \ (Instrument \ {x.item}) \subseteq x.seen
      BY <1>2 DEF SeenOK, Above
    <2>6. Justified(q)
      BY <1>2, <1>6, <2>3, <2>5 DEF Justified, PaidOK
    <2> QED
      BY <1>1, <1>3, <2>2, <2>3, <2>4, <2>6, GoesOn DEF Reads
  <1> QED
    BY <1>1, <1>4, <1>5, <1>6

LEMMA FinishKeeps ==
  ASSUME CInv, NEW r \in Req, Finish(r)
  PROVE CInv'
  BY BecomesIdle DEF Finish

LEMMA SetEntitledKeeps ==
  ASSUME CInv, NEW u \in User, SetEntitled(u)
  PROVE CInv'
  <1>0. /\ TypeOK /\ TreeIntact /\ MaterialsShown
        /\ \A s \in Req : WriteOK(req[s]) /\ Alone(s) /\ ReadOK(req[s]) /\ Justified(req[s])
    BY AnswersAreJustified DEF CInv
  <1>1. UNCHANGED row /\ entitled' \in SUBSET User
        /\ \A v : v # u => (v \in entitled' <=> v \in entitled)
    BY <1>0 DEF SetEntitled, TypeOK
  <1>2. ASSUME NEW s \in Req
        PROVE \E y \in Request :
                /\ req'[s] = y /\ y.pc = req[s].pc /\ y.item = req[s].item
                /\ WriteOK(y)' /\ ReadOK(y)' /\ Justified(y)'
    <2>1. PICK x \in Request : x = req[s]
      BY <1>0 DEF TypeOK
    <2>2. WriteOK(x) /\ ReadOK(x) /\ Justified(x)
      BY <1>0, <2>1
    <2>3. PICK y : y = IF x.user = u /\ x.premium THEN [x EXCEPT !.paid = TRUE] ELSE x
      OBVIOUS
    <2>4. /\ y \in Request /\ y.pc = x.pc /\ y.item = x.item /\ y.user = x.user
          /\ y.data = x.data /\ y.manager = x.manager /\ y.premium = x.premium
          /\ y.seen = x.seen /\ y.shown = x.shown /\ y.raced = x.raced
          /\ (y.paid <=> x.paid \/ (x.user = u /\ x.premium))
      BY <2>3 DEF Request
    <2>5. req'[s] = y
      BY <2>1, <2>3 DEF SetEntitled
    <2>6. WriteOK(y) /\ Justified(y)
      BY <2>2, <2>4 DEF WriteOK, CreateOK, UpdateOK, DeleteOK, Justified
    <2>7. WriteOK(y)' /\ Justified(y)'
      BY <1>1, <2>6, SameRows
    <2>8. ReadOK(y)'
      <3>1. y.pc \in Reads =>
              /\ y.item \in Item \ Instrument
              /\ y.item \in Course \cup Module => y.pc = "list" /\ ~y.premium
              /\ y.pc \in {"entitleList", "entitleOne"} => y.premium
              /\ SeenOK(y) /\ FreshOK(y) /\ PaidOK(x)
        BY <2>2, <2>4 DEF ReadOK, SeenOK, FreshOK
      <3>2. SeenOK(y) => SeenOK(y)'
        BY <1>1 DEF SeenOK, Shown, Above, Exists, IsPublished, Chain, ParentsOf,
                    IsCoursePublished, IsInstrumentPublished
      <3>3. FreshOK(y) => FreshOK(y)'
        BY <1>1 DEF FreshOK, Exists, ManagesModule, ManagesCourse, IsOwnerOrAdmin,
                    IsModulePublished, IsCoursePublished, IsInstrumentPublished
      <3>4. PaidOK(x) => PaidOK(y)'
        BY <1>1, <2>4 DEF PaidOK
      <3> QED
        BY <3>1, <3>2, <3>3, <3>4 DEF ReadOK
    <2> QED
      BY <2>1, <2>4, <2>5, <2>7, <2>8
  <1>3. TypeOK'
    <2>1. \A s \in Req : req'[s] \in Request
      BY <1>2
    <2>2. req' \in [Req -> Request]
      BY <2>1 DEF SetEntitled
    <2> QED
      BY <1>0, <1>1, <2>2 DEF TypeOK
  <1>4. TreeIntact' /\ MaterialsShown'
    BY <1>0, <1>1, RowFacts
  <1>5. \A s \in Req : Alone(s)'
    <2>1. \A s \in Req : req'[s].pc = req[s].pc /\ req'[s].item = req[s].item
      BY <1>2
    <2> QED
      BY <1>0, <2>1 DEF Alone
  <1>6. \A s \in Req : WriteOK(req[s])' /\ ReadOK(req[s])' /\ Justified(req[s])'
    <2> TAKE s \in Req
    <2>1. PICK y : y = req'[s] /\ WriteOK(y)' /\ ReadOK(y)' /\ Justified(y)'
      BY <1>2
    <2> QED
      BY <2>1
  <1>7. AnswersJustified'
    BY <1>6 DEF AnswersJustified, Justified
  <1> QED
    BY <1>3, <1>4, <1>5, <1>6, <1>7 DEF CInv

-----------------------------------------------------------------------------
(* Steps that write rows: what the other requests make of them.             *)

\* What is above each row.
AboveIs ==
  \A i \in Item : Exists(i) =>
    /\ i \in Course => Above(i) = {i}
    /\ i \in Module => Above(i) = {i, row[i].parent}
    /\ i \in Lesson => Above(i) = {i, row[i].parent, row[row[i].parent].parent}
    /\ i \in Material => Above(i) =
         {i, row[i].parent, row[row[i].parent].parent, row[row[row[i].parent].parent].parent}

LEMMA AboveRule == TreeIntact => AboveIs
  BY ChainFacts DEF AboveIs

LEMMA AboveRuleNext == TreeIntact' => AboveIs'
  BY AboveRule, PTL

\* Only courses move.
ParentsKept ==
  \A i \in Item \ (Instrument \cup Course) :
    Exists(i) /\ Exists(i)' => row'[i].parent = row[i].parent

LEMMA AboveKept ==
  ASSUME TreeIntact, TreeIntact', ParentsKept, NEW i \in Item \ Instrument,
         Exists(i), Exists(i)'
  PROVE Above(i)' = Above(i)
  <1>0. AboveIs /\ AboveIs'
    BY AboveRule, AboveRuleNext
  <1>1. CASE i \in Course
    BY <1>0, <1>1 DEF AboveIs
  <1>2. CASE i \in Module
    <2>1. row'[i].parent = row[i].parent
      BY <1>2, Kinds DEF ParentsKept
    <2> QED
      BY <1>0, <1>2, <2>1 DEF AboveIs
  <1>3. CASE i \in Lesson
    <2>1. row'[i].parent = row[i].parent
      BY <1>3, Kinds DEF ParentsKept
    <2>2. PICK a \in Module : a = row[i].parent /\ Exists(a) /\ Exists(a)'
      BY <1>3, <2>1 DEF TreeIntact
    <2>3. row'[a].parent = row[a].parent
      BY <2>2, Kinds DEF ParentsKept
    <2>4. Above(i) = {i, a, row[a].parent} /\ Above(i)' = {i, a, row'[a].parent}
      BY <1>0, <1>3, <2>1, <2>2 DEF AboveIs
    <2> QED
      BY <2>3, <2>4
  <1>4. CASE i \in Material
    <2>1. row'[i].parent = row[i].parent
      BY <1>4, Kinds DEF ParentsKept
    <2>2. PICK a \in Lesson : a = row[i].parent /\ Exists(a) /\ Exists(a)'
      BY <1>4, <2>1 DEF TreeIntact
    <2>3. row'[a].parent = row[a].parent
      BY <2>2, Kinds DEF ParentsKept
    <2>4. PICK b \in Module : b = row[a].parent /\ Exists(b) /\ Exists(b)'
      BY <2>2, <2>3, Kinds DEF TreeIntact
    <2>5. row'[b].parent = row[b].parent
      BY <2>4, Kinds DEF ParentsKept
    <2>6. Above(i) = {i, a, b, row[b].parent} /\ Above(i)' = {i, a, b, row'[b].parent}
      BY <1>0, <1>4, <2>1, <2>2, <2>3, <2>4 DEF AboveIs
    <2> QED
      BY <2>5, <2>6
  <1> QED
    BY <1>1, <1>2, <1>3, <1>4 DEF Item

\* What a request notices of a write.
LEMMA ObservedFacts ==
  ASSUME NEW x \in Request
  PROVE \E y \in Request :
          /\ y = Observed(x)
          /\ y.pc = x.pc /\ y.user = x.user /\ y.item = x.item /\ y.data = x.data
          /\ y.manager = x.manager /\ y.premium = x.premium /\ y.paid = x.paid
          /\ (x.pc = "list" \/ x.premium) => y.raced /\ x.seen \subseteq y.seen
          /\ (x.pc = "list" \/ x.premium) /\ ~x.manager => Shown' \subseteq y.seen
          /\ x.pc = "delete" /\ x.item \in Published' => y.raced
          /\ x.raced => y.raced
  <1>1. CASE x.pc = "list" \/ x.premium
    <2>1. PICK S \in SUBSET Item : S = x.seen \cup IF x.manager THEN {} ELSE Shown'
      BY DEF Shown, Request
    <2>2. PICK z : z = [x EXCEPT !.raced = TRUE]
      OBVIOUS
    <2>3. /\ z \in Request /\ z.pc = x.pc /\ z.user = x.user /\ z.item = x.item
          /\ z.data = x.data /\ z.manager = x.manager /\ z.premium = x.premium
          /\ z.paid = x.paid /\ z.raced /\ z.seen = x.seen
      BY <2>2 DEF Request
    <2>4. PICK y : y = [z EXCEPT !.seen = S]
      OBVIOUS
    <2>5. /\ y \in Request /\ y.pc = x.pc /\ y.user = x.user /\ y.item = x.item
          /\ y.data = x.data /\ y.manager = x.manager /\ y.premium = x.premium
          /\ y.paid = x.paid /\ y.raced /\ y.seen = S
      BY <2>3, <2>4 DEF Request
    <2>6. y = Observed(x)
      BY <1>1, <2>1, <2>2, <2>3, <2>4 DEF Observed, Request
    <2> QED
      BY <2>1, <2>5, <2>6
  <1>2. CASE ~(x.pc = "list" \/ x.premium)
    <2>1. PICK y : y = IF x.pc = "delete" /\ x.item \in Published'
                       THEN [x EXCEPT !.raced = TRUE] ELSE x
      OBVIOUS
    <2>2. /\ y \in Request /\ y.pc = x.pc /\ y.user = x.user /\ y.item = x.item
          /\ y.data = x.data /\ y.manager = x.manager /\ y.premium = x.premium
          /\ y.paid = x.paid /\ (x.raced => y.raced)
          /\ x.pc = "delete" /\ x.item \in Published' => y.raced
      BY <2>1 DEF Request
    <2>3. y = Observed(x)
      BY <1>2, <2>1 DEF Observed
    <2> QED
      BY <1>2, <2>2, <2>3
  <1> QED
    BY <1>1, <1>2

LEMMA RowsChange ==
  ASSUME CInv, NEW r, Writes(r), \A s \in Req : req[s].pc # "answered",
         row' \in [Item -> Row \cup {None}], TreeIntact', MaterialsShown', ParentsKept,
         \A i \in Item : Exists(i)' /\ ~Exists(i) => \A s \in Req \ {r} : req[s].item # i
  PROVE CInv'
  <1>0. /\ TypeOK /\ TreeIntact /\ MaterialsShown
        /\ \A s \in Req : WriteOK(req[s]) /\ Alone(s) /\ ReadOK(req[s])
    BY DEF CInv
  <1>1. UNCHANGED entitled
    BY DEF Writes
  <1>2. ASSUME NEW s \in Req, s # r
        PROVE \E y \in Request :
                /\ req'[s] = y /\ y.pc = req[s].pc /\ y.item = req[s].item
                /\ WriteOK(y)' /\ ReadOK(y)'
    <2>1. PICK x \in Request : x = req[s]
      BY <1>0 DEF TypeOK
    <2>2. WriteOK(x) /\ ReadOK(x)
      BY <1>0, <2>1
    <2>3. PICK y \in Request :
          /\ y = Observed(x)
          /\ y.pc = x.pc /\ y.user = x.user /\ y.item = x.item /\ y.data = x.data
          /\ y.manager = x.manager /\ y.premium = x.premium /\ y.paid = x.paid
          /\ (x.pc = "list" \/ x.premium) => y.raced /\ x.seen \subseteq y.seen
          /\ (x.pc = "list" \/ x.premium) /\ ~x.manager => Shown' \subseteq y.seen
          /\ x.pc = "delete" /\ x.item \in Published' => y.raced
          /\ x.raced => y.raced
      BY ObservedFacts
    <2>4. req'[s] = y
      BY <1>2, <2>1, <2>3 DEF Writes
    <2>5. x.item \in Item /\ Exists(x.item)' => Exists(x.item)
      BY <1>2, <2>1
    <2>6. WriteOK(y)'
      <3>1. y.pc = "create" => CreateOK(y)'
        BY <2>2, <2>3, <2>5 DEF WriteOK, CreateOK
      <3>2. y.pc = "update" => UpdateOK(y)'
        BY <2>2, <2>3 DEF WriteOK, UpdateOK
      <3>3. y.pc = "delete" => DeleteOK(y)'
        BY <2>2, <2>3 DEF WriteOK, DeleteOK, Published, IsPublished
      <3> QED
        BY <3>1, <3>2, <3>3 DEF WriteOK
    <2>7. ASSUME x.pc \in Reads PROVE SeenOK(y)' /\ PaidOK(y)' /\ FreshOK(y)'
      <3>1. (x.pc = "list" \/ x.premium) /\ x.item \in Item \ Instrument /\ SeenOK(x) /\ PaidOK(x)
        BY <2>2, <2>7 DEF ReadOK, Reads
      <3>2. PaidOK(y)'
        BY <1>1, <2>3, <3>1 DEF PaidOK
      <3>3. FreshOK(y)'
        BY <2>3, <3>1 DEF FreshOK
      <3>4. ASSUME ~y.manager, Exists(y.item)' PROVE Above(y.item)' \subseteq y.seen
        <4>1. Exists(x.item) /\ Above(x.item) \subseteq x.seen
          BY <2>3, <2>5, <3>1, <3>4 DEF SeenOK
        <4>2. Above(x.item)' = Above(x.item)
          BY <1>0, <2>3, <3>1, <3>4, <4>1, AboveKept
        <4> QED
          BY <2>3, <3>1, <4>1, <4>2
      <3> QED
        BY <2>3, <3>1, <3>2, <3>3, <3>4 DEF SeenOK
    <2>8. ReadOK(y)'
      BY <2>2, <2>3, <2>7 DEF ReadOK
    <2> QED
      BY <2>1, <2>3, <2>4, <2>6, <2>8
  <1>3. ASSUME r \in Req
        PROVE /\ req'[r] = Idle /\ Idle \in Request /\ Idle.pc = "idle"
              /\ WriteOK(Idle)' /\ ReadOK(Idle)'
    BY <1>3, IdleFacts DEF Writes, WriteOK, ReadOK, Reads
  <1>4. ASSUME NEW s \in Req
        PROVE \E y \in Request : req'[s] = y /\ WriteOK(y)' /\ ReadOK(y)' /\ y.pc # "answered"
    BY <1>2, <1>3
  <1>5. TypeOK'
    <2>1. req' \in [Req -> Request]
      BY <1>4 DEF Writes
    <2> QED
      BY <1>0, <1>1, <2>1 DEF TypeOK
  <1>6. ASSUME NEW s \in Req PROVE WriteOK(req[s])' /\ ReadOK(req[s])'
    <2>1. PICK y : y = req'[s] /\ WriteOK(y)' /\ ReadOK(y)'
      BY <1>4
    <2> QED
      BY <2>1
  <1>7. ASSUME NEW s \in Req PROVE Alone(s)'
    <2>1. SUFFICES ASSUME req'[s].pc = "create", NEW t \in Req, req'[t].item = req'[s].item
                   PROVE t = s
      BY DEF Alone
    <2>2. s # r /\ req[s].pc = "create" /\ req'[s].item = req[s].item
      BY <1>2, <1>3, <2>1
    <2>3. req[s].item \in Item
      BY <1>0, <2>2 DEF WriteOK, CreateOK
    <2>4. t # r
      BY <1>3, <2>1, <2>2, <2>3, Kinds, IdleFacts
    <2> QED
      BY <1>0, <1>2, <2>1, <2>2, <2>4 DEF Alone
  <1>8. AnswersJustified'
    BY <1>4 DEF AnswersJustified
  <1> QED
    BY <1>5, <1>6, <1>7, <1>8 DEF CInv

-----------------------------------------------------------------------------
(* Steps that write rows: what they do to the tree.                         *)

LEMMA SetRow ==
  ASSUME TypeOK, TreeIntact, MaterialsShown, NEW i \in Item, NEW d \in Row,
         row' = [row EXCEPT ![i] = d], Fits(i, d.parent), d.parent # None => Exists(d.parent),
         i \in Material => d.status = "PUBLISHED",
         Exists(i) => i \in Course \/ d.parent = row[i].parent
  PROVE /\ row' \in [Item -> Row \cup {None}] /\ TreeIntact' /\ MaterialsShown'
        /\ ParentsKept
        /\ \A j \in Item : Exists(j)' /\ ~Exists(j) => j = i
  <1>1. row' \in [Item -> Row \cup {None}] /\ row'[i] = d
        /\ \A j \in Item : j # i => row'[j] = row[j]
    BY DEF TypeOK
  <1>2. \A j \in Item : Exists(j) => Exists(j)'
    BY <1>1, Kinds DEF Exists
  <1>3. ASSUME NEW j \in Item, Exists(j)'
        PROVE Fits(j, row'[j].parent) /\ (row'[j].parent # None => Exists(row'[j].parent))
    <2>1. CASE j = i
      BY <1>1, <2>1
    <2>2. CASE j # i
      <3>1. row'[j] = row[j] /\ Exists(j)
        BY <1>1, <1>3, <2>2 DEF Exists
      <3>2. Fits(j, row[j].parent)
        BY <3>1 DEF TreeIntact, Fits
      <3>3. row[j].parent # None => Exists(row[j].parent)
        BY <3>1, <3>2 DEF TreeIntact, Fits, Item
      <3> QED
        BY <3>1, <3>2, <3>3
    <2> QED
      BY <2>1, <2>2
  <1>4. TreeIntact'
    BY <1>2, <1>3, Kinds DEF TreeIntact, Fits
  <1>5. MaterialsShown'
    BY <1>1, Kinds DEF MaterialsShown, IsPublished, Exists
  <1>6. ParentsKept
    BY <1>1 DEF ParentsKept
  <1>7. \A j \in Item : Exists(j)' /\ ~Exists(j) => j = i
    BY <1>1 DEF Exists
  <1> QED
    BY <1>1, <1>4, <1>5, <1>6, <1>7

LEMMA PatchedFacts ==
  ASSUME NEW old \in Row, NEW dto \in Data
  PROVE LET d == Patched(old, dto)
        IN  /\ d \in Row
            /\ d.parent = IF dto.parent = None THEN old.parent ELSE dto.parent
            /\ d.teacher = IF dto.teacher = None THEN old.teacher ELSE dto.teacher
  <1> DEFINE New(f) == IF dto[f] = None THEN old[f] ELSE dto[f]
  <1>1. DOMAIN old = {"status", "parent", "teacher"}
    BY DEF Row
  <1>2. Patched(old, dto) = [f \in {"status", "parent", "teacher"} |-> New(f)]
    BY <1>1 DEF Patched
  <1>3. /\ New("status") \in Status /\ New("parent") \in Item \cup {None}
        /\ New("teacher") \in User \cup {None}
    BY DEF Row, Data
  <1>4. PICK d : d = [status |-> New("status"), parent |-> New("parent"),
                      teacher |-> New("teacher")]
    OBVIOUS
  <1>5. Patched(old, dto) = d
    BY <1>2, <1>4
  <1>6. /\ d \in Row /\ d.parent = New("parent") /\ d.teacher = New("teacher")
    BY <1>3, <1>4 DEF Row
  <1> QED
    BY <1>5, <1>6

LEMMA NothingWritten ==
  ASSUME CInv, UNCHANGED row
  PROVE /\ row' \in [Item -> Row \cup {None}] /\ TreeIntact' /\ MaterialsShown'
        /\ ParentsKept
        /\ \A j \in Item : ~(Exists(j)' /\ ~Exists(j))
  BY RowFacts DEF CInv, TypeOK, ParentsKept, Exists

LEMMA InsertKeeps ==
  ASSUME CInv, NEW r \in Req, Insert(r), \A s \in Req : req[s].pc # "answered"
  PROVE CInv'
  <1>0. TypeOK /\ TreeIntact /\ MaterialsShown /\ Alone(r) /\ Writes(r)
    BY DEF CInv, Insert
  <1>1. PICK x \in Request : x = req[r] /\ x.pc = "create" /\ CreateOK(x)
    BY DEF CInv, TypeOK, Insert, WriteOK
  <1>2. CASE ParentThere(x.data)
    <2>1. row' = [row EXCEPT ![x.item] = x.data]
      BY <1>1, <1>2 DEF Insert
    <2>2. /\ x.item \in Item /\ x.data \in Row /\ Fits(x.item, x.data.parent)
          /\ x.data.parent # None => Exists(x.data.parent)
          /\ x.item \in Material => x.data.status = "PUBLISHED"
          /\ ~Exists(x.item)
      BY <1>1, <1>2 DEF CreateOK, ParentThere
    <2>3. /\ row' \in [Item -> Row \cup {None}] /\ TreeIntact' /\ MaterialsShown'
          /\ ParentsKept
          /\ \A j \in Item : Exists(j)' /\ ~Exists(j) => j = x.item
      BY <1>0, <2>1, <2>2, SetRow
    <2>4. \A s \in Req \ {r} : req[s].item # x.item
      BY <1>0, <1>1 DEF Alone
    <2> QED
      BY <1>0, <2>3, <2>4, RowsChange
  <1>3. CASE ~ParentThere(x.data)
    <2>1. UNCHANGED row
      BY <1>1, <1>3 DEF Insert
    <2> QED
      BY <1>0, <2>1, NothingWritten, RowsChange
  <1> QED
    BY <1>2, <1>3

\* A dto gives a new parent, an existing instrument, to a course only.
LEMMA PatchKeeps ==
  ASSUME CInv, NEW r, Writes(r), \A s \in Req : req[s].pc # "answered",
         NEW i \in Item \ Material, Exists(i), NEW dto \in Data,
         dto.parent # None => i \in Course /\ dto.parent \in Instrument /\ Exists(dto.parent),
         row' = [row EXCEPT ![i] = Patched(@, dto)]
  PROVE CInv'
  <1>0. TypeOK /\ TreeIntact /\ MaterialsShown
    BY DEF CInv
  <1>1. PICK old \in Row : old = row[i]
    BY <1>0 DEF TypeOK, Exists
  <1>2. PICK d : d = Patched(old, dto)
    OBVIOUS
  <1>3. d \in Row /\ d.parent = IF dto.parent = None THEN old.parent ELSE dto.parent
    BY <1>2, PatchedFacts
  <1>4. row' = [row EXCEPT ![i] = d]
    BY <1>0, <1>1, <1>2 DEF TypeOK
  <1>5. Fits(i, old.parent) /\ (old.parent # None => Exists(old.parent))
    BY <1>0, <1>1, Kinds DEF TreeIntact, Fits, Item
  <1>6. Fits(i, d.parent) /\ (d.parent # None => Exists(d.parent))
    BY <1>3, <1>5, Kinds DEF Fits
  <1>7. i \in Course \/ d.parent = row[i].parent
    BY <1>1, <1>3
  <1>8. /\ row' \in [Item -> Row \cup {None}] /\ TreeIntact' /\ MaterialsShown'
        /\ ParentsKept
        /\ \A j \in Item : Exists(j)' /\ ~Exists(j) => j = i
    BY <1>0, <1>3, <1>4, <1>6, <1>7, SetRow
  <1> QED
    BY <1>8, RowsChange

LEMMA UpdateKeeps ==
  ASSUME CInv, NEW r \in Req, Update(r), \A s \in Req : req[s].pc # "answered"
  PROVE CInv'
  <1>0. Writes(r)
    BY DEF Update
  <1>1. PICK x \in Request : x = req[r] /\ x.pc = "update" /\ UpdateOK(x)
    BY DEF CInv, TypeOK, Update, WriteOK
  <1>2. CASE Exists(x.item) /\ ParentThere(x.data)
    <2>1. row' = [row EXCEPT ![x.item] = Patched(@, x.data)]
      BY <1>1, <1>2 DEF Update
    <2>2. /\ x.item \in Item \ Material /\ x.data \in Data
          /\ x.data.parent # None =>
               x.item \in Course /\ x.data.parent \in Instrument /\ Exists(x.data.parent)
      BY <1>1, <1>2 DEF UpdateOK, ParentThere
    <2> QED
      BY <1>0, <1>2, <2>1, <2>2, PatchKeeps
  <1>3. CASE ~(Exists(x.item) /\ ParentThere(x.data))
    <2>1. UNCHANGED row
      BY <1>1, <1>3 DEF Update
    <2> QED
      BY <1>0, <2>1, NothingWritten, RowsChange
  <1> QED
    BY <1>2, <1>3

LEMMA OneStepKeeps ==
  ASSUME CInv, NEW u \in User, OneStep(u), \A s \in Req : req[s].pc # "answered"
  PROVE CInv'
  <1>0. TypeOK /\ TreeIntact /\ MaterialsShown /\ Writes(None)
    BY DEF CInv, OneStep
  <1>1. ASSUME NEW i \in Instrument, NEW st \in Status, CreateInstrument(u, i, st)
        PROVE CInv'
    <2>1. PICK d : d = NewRow(st, None)
      OBVIOUS
    <2>2. d \in Row /\ d.parent = None
      BY <2>1, NewRowFacts
    <2>3. row' = [row EXCEPT ![i] = d] /\ Fresh(i)
      BY <1>1, <2>1 DEF CreateInstrument
    <2>4. i \in Item /\ i \notin Material /\ Fits(i, d.parent) /\ ~Exists(i)
      BY <2>2, <2>3, Kinds DEF Fits, Fresh
    <2>5. /\ row' \in [Item -> Row \cup {None}] /\ TreeIntact' /\ MaterialsShown'
          /\ ParentsKept
          /\ \A j \in Item : Exists(j)' /\ ~Exists(j) => j = i
      BY <1>0, <2>2, <2>3, <2>4, SetRow
    <2> QED
      BY <1>0, <2>3, <2>5, RowsChange DEF Fresh
  <1>2. ASSUME NEW i \in Instrument, NEW dto \in Dto, UpdateInstrument(u, i, dto)
        PROVE CInv'
    BY <1>0, <1>2, DtoFacts, Kinds, PatchKeeps DEF UpdateInstrument
  <1> QED
    BY <1>1, <1>2 DEF OneStep

\* Below a material there is nothing, and what cascades ends there.
LEMMA NothingDeeper ==
  ASSUME TreeIntact, NEW i \in Item \ Instrument
  PROVE \A j \in Item : Exists(j) /\ row[j].parent \in Below(i) => j \in Below(i)
  <1> DEFINE a == ChildrenOf({i})
             b == ChildrenOf(a)
             c == ChildrenOf(b)
  <1>1. a \subseteq Item \ (Instrument \cup Course)
    BY Kinds DEF TreeIntact, ChildrenOf
  <1>2. b \subseteq Lesson \cup Material
    <2> HIDE DEF a
    <2> QED
      BY <1>1, Kinds DEF TreeIntact, ChildrenOf, Item
  <1>3. c \subseteq Material
    <2> HIDE DEF b
    <2> QED
      BY <1>2, Kinds DEF TreeIntact, ChildrenOf, Item
  <1>4. ChildrenOf(c) = {}
    <2> HIDE DEF c
    <2> QED
      BY <1>3, Kinds DEF TreeIntact, ChildrenOf, Item
  <1>5. Below(i) = {i} \cup a \cup b \cup c \cup ChildrenOf(c)
    BY DEF Below
  <1>6. \A j \in Item : Exists(j) =>
          /\ row[j].parent = i => j \in a
          /\ row[j].parent \in a => j \in b
          /\ row[j].parent \in b => j \in c
          /\ row[j].parent \in c => j \in ChildrenOf(c)
    BY DEF ChildrenOf
  <1> HIDE DEF a, b, c
  <1> QED
    BY <1>4, <1>5, <1>6

LEMMA DeleteKeeps ==
  ASSUME CInv, NEW r \in Req, Delete(r), \A s \in Req : req[s].pc # "answered"
  PROVE CInv'
  <1>0. TypeOK /\ TreeIntact /\ MaterialsShown /\ Writes(r)
    BY DEF CInv, Delete
  <1>1. PICK x \in Request : x = req[r] /\ x.pc = "delete" /\ DeleteOK(x)
    BY DEF CInv, TypeOK, Delete, WriteOK
  <1>2. CASE x.item \in Instrument /\ ChildrenOf({x.item}) # {}
    <2>1. UNCHANGED row
      BY <1>1, <1>2 DEF Delete
    <2> QED
      BY <1>0, <2>1, NothingWritten, RowsChange
  <1>3. CASE ~(x.item \in Instrument /\ ChildrenOf({x.item}) # {})
    <2>1. PICK B : B = Below(x.item)
      OBVIOUS
    <2>2. row' = [j \in Item |-> IF j \in B THEN None ELSE row[j]]
      BY <1>1, <1>3, <2>1 DEF Delete
    <2>3. x.item \in Item
      BY <1>1 DEF DeleteOK
    <2>4. ASSUME NEW j \in Item, Exists(j), row[j].parent \in B PROVE j \in B
      <3>1. CASE x.item \notin Instrument
        BY <1>0, <2>1, <2>3, <2>4, <3>1, NothingDeeper
      <3>2. CASE ChildrenOf({x.item}) = {}
        <4>1. ChildrenOf({}) = {}
          BY DEF ChildrenOf
        <4>2. B = {x.item}
          BY <2>1, <3>2, <4>1 DEF Below
        <4>3. j \in ChildrenOf({x.item})
          BY <2>4, <4>2 DEF ChildrenOf
        <4> QED
          BY <3>2, <4>3
      <3> QED
        BY <1>3, <3>1, <3>2
    <2>5. row' \in [Item -> Row \cup {None}]
      BY <1>0, <2>2 DEF TypeOK
    <2>6. \A j \in Item : /\ Exists(j)' <=> Exists(j) /\ j \notin B
                          /\ Exists(j)' => row'[j] = row[j]
      BY <2>2 DEF Exists
    <2>7. TreeIntact'
      BY <1>0, <2>4, <2>6, Kinds DEF TreeIntact
    <2>8. MaterialsShown' /\ ParentsKept
      BY <1>0, <2>6, Kinds DEF MaterialsShown, IsPublished, ParentsKept
    <2> QED
      BY <1>0, <2>5, <2>6, <2>7, <2>8, RowsChange
  <1> QED
    BY <1>2, <1>3

-----------------------------------------------------------------------------
(* The invariant, and what follows from it.                                 *)

LEMMA StartReads ==
  ASSUME CInv, NEW r \in Req, NEW u \in User,
         \/ ListInstruments(r, u)
         \/ ListCourses(r, u)
         \/ \E c \in Course : BeginListModules(r, u, c)
         \/ \E m \in Module : BeginListLessons(r, u, m)
         \/ \E l \in Lesson : BeginListMaterials(r, u, l) \/ BeginPlayback(r, u, l)
         \/ \E x \in Material : BeginFindMaterial(r, u, x)
  PROVE CInv'
  <1>1. ASSUME NEW l \in Lesson, BeginListMaterials(r, u, l) \/ BeginPlayback(r, u, l)
        PROVE CInv'
    BY <1>1, StartPremium DEF BeginListMaterials, BeginPlayback
  <1>2. ASSUME NEW x \in Material, BeginFindMaterial(r, u, x) PROVE CInv'
    <2>1. PICK l \in Lesson : l = row[x].parent /\ Exists(l)
      BY <1>2, Kinds DEF BeginFindMaterial, CInv, TreeIntact
    <2>2. Exists(x) /\ Premium(r, u, "entitleOne", l, x)
      BY <1>2, <2>1 DEF BeginFindMaterial
    <2> QED
      BY <2>1, <2>2, StartPremium
  <1> QED
    BY <1>1, <1>2, StartListInstruments, StartListCourses, StartListModules, StartListLessons

LEMMA StartKeeps ==
  ASSUME CInv, NEW r \in Req, NEW u \in User, Start(r, u)
  PROVE CInv'
  <1>1. CASE \E i \in Instrument : BeginRemoveInstrument(r, u, i)
    BY <1>1, StartWrites
  <1>2. CASE ListInstruments(r, u) \/ ListCourses(r, u)
    BY <1>2, StartReads
  <1>3. CASE StartOnCourse(r, u)
    BY <1>3, StartWrites, StartReads DEF StartOnCourse
  <1>4. CASE StartBelow(r, u)
    BY <1>4, StartWrites, StartReads DEF StartBelow
  <1> QED
    BY <1>1, <1>2, <1>3, <1>4 DEF Start

LEMMA InitHolds == Init => CInv
  <1> SUFFICES ASSUME Init PROVE CInv
    OBVIOUS
  <1>1. TypeOK
    BY IdleFacts DEF Init, TypeOK
  <1>2. \A i \in Item : ~Exists(i)
    BY DEF Init, Exists
  <1>3. TreeIntact /\ MaterialsShown
    BY <1>2, Kinds DEF TreeIntact, MaterialsShown
  <1>4. \A r \in Req : req[r] = Idle
    BY DEF Init
  <1> QED
    BY <1>1, <1>3, <1>4, IdleFacts
       DEF CInv, AnswersJustified, WriteOK, Alone, ReadOK, Reads

LEMMA StepKeeps == CInv /\ [Next]_vars => CInv'
  <1> SUFFICES ASSUME CInv, [Next]_vars PROVE CInv'
    OBVIOUS
  <1>1. ASSUME NEW r \in Req, Finish(r) PROVE CInv'
    BY <1>1, FinishKeeps
  <1>2. ASSUME NEW u \in User, OneStep(u), \A r \in Req : req[r].pc # "answered" PROVE CInv'
    BY <1>2, OneStepKeeps
  <1>3. ASSUME NEW u \in User, SetEntitled(u) PROVE CInv'
    BY <1>3, SetEntitledKeeps
  <1>4. ASSUME NEW r \in Req, Continue(r), \A s \in Req : req[s].pc # "answered" PROVE CInv'
    BY <1>4, InsertKeeps, UpdateKeeps, DeleteKeeps, AssertEntitledKeeps, AnswerListKeeps
       DEF Continue
  <1>5. ASSUME NEW r \in Req, NEW u \in User, Start(r, u) PROVE CInv'
    BY <1>5, StartKeeps
  <1>6. ASSUME UNCHANGED vars PROVE CInv'
    <2>1. UNCHANGED row /\ UNCHANGED entitled /\ UNCHANGED req
      BY <1>6 DEF vars
    <2>2. /\ TypeOK /\ TreeIntact /\ MaterialsShown
          /\ \A s \in Req : WriteOK(req[s]) /\ Alone(s) /\ ReadOK(req[s]) /\ Justified(req[s])
      BY AnswersAreJustified DEF CInv
    <2>3. TypeOK' /\ TreeIntact' /\ MaterialsShown' /\ \A s \in Req : Alone(s)'
      BY <2>1, <2>2, RowFacts DEF TypeOK, Alone
    <2>4. ASSUME NEW s \in Req PROVE WriteOK(req[s])' /\ ReadOK(req[s])' /\ Justified(req[s])'
      <3>1. PICK x : x = req[s] /\ x = req'[s] /\ WriteOK(x) /\ ReadOK(x) /\ Justified(x)
        BY <2>1, <2>2
      <3>2. WriteOK(x)' /\ ReadOK(x)' /\ Justified(x)'
        BY <2>1, <3>1, SameRows
      <3> QED
        BY <3>1, <3>2
    <2>5. AnswersJustified'
      BY <2>4 DEF AnswersJustified, Justified
    <2> QED
      BY <2>3, <2>4, <2>5 DEF CInv
  <1> QED
    BY <1>1, <1>2, <1>3, <1>4, <1>5, <1>6 DEF Next

\* The rows, the requests in flight, and what each of them relies on.
THEOREM Invariant == Spec => []CInv
  BY InitHolds, StepKeeps, PTL DEF Spec

\* Every request and every row stays well formed.
THEOREM TypeCorrect == Spec => []TypeOK
  <1>1. CInv => TypeOK
    BY DEF CInv
  <1> QED
    BY <1>1, Invariant, PTL

\* No interleaving of creations, moves and removals leaves an orphan or a row
\* under a row of the wrong kind (prisma/schema.prisma's foreign keys).
THEOREM TreeStaysWhole == Spec => []TreeIntact
  <1>1. CInv => TreeIntact
    BY DEF CInv
  <1> QED
    BY <1>1, Invariant, PTL

\* What a list, a material or a playback shows was visible to its reader at
\* some moment of the request, and paid for when it is premium.
THEOREM AnswersHold == Spec => []AnswersJustified
  <1>1. CInv => AnswersJustified
    BY DEF CInv
  <1> QED
    BY <1>1, Invariant, PTL

LEMMA StartWritesNoRow ==
  ASSUME NEW r \in Req, NEW u \in User, Start(r, u)
  PROVE UNCHANGED row
  <1>1. CASE \/ \E i \in Instrument : BeginRemoveInstrument(r, u, i)
             \/ ListInstruments(r, u) \/ ListCourses(r, u)
    BY <1>1 DEF Begin, BeginRemoveInstrument, ListInstruments, ListCourses
  <1>2. CASE StartOnCourse(r, u)
    BY <1>2 DEF StartOnCourse, Begin, BeginCreateCourse, BeginUpdateCourse, BeginRemoveCourse,
                BeginListModules, BeginCreateModule
  <1>3. CASE StartBelow(r, u)
    BY <1>3 DEF StartBelow, Begin, BeginUpdateModule, BeginRemoveModule, BeginListLessons,
                BeginCreateLesson, BeginUpdateLesson, BeginRemoveLesson, BeginListMaterials,
                BeginPlayback, BeginCreateMaterial, BeginRemoveMaterial, BeginFindMaterial, Premium
  <1> QED
    BY <1>1, <1>2, <1>3 DEF Start

\* Only a deletion removes a row.
LEMMA OnlyDeleteRemoves ==
  ASSUME CInv, [Next]_vars, NEW l \in Item, Exists(l), row'[l] = None
  PROVE \E r \in Req : Delete(r)
  <1>1. ASSUME NEW i, NEW d, d # None, row' = [row EXCEPT ![i] = d] PROVE FALSE
    BY <1>1 DEF Exists, CInv, TypeOK
  <1>2. ASSUME NEW i \in Item, NEW dto \in Data, Exists(i), row' = [row EXCEPT ![i] = Patched(@, dto)]
        PROVE FALSE
    <2>1. PICK old \in Row : old = row[i]
      BY <1>2 DEF CInv, TypeOK, Exists
    <2>2. PICK d : d = Patched(old, dto)
      OBVIOUS
    <2>3. d # None /\ row' = [row EXCEPT ![i] = d]
      BY <1>2, <2>1, <2>2, PatchedFacts, Kinds DEF CInv, TypeOK
    <2> QED
      BY <1>1, <2>3
  <1>3. ASSUME UNCHANGED row PROVE FALSE
    BY <1>3 DEF Exists
  <1>4. ASSUME NEW r \in Req, Insert(r) PROVE FALSE
    <2>1. req[r].data # None
      BY <1>4, Kinds DEF Insert, CInv, WriteOK, CreateOK
    <2> QED
      BY <1>1, <1>3, <1>4, <2>1 DEF Insert
  <1>5. ASSUME NEW r \in Req, Update(r) PROVE FALSE
    <2>1. req[r].item \in Item /\ req[r].data \in Data
      BY <1>5 DEF Update, CInv, WriteOK, UpdateOK
    <2> QED
      BY <1>2, <1>3, <1>5, <2>1 DEF Update
  <1>6. ASSUME NEW u \in User, OneStep(u) PROVE FALSE
    <2>1. ASSUME NEW i \in Instrument, NEW st \in Status, CreateInstrument(u, i, st) PROVE FALSE
      <3>1. PICK d : d = NewRow(st, None)
        OBVIOUS
      <3>2. d # None
        BY <3>1, NewRowFacts, Kinds
      <3> QED
        BY <1>1, <2>1, <3>1, <3>2 DEF CreateInstrument
    <2>2. ASSUME NEW i \in Instrument, NEW dto \in Dto, UpdateInstrument(u, i, dto) PROVE FALSE
      BY <1>2, <2>2, DtoFacts, Kinds DEF UpdateInstrument
    <2> QED
      BY <1>6, <2>1, <2>2 DEF OneStep
  <1>7. ASSUME NEW r \in Req, NEW u \in User, Start(r, u) PROVE UNCHANGED row
    BY <1>7, StartWritesNoRow
  <1>8. UNCHANGED vars => UNCHANGED row
    BY DEF vars
  <1>9. \A r \in Req : Finish(r) \/ AssertEntitled(r) \/ AnswerList(r) => UNCHANGED row
    BY DEF Finish, AssertEntitled, AnswerList
  <1>10. \A u \in User : SetEntitled(u) => UNCHANGED row
    BY DEF SetEntitled
  <1> QED
    BY <1>3, <1>4, <1>5, <1>6, <1>7, <1>8, <1>9, <1>10 DEF Next, Continue

\* The row whose deletion takes a row with it is above that row.
LEMMA BelowIsUnder ==
  ASSUME NEW i, NEW j \in Below(i)
  PROVE LET p == row[j].parent  q == row[p].parent  s == row[q].parent
        IN  i \in {j, p, q, s, row[s].parent}
  <1> DEFINE a == ChildrenOf({i})
             b == ChildrenOf(a)
             c == ChildrenOf(b)
  <1>1. /\ \A k \in a : row[k].parent = i
        /\ \A k \in b : row[k].parent \in a
        /\ \A k \in c : row[k].parent \in b
        /\ \A k \in ChildrenOf(c) : row[k].parent \in c
    BY DEF ChildrenOf
  <1>2. j \in {i} \cup a \cup b \cup c \cup ChildrenOf(c)
    BY DEF Below
  <1> HIDE DEF a, b, c
  <1> QED
    BY <1>1, <1>2

LEMMA VisibleStays ==
  ASSUME CInv, NEW r \in Req, Delete(r), NEW l \in Lesson, Exists(l), IsLessonPublished(l),
         row'[l] = None
  PROVE req[r].pc = "delete" /\ l \in Below(req[r].item) /\ req[r].raced
  <1>0. TypeOK /\ TreeIntact
    BY DEF CInv
  <1>1. PICK i \in Item : i = req[r].item /\ req[r].pc = "delete" /\ DeleteOK(req[r])
    BY DEF Delete, CInv, WriteOK, DeleteOK
  <1>2. /\ ~(i \in Instrument /\ ChildrenOf({i}) # {})
        /\ row' = [j \in Item |-> IF j \in Below(i) THEN None ELSE row[j]]
    <2>1. row' # row
      BY DEF Exists
    <2> QED
      BY <1>1, <2>1 DEF Delete
  <1>3. l \in Below(i)
    BY <1>2, Kinds DEF Exists
  <1>4. PICK m \in Module : m = row[l].parent /\ Exists(m) /\ IsModulePublished(m)
    BY <1>0, Kinds DEF TreeIntact, IsLessonPublished
  <1>5. PICK c \in Course : c = row[m].parent /\ Exists(c) /\ row[c].status = "PUBLISHED"
    BY <1>0, <1>4, Kinds DEF TreeIntact, IsModulePublished, IsCoursePublished
  <1>6. PICK n \in Instrument : n = row[c].parent /\ Exists(n) /\ row[n].parent = None
    BY <1>0, <1>5, Kinds DEF TreeIntact
  <1>7. i \in {l, m, c, n, None}
    BY <1>3, <1>4, <1>5, <1>6, BelowIsUnder
  <1>8. i # n
    <2>1. c \in ChildrenOf({n})
      BY <1>5, <1>6, Kinds DEF ChildrenOf
    <2> QED
      BY <1>2, <1>6, <2>1
  <1>9. i \in {l, m, c}
    BY <1>7, <1>8, Kinds
  <1>10. IsPublished(l) /\ IsPublished(m) /\ IsPublished(c)
    BY <1>4, <1>5 DEF IsPublished, IsLessonPublished, IsModulePublished
  <1>11. i \in Course \cup Module \cup Lesson /\ IsPublished(i)
    BY <1>9, <1>10, Kinds
  <1> QED
    BY <1>1, <1>3, <1>11 DEF DeleteOK

\* A lesson that students see goes only under a removal that was checked
\* before something on the way to it was published.
THEOREM VisibleIsKept == Spec => VisibleNotDeleted
  <1>1. CInv /\ [Next]_vars =>
          [\A l \in Lesson : (Exists(l) /\ IsLessonPublished(l) /\ row'[l] = None) =>
             \E r \in Req : /\ req[r].pc = "delete" /\ l \in Below(req[r].item)
                            /\ req[r].raced]_vars
    <2> SUFFICES ASSUME CInv, [Next]_vars, NEW l \in Lesson, Exists(l), IsLessonPublished(l),
                        row'[l] = None
                 PROVE \E r \in Req : /\ req[r].pc = "delete" /\ l \in Below(req[r].item)
                                      /\ req[r].raced
      OBVIOUS
    <2>1. PICK r \in Req : Delete(r)
      BY OnlyDeleteRemoves, Kinds
    <2> QED
      BY <2>1, VisibleStays
  <1> QED
    BY <1>1, Invariant, PTL DEF Spec, VisibleNotDeleted

\* A course comes to a teacher by the request of an admin, or by his own creation of it.
LEMMA TeacherComes ==
  ASSUME CInv, [Next]_vars, NEW c \in Course, row'[c] # None, row'[c].teacher # None
  PROVE \/ Exists(c) /\ row[c].teacher = row'[c].teacher
        \/ \E r \in Req : /\ req[r].item = c /\ req[r].pc \in {"create", "update"}
                          /\ \/ IsAdmin(req[r].user)
                             \/ req[r].pc = "create" /\ req[r].user = row'[c].teacher
  <1> DEFINE Kept == Exists(c) /\ row[c].teacher = row'[c].teacher
             By(r) == /\ req[r].item = c /\ req[r].pc \in {"create", "update"}
                      /\ \/ IsAdmin(req[r].user)
                         \/ req[r].pc = "create" /\ req[r].user = row'[c].teacher
  <1>0. TypeOK /\ c \in Item
    BY Kinds DEF CInv
  <1>1. row'[c] = row[c] => Kept
    BY DEF Exists
  <1>2. ASSUME NEW r \in Req, Insert(r) PROVE Kept \/ By(r)
    <2>1. PICK x : x = req[r] /\ x.pc = "create" /\ CreateOK(x)
      BY <1>2 DEF Insert, CInv, WriteOK
    <2>2. \/ UNCHANGED row
          \/ row' = [row EXCEPT ![x.item] = x.data]
      BY <1>2, <2>1 DEF Insert
    <2>3. CASE x.item = c /\ row' = [row EXCEPT ![x.item] = x.data]
      <3>1. row'[c] = x.data
        BY <1>0, <2>3 DEF TypeOK
      <3>2. IsAdmin(x.user) \/ x.user = row'[c].teacher
        BY <2>1, <3>1 DEF CreateOK
      <3> QED
        BY <2>1, <2>3, <3>2
    <2>4. CASE x.item # c \/ UNCHANGED row
      BY <1>0, <1>1, <2>2, <2>4 DEF TypeOK
    <2> QED
      BY <2>2, <2>3, <2>4
  <1>3. ASSUME NEW r \in Req, Update(r) PROVE Kept \/ By(r)
    <2>1. PICK x : x = req[r] /\ x.pc = "update" /\ UpdateOK(x)
      BY <1>3 DEF Update, CInv, WriteOK
    <2>2. \/ UNCHANGED row
          \/ Exists(x.item) /\ row' = [row EXCEPT ![x.item] = Patched(@, x.data)]
      BY <1>3, <2>1 DEF Update
    <2>3. CASE x.item = c /\ Exists(c) /\ row' = [row EXCEPT ![x.item] = Patched(@, x.data)]
      <3>1. PICK old \in Row : old = row[c]
        BY <1>0, <2>3 DEF TypeOK, Exists
      <3>2. x.data \in Data /\ row'[c] = Patched(old, x.data)
        BY <1>0, <2>1, <2>3, <3>1 DEF TypeOK, UpdateOK
      <3>3. row'[c].teacher = IF x.data.teacher = None THEN old.teacher ELSE x.data.teacher
        BY <3>2, PatchedFacts
      <3>4. x.data.teacher # None => IsAdmin(x.user)
        BY <2>1 DEF UpdateOK
      <3> QED
        BY <2>1, <2>3, <3>1, <3>3, <3>4
    <2>4. CASE x.item # c \/ UNCHANGED row
      BY <1>0, <1>1, <2>2, <2>4 DEF TypeOK
    <2> QED
      BY <2>2, <2>3, <2>4
  <1>4. ASSUME NEW r \in Req, Delete(r) PROVE Kept
    <2>1. row'[c] = row[c]
      BY <1>0, <1>4 DEF Delete
    <2> QED
      BY <1>1, <2>1
  <1>5. ASSUME NEW u \in User, OneStep(u) PROVE Kept
    <2>1. \A i \in Instrument : i # c
      BY Kinds
    <2>2. row'[c] = row[c]
      BY <1>0, <1>5, <2>1 DEF OneStep, CreateInstrument, UpdateInstrument, TypeOK
    <2> QED
      BY <1>1, <2>2
  <1>6. ASSUME NEW r \in Req, NEW u \in User, Start(r, u) PROVE UNCHANGED row
    BY <1>6, StartWritesNoRow
  <1>7. UNCHANGED vars => UNCHANGED row
    BY DEF vars
  <1>8. \A r \in Req : Finish(r) \/ AssertEntitled(r) \/ AnswerList(r) => UNCHANGED row
    BY DEF Finish, AssertEntitled, AnswerList
  <1>9. \A u \in User : SetEntitled(u) => UNCHANGED row
    BY DEF SetEntitled
  <1>10. Kept \/ \E r \in Req : By(r)
    <2>1. UNCHANGED row => Kept
      BY <1>1
    <2> HIDE DEF Kept, By
    <2> QED
      BY <1>2, <1>3, <1>4, <1>5, <1>6, <1>7, <1>8, <1>9, <2>1 DEF Next, Continue
  <1> QED
    BY <1>10

\* No order of the updates in flight gives a course to a teacher, unless an
\* admin asked for it or the teacher created it himself (courses.service).
THEOREM TeachersByAdmin == Spec => TeacherByAdmin
  <1>1. CInv /\ [Next]_vars =>
          [\A c \in Course : (row'[c] # None /\ row'[c].teacher # None) =>
             \/ Exists(c) /\ row[c].teacher = row'[c].teacher
             \/ \E r \in Req : /\ req[r].item = c /\ req[r].pc \in {"create", "update"}
                               /\ \/ IsAdmin(req[r].user)
                                  \/ req[r].pc = "create" /\ req[r].user = row'[c].teacher]_vars
    BY TeacherComes
  <1> QED
    BY <1>1, Invariant, PTL DEF Spec, TeacherByAdmin
=============================================================================
