SPECIFICATION Spec
CONSTANTS
  Instrument = {i1}
  Course = {c1}
  Module = {m1}
  Lesson = {l1}
  Material = {x1}
  User = {a, t, s}
  Admin = {a}
  Teacher = {t}
  Subscriber = {s}
  Req = {r1, r2}
  None = None
INVARIANTS
  TypeOK
  TreeIntact
  AnswersJustified
PROPERTIES
  VisibleNotDeleted
  TeacherByAdmin
SYMMETRY Symmetry
