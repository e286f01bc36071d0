------------------------ MODULE LessonProgressProofs ------------------------
(***************************************************************************)
(* For every number of lessons and requests, and all durations and         *)
(* reports: what LessonProgress keeps under every interleaving, and what   *)
(* it keeps while the requests on a lesson do not overlap.                 *)
(***************************************************************************)
EXTENDS LessonProgress, TLAPS

\* A row that holds a date exists, and dates are not null.
RowsOK == clock # 0 /\ \A l \in Lesson : row[l].completedAt # 0 => row[l].exists

\* Two requests only meet on a lesson that is marked as raced.
Exclusive ==
  \A r, q \in Req : r # q /\ arg[r].lesson = arg[q].lesson /\ arg[r].lesson # None =>
    arg[r].lesson \in raced

\* What a request knows of its lesson, whoever else writes it.
Informed(r) ==
  /\ pc[r] = "idle" => arg[r].lesson = None
  /\ pc[r] # "idle" => arg[r].lesson \in Lesson
  /\ pc[r] # "idle" /\ arg[r].lesson \notin edited => arg[r].duration = duration[arg[r].lesson]
  /\ pc[r] = "upsert" /\ arg[r].report /\ arg[r].lesson \notin removed
       /\ arg[r].duration > 0 /\ 10 * arg[r].watched >= 9 * arg[r].duration
     => arg[r].completes \/ row[arg[r].lesson].isCompleted
  /\ pc[r] # "idle" /\ ~arg[r].report => arg[r].watched = 0

\* What it knows while it is alone: the row is still the one it read.
AsRead(r) ==
  pc[r] = "upsert" /\ arg[r].lesson \notin raced \cup removed =>
    /\ arg[r].report => /\ arg[r].watched >= row[arg[r].lesson].watched
                        /\ arg[r].completes => row[arg[r].lesson].completedAt = 0
    /\ ~arg[r].report => arg[r].completedAt = row[arg[r].lesson].completedAt

PInv ==
  /\ TypeOK /\ RowsOK /\ Exclusive
  /\ \A r \in Req : Informed(r) /\ AsRead(r)
  /\ NoReportLost /\ CompletedHasDate /\ EnoughCompletes

-----------------------------------------------------------------------------
LEMMA Small == Durations \cup {0} \subseteq Nat /\ Reports \cup {0} \subseteq Nat
  BY ProgressAssumption

LEMMA RowMade ==
  ASSUME NEW w \in Reports \cup {0}, NEW b \in BOOLEAN, NEW c \in Nat
  PROVE [exists |-> TRUE, watched |-> w, isCompleted |-> b, completedAt |-> c] \in Row
  BY DEF Row

LEMMA InitInv == Init => PInv
  <1> SUFFICES ASSUME Init PROVE PInv
    OBVIOUS
  <1>1. NoRow \in Row /\ NoArg \in Locals
    BY DEF NoRow, Row, NoArg, Locals
  <1>2. /\ \A l \in Lesson : row[l] = NoRow /\ reported[l] = 0
        /\ \A r \in Req : pc[r] = "idle" /\ arg[r] = NoArg
    BY DEF Init
  <1>3. TypeOK
    BY <1>1 DEF Init, TypeOK
  <1>4. RowsOK /\ NoReportLost /\ CompletedHasDate
    BY <1>2 DEF Init, RowsOK, NoReportLost, CompletedHasDate, NoRow
  <1>5. EnoughCompletes
    <2> SUFFICES ASSUME NEW l \in Lesson, duration[l] > 0, 10 * row[l].watched >= 9 * duration[l]
                 PROVE FALSE
      BY DEF EnoughCompletes
    <2>1. duration[l] \in Nat /\ row[l].watched = 0
      BY <1>2, Small DEF Init, NoRow
    <2> QED
      BY <2>1
  <1>6. Exclusive /\ \A r \in Req : Informed(r) /\ AsRead(r)
    BY <1>2 DEF Exclusive, Informed, AsRead, NoArg
  <1> QED
    BY <1>3, <1>4, <1>5, <1>6 DEF PInv

LEMMA LargerFacts ==
  ASSUME NEW m \in Nat, NEW n \in Nat
  PROVE Larger(m, n) \in {m, n} /\ Larger(m, n) >= m /\ Larger(m, n) >= n
  BY DEF Larger

\* The locals of every type-correct request are what the row and DTO hold.
LEMMA ArgType ==
  ASSUME TypeOK, NEW r \in Req
  PROVE /\ arg[r].lesson \in Lesson \cup {None} /\ arg[r].report \in BOOLEAN
        /\ arg[r].watched \in Reports \cup {0} /\ arg[r].watched \in Nat
        /\ arg[r].duration \in Durations \cup {0} /\ arg[r].duration \in Nat
        /\ arg[r].completes \in BOOLEAN /\ arg[r].completedAt \in Nat
  <1>1. arg[r] \in Locals
    BY DEF TypeOK
  <1>2. /\ arg[r].lesson \in Lesson \cup {None} /\ arg[r].report \in BOOLEAN
        /\ arg[r].watched \in Reports \cup {0} /\ arg[r].duration \in Durations \cup {0}
        /\ arg[r].completes \in BOOLEAN /\ arg[r].completedAt \in Nat
    BY <1>1 DEF Locals
  <1> QED
    BY <1>2, Small

LEMMA RowType ==
  ASSUME TypeOK, NEW l \in Lesson
  PROVE /\ row[l] \in Row
        /\ row[l].exists \in BOOLEAN /\ row[l].isCompleted \in BOOLEAN
        /\ row[l].watched \in Reports \cup {0} /\ row[l].watched \in Nat
        /\ row[l].completedAt \in Nat
        /\ reported[l] \in Reports \cup {0} /\ reported[l] \in Nat
        /\ duration[l] \in Durations /\ duration[l] \in Nat
  <1>1. row[l] \in Row /\ reported[l] \in Reports \cup {0} /\ duration[l] \in Durations
    BY DEF TypeOK
  <1>2. /\ row[l].exists \in BOOLEAN /\ row[l].isCompleted \in BOOLEAN
        /\ row[l].watched \in Reports \cup {0} /\ row[l].completedAt \in Nat
    BY <1>1 DEF Row
  <1> QED
    BY <1>1, <1>2, Small

-----------------------------------------------------------------------------
(* A request begins or ends: no row changes.                                *)

LEMMA BeginInv ==
  ASSUME PInv, NEW r \in Req, NEW l \in Lesson, NEW report \in BOOLEAN,
         NEW w \in Reports \cup {0}, ~report => w = 0, Begin(r, l, report, w)
  PROVE PInv'
  <1> DEFINE new == [lesson |-> l, report |-> report, watched |-> w, duration |-> duration[l],
                    completes |-> FALSE, completedAt |-> 0]
  <1>1. /\ pc' = [pc EXCEPT ![r] = "existing"] /\ pc[r] = "idle" /\ l \notin removed
        /\ arg' = [arg EXCEPT ![r] = new]
        /\ raced' = IF \E q \in Req : arg[q].lesson = l THEN raced \cup {l} ELSE raced
        /\ UNCHANGED <<duration, removed, row, clock, reported, edited>>
    BY DEF Begin, Goto, lesson
  <1>2. TypeOK /\ RowsOK /\ Exclusive /\ NoReportLost /\ CompletedHasDate /\ EnoughCompletes
        /\ \A q \in Req : Informed(q) /\ AsRead(q)
    BY DEF PInv
  <1>3. new \in Locals
        /\ new.lesson = l /\ new.duration = duration[l] /\ new.report = report
        /\ new.watched = w /\ duration[l] \in Durations
    BY <1>2, RowType DEF Locals
  <1> HIDE DEF new
  <1>4. arg'[r] = new /\ pc'[r] = "existing"
        /\ \A q \in Req : q # r => arg'[q] = arg[q] /\ pc'[q] = pc[q]
    BY <1>1, <1>2 DEF TypeOK
  <1>5. raced \subseteq raced' /\ (\A q \in Req : arg[q].lesson = l => l \in raced')
    BY <1>1
  <1>6. TypeOK'
    BY <1>1, <1>2, <1>3 DEF TypeOK
  <1>7. RowsOK' /\ NoReportLost' /\ CompletedHasDate' /\ EnoughCompletes'
    BY <1>1, <1>2, <1>5 DEF RowsOK, NoReportLost, CompletedHasDate, EnoughCompletes
  <1>8. Exclusive'
    BY <1>2, <1>3, <1>4, <1>5 DEF Exclusive
  <1>9. \A q \in Req : Informed(q)' /\ AsRead(q)'
    <2> SUFFICES ASSUME NEW q \in Req PROVE Informed(q)' /\ AsRead(q)'
      OBVIOUS
    <2>1. CASE q = r
      BY <2>1, <1>1, <1>3, <1>4 DEF Informed, AsRead
    <2>2. CASE q # r
      BY <2>2, <1>1, <1>2, <1>4, <1>5 DEF Informed, AsRead
    <2> QED
      BY <2>1, <2>2
  <1> QED
    BY <1>6, <1>7, <1>8, <1>9 DEF PInv

LEMMA FinishFacts ==
  ASSUME TypeOK, NEW r \in Req, Finish(r)
  PROVE /\ pc'[r] = "idle" /\ arg'[r] = NoArg
        /\ \A q \in Req : q # r => arg'[q] = arg[q] /\ pc'[q] = pc[q]
        /\ pc' \in [Req -> {"idle", "existing", "upsert"}]
        /\ arg' \in [Req -> Locals]
  BY DEF Finish, TypeOK, Locals, NoArg

LEMMA FailInv ==
  ASSUME PInv, NEW r \in Req, Fail(r)
  PROVE PInv'
  <1>1. TypeOK /\ Finish(r) /\ UNCHANGED <<lesson, row, clock, history>>
    BY DEF PInv, Fail
  <1>2. TypeOK'
    BY <1>1, FinishFacts DEF TypeOK, lesson, history
  <1>3. \A q \in Req : Informed(q)' /\ AsRead(q)'
    BY <1>1, FinishFacts DEF PInv, Informed, AsRead, NoArg, lesson, history
  <1>4. Exclusive'
    BY <1>1, FinishFacts DEF PInv, Exclusive, NoArg, history
  <1>5. RowsOK' /\ NoReportLost' /\ CompletedHasDate' /\ EnoughCompletes'
    BY <1>1 DEF PInv, RowsOK, NoReportLost, CompletedHasDate, EnoughCompletes, lesson, history
  <1> QED
    BY <1>2, <1>3, <1>4, <1>5 DEF PInv

-----------------------------------------------------------------------------
(* The row is read.                                                         *)

LEMMA ReadExistingInv ==
  ASSUME PInv, NEW r \in Req, ReadExisting(r)
  PROVE PInv'
  <1> DEFINE a == arg[r]
             l == arg[r].lesson
             w == Watched(row[l].watched, a.watched)
             new == IF a.report
                    THEN [a EXCEPT !.watched = w,
                                   !.completes = ShouldComplete(row[l], w, a.duration)]
                    ELSE [a EXCEPT !.completedAt = row[l].completedAt]
  <1>1. /\ pc' = [pc EXCEPT ![r] = "upsert"] /\ pc[r] = "existing"
        /\ arg' = [arg EXCEPT ![r] = new]
        /\ UNCHANGED <<duration, removed, row, clock, reported, raced, edited>>
    BY DEF ReadExisting, Goto, lesson, history
  <1>2. TypeOK /\ RowsOK /\ Exclusive /\ NoReportLost /\ CompletedHasDate /\ EnoughCompletes
        /\ \A q \in Req : Informed(q) /\ AsRead(q)
    BY DEF PInv
  <1>3. l \in Lesson /\ l # None
    BY <1>1, <1>2, ProgressAssumption DEF Informed
  <1>4. w \in Reports \cup {0} /\ w >= row[l].watched
    BY <1>2, <1>3, RowType, ArgType, LargerFacts DEF Watched
  <1>5. ShouldComplete(row[l], w, a.duration) \in BOOLEAN
    BY DEF ShouldComplete
  <1>6. new \in Locals
    BY <1>2, <1>3, <1>4, <1>5, RowType DEF TypeOK, Locals
  <1>7. /\ new.lesson = l /\ new.duration = a.duration /\ new.report = a.report
        /\ a.report => new.watched = w /\ new.completes = ShouldComplete(row[l], w, a.duration)
        /\ ~a.report => new.watched = a.watched /\ new.completedAt = row[l].completedAt
    BY <1>2 DEF TypeOK
  <1> HIDE DEF new, w
  <1>8. arg'[r] = new /\ pc'[r] = "upsert"
        /\ \A q \in Req : q # r => arg'[q] = arg[q] /\ pc'[q] = pc[q]
    BY <1>1, <1>2 DEF TypeOK
  <1>9. TypeOK'
    BY <1>1, <1>2, <1>6 DEF TypeOK
  <1>10. RowsOK' /\ NoReportLost' /\ CompletedHasDate' /\ EnoughCompletes'
    BY <1>1, <1>2 DEF RowsOK, NoReportLost, CompletedHasDate, EnoughCompletes
  <1>11. Exclusive'
    <2>1. \A q \in Req : arg'[q].lesson = arg[q].lesson
      BY <1>7, <1>8
    <2> QED
      BY <2>1, <1>1, <1>2 DEF Exclusive
  <1>12. Informed(r)'
    <2>1. /\ arg'[r].lesson = l /\ arg'[r].duration = a.duration /\ arg'[r].report = a.report
      BY <1>7, <1>8
    <2>2. (l \notin edited => a.duration = duration[l]) /\ (~a.report => a.watched = 0)
      BY <1>1, <1>2 DEF Informed
    <2>3. ASSUME a.report, a.duration > 0, 10 * arg'[r].watched >= 9 * a.duration
          PROVE arg'[r].completes \/ row[l].isCompleted
      <3>1. arg'[r].watched = w /\ arg'[r].completes = ShouldComplete(row[l], w, a.duration)
        BY <2>3, <1>7, <1>8
      <3> QED
        BY <2>3, <3>1 DEF ShouldComplete, Enough
    <2>4. ~a.report => arg'[r].watched = 0
      BY <2>2, <1>7, <1>8
    <2> QED
      BY <2>1, <2>2, <2>3, <2>4, <1>1, <1>3, <1>8 DEF Informed
  <1>13. AsRead(r)'
    <2>1. /\ arg'[r].lesson = l /\ arg'[r].report = a.report
      BY <1>7, <1>8
    <2>2. ASSUME a.report
          PROVE /\ arg'[r].watched >= row[l].watched
                /\ arg'[r].completes => row[l].completedAt = 0
      <3>1. arg'[r].watched = w /\ arg'[r].completes = ShouldComplete(row[l], w, a.duration)
        BY <2>2, <1>7, <1>8
      <3>2. row[l].isCompleted <=> row[l].completedAt # 0
        BY <1>2, <1>3 DEF CompletedHasDate
      <3> QED
        BY <3>1, <3>2, <1>4 DEF ShouldComplete
    <2>3. ~a.report => arg'[r].completedAt = row[l].completedAt
      BY <1>7, <1>8
    <2> QED
      BY <2>1, <2>2, <2>3, <1>1 DEF AsRead
  <1>14. ASSUME NEW q \in Req, q # r PROVE Informed(q)' /\ AsRead(q)'
    BY <1>14, <1>1, <1>2, <1>8 DEF Informed, AsRead
  <1> QED
    BY <1>9, <1>10, <1>11, <1>12, <1>13, <1>14 DEF PInv

-----------------------------------------------------------------------------
(* The row is written.                                                      *)

\* The row a request writes: of its type, completed if it was, with a date.
LEMMA WrittenRow ==
  ASSUME PInv, NEW r \in Req, pc[r] = "upsert", NEW l, l = arg[r].lesson,
         NEW new, new = IF arg[r].report THEN ReportedRow(row[l], arg[r])
                                         ELSE CompletedRow(row[l], arg[r])
  PROVE /\ l \in Lesson /\ new \in Row /\ new.exists
        /\ row[l].isCompleted => new.isCompleted
        /\ new.isCompleted <=> new.completedAt # 0
        /\ arg[r].report => /\ new.watched = arg[r].watched
                            /\ new.isCompleted <=> row[l].isCompleted \/ arg[r].completes
        /\ ~arg[r].report => new.watched = row[l].watched /\ new.isCompleted
        /\ l \notin raced \cup removed /\ row[l].completedAt # 0 =>
             new.completedAt = row[l].completedAt
  <1>1. TypeOK /\ l \in Lesson /\ clock \in Nat /\ clock # 0 /\ AsRead(r)
    BY DEF PInv, Informed, RowsOK, TypeOK
  <1>2. row[l].completedAt # 0 => row[l].exists
    BY <1>1 DEF PInv, RowsOK
  <1>3. row[l].isCompleted <=> row[l].completedAt # 0
    BY <1>1 DEF PInv, CompletedHasDate
  <1>4. CASE arg[r].report
    <2>1. new = [exists |-> TRUE, watched |-> arg[r].watched,
                 isCompleted |-> row[l].isCompleted \/ arg[r].completes,
                 completedAt |-> IF arg[r].completes THEN clock ELSE row[l].completedAt]
      BY <1>4 DEF ReportedRow
    <2>2. new \in Row
      <3>1. /\ arg[r].watched \in Reports \cup {0}
            /\ (row[l].isCompleted \/ arg[r].completes) \in BOOLEAN
            /\ (IF arg[r].completes THEN clock ELSE row[l].completedAt) \in Nat
        BY <1>1, RowType, ArgType
      <3> QED
        BY <2>1, <3>1, RowMade
    <2> QED
      BY <2>1, <2>2, <1>1, <1>3, <1>4, RowType, ArgType DEF AsRead
  <1>5. CASE ~arg[r].report
    <2>1. new = [row[l] EXCEPT !.exists = TRUE, !.isCompleted = TRUE,
                   !.completedAt = IF row[l].exists /\ arg[r].completedAt # 0
                                   THEN arg[r].completedAt ELSE clock]
      BY <1>5 DEF CompletedRow
    <2>2. row[l] \in Row
      BY <1>1, RowType
    <2>3. new \in Row /\ new.exists /\ new.isCompleted /\ new.watched = row[l].watched
          /\ new.completedAt = IF row[l].exists /\ arg[r].completedAt # 0
                               THEN arg[r].completedAt ELSE clock
      BY <2>1, <2>2, <1>1, ArgType DEF Row
    <2> QED
      BY <2>3, <1>1, <1>2, <1>3, <1>5, RowType, ArgType DEF AsRead
  <1> QED
    BY <1>4, <1>5, <1>1, ArgType

LEMMA UpsertInv ==
  ASSUME PInv, NEW r \in Req, Upsert(r)
  PROVE PInv'
  <1> DEFINE l == arg[r].lesson
             new == IF arg[r].report THEN ReportedRow(row[l], arg[r])
                                     ELSE CompletedRow(row[l], arg[r])
  <1>1. pc[r] = "upsert" /\ Finish(r) /\ UNCHANGED <<duration, removed, raced, edited>>
    BY DEF Upsert, lesson
  <1>2. TypeOK /\ RowsOK /\ Exclusive /\ NoReportLost /\ CompletedHasDate /\ EnoughCompletes
        /\ \A q \in Req : Informed(q) /\ AsRead(q)
    BY DEF PInv
  <1>3. /\ pc'[r] = "idle" /\ arg'[r] = NoArg
        /\ \A q \in Req : q # r => arg'[q] = arg[q] /\ pc'[q] = pc[q]
    BY <1>1, <1>2, FinishFacts
  <1>4. Exclusive'
    BY <1>1, <1>2, <1>3 DEF Exclusive, NoArg
  <1>5. CASE l \in removed /\ UNCHANGED <<row, clock, reported>>
    <2>1. TypeOK'
      BY <1>1, <1>2, <1>5, FinishFacts DEF TypeOK
    <2>2. \A q \in Req : Informed(q)' /\ AsRead(q)'
      BY <1>1, <1>2, <1>3, <1>5 DEF Informed, AsRead, NoArg
    <2>3. RowsOK' /\ NoReportLost' /\ CompletedHasDate' /\ EnoughCompletes'
      BY <1>1, <1>2, <1>5 DEF RowsOK, NoReportLost, CompletedHasDate, EnoughCompletes
    <2> QED
      BY <1>4, <2>1, <2>2, <2>3 DEF PInv
  <1>6. CASE /\ l \notin removed
             /\ row' = [row EXCEPT ![l] = new]
             /\ clock' = IF new.completedAt = clock THEN clock + 1 ELSE clock
             /\ reported' = [reported EXCEPT ![l] = Larger(@, arg[r].watched)]
    <2>1. /\ l \in Lesson /\ new \in Row /\ new.exists
          /\ row[l].isCompleted => new.isCompleted
          /\ new.isCompleted <=> new.completedAt # 0
          /\ arg[r].report => /\ new.watched = arg[r].watched
                              /\ new.isCompleted <=> row[l].isCompleted \/ arg[r].completes
          /\ ~arg[r].report => new.watched = row[l].watched /\ new.isCompleted
      BY <1>1, WrittenRow
    <2> HIDE DEF new
    <2>2. row'[l] = new /\ (\A k \in Lesson : k # l => row'[k] = row[k] /\ reported'[k] = reported[k])
          /\ reported'[l] = Larger(reported[l], arg[r].watched)
      BY <1>2, <1>6, <2>1 DEF TypeOK
    <2>3. clock \in Nat /\ clock' \in Nat /\ clock' # 0
      BY <1>2, <1>6 DEF TypeOK, RowsOK
    <2>4. reported'[l] \in Reports \cup {0}
      BY <2>1, <2>2, <1>2, RowType, ArgType, LargerFacts
    <2>5. TypeOK'
      <3>1. row' \in [Lesson -> Row]
        BY <1>2, <1>6, <2>1 DEF TypeOK
      <3>2. reported' \in [Lesson -> Reports \cup {0}]
        BY <1>2, <1>6, <2>2, <2>4 DEF TypeOK
      <3> QED
        BY <3>1, <3>2, <2>3, <1>1, <1>2, FinishFacts DEF TypeOK
    <2>6. RowsOK' /\ CompletedHasDate'
      BY <2>1, <2>2, <2>3, <1>2 DEF RowsOK, CompletedHasDate
    <2>7. NoReportLost'
      <3> SUFFICES ASSUME NEW k \in Lesson \ raced PROVE row'[k].watched = reported'[k]
        BY <1>1 DEF NoReportLost
      <3>1. CASE k # l
        BY <3>1, <2>2, <1>2 DEF NoReportLost
      <3>2. CASE k = l
        <4>1. row[l].watched = reported[l]
          BY <3>2, <1>2 DEF NoReportLost
        <4>2. CASE arg[r].report
          <5>1. arg[r].watched >= row[l].watched
            BY <3>2, <4>2, <1>1, <1>2, <1>6 DEF AsRead
          <5> QED
            BY <3>2, <4>1, <4>2, <5>1, <2>1, <2>2, <1>2, RowType, ArgType DEF Larger
        <4>3. CASE ~arg[r].report
          <5>1. arg[r].watched = 0
            BY <4>3, <1>1, <1>2 DEF Informed
          <5> QED
            BY <3>2, <4>1, <4>3, <5>1, <2>1, <2>2, <1>2, RowType DEF Larger
        <4> QED
          BY <4>2, <4>3
      <3> QED
        BY <3>1, <3>2
    <2>8. EnoughCompletes'
      <3> SUFFICES ASSUME NEW k \in Lesson \ (edited \cup removed),
                          duration[k] > 0, 10 * row'[k].watched >= 9 * duration[k]
                   PROVE row'[k].isCompleted
        BY <1>1 DEF EnoughCompletes
      <3>1. CASE k # l
        BY <3>1, <2>2, <1>2 DEF EnoughCompletes
      <3>2. CASE k = l
        BY <3>2, <2>1, <2>2, <1>1, <1>2, <1>6, ArgType DEF Informed
      <3> QED
        BY <3>1, <3>2
    <2>9. ASSUME NEW q \in Req PROVE Informed(q)' /\ AsRead(q)'
      <3>1. CASE q = r
        BY <3>1, <1>3 DEF Informed, AsRead, NoArg
      <3>2. CASE q # r
        <4>1. arg'[q] = arg[q] /\ pc'[q] = pc[q]
          BY <3>2, <1>3
        <4>2. pc[q] # "idle" => arg[q].lesson \in Lesson
          BY <1>2 DEF Informed
        <4>3. pc[q] # "idle" /\ row[arg[q].lesson].isCompleted => row'[arg[q].lesson].isCompleted
          BY <4>2, <2>1, <2>2
        <4>4. Informed(q)'
          BY <4>1, <4>2, <4>3, <1>1, <1>2 DEF Informed
        <4>5. pc[q] # "idle" /\ arg[q].lesson \notin raced => arg[q].lesson # l
          BY <3>2, <4>2, <2>1, <1>2, ProgressAssumption DEF Exclusive
        <4>6. AsRead(q)'
          BY <4>1, <4>2, <4>5, <2>2, <1>1, <1>2 DEF AsRead
        <4> QED
          BY <4>4, <4>6
      <3> QED
        BY <3>1, <3>2
    <2> QED
      BY <1>4, <2>5, <2>6, <2>7, <2>8, <2>9 DEF PInv
  <1> QED
    BY <1>5, <1>6 DEF Upsert

-----------------------------------------------------------------------------
(* The lesson is edited or removed.                                         *)

LEMMA EditDurationInv ==
  ASSUME PInv, NEW l \in Lesson, NEW d \in Durations, EditDuration(l, d)
  PROVE PInv'
  <1>1. /\ duration' = [duration EXCEPT ![l] = d] /\ edited' = edited \cup {l}
        /\ UNCHANGED <<removed, row, pc, arg, clock, reported, raced>>
    BY DEF EditDuration, request
  <1>2. TypeOK'
    BY <1>1 DEF PInv, TypeOK
  <1>3. \A k \in Lesson : k \notin edited' => duration'[k] = duration[k]
    BY <1>1 DEF PInv, TypeOK
  <1>4. \A q \in Req : Informed(q)' /\ AsRead(q)'
    <2> SUFFICES ASSUME NEW q \in Req PROVE Informed(q)' /\ AsRead(q)'
      OBVIOUS
    <2>1. Informed(q) /\ AsRead(q)
      BY DEF PInv
    <2> QED
      BY <2>1, <1>1, <1>3 DEF Informed, AsRead
  <1>5. RowsOK' /\ Exclusive' /\ NoReportLost' /\ CompletedHasDate'
    BY <1>1 DEF PInv, RowsOK, Exclusive, NoReportLost, CompletedHasDate
  <1>6. EnoughCompletes'
    BY <1>1, <1>3 DEF PInv, EnoughCompletes
  <1> QED
    BY <1>2, <1>4, <1>5, <1>6 DEF PInv

LEMMA RemoveInv ==
  ASSUME PInv, NEW l \in Lesson, RemoveLesson(l)
  PROVE PInv'
  <1>1. /\ removed' = removed \cup {l} /\ row' = [row EXCEPT ![l] = NoRow]
        /\ reported' = [reported EXCEPT ![l] = 0]
        /\ UNCHANGED <<duration, pc, arg, clock, raced, edited>>
    BY DEF RemoveLesson, request
  <1>2. TypeOK'
    BY <1>1 DEF PInv, TypeOK, Row, NoRow
  <1>3. /\ row'[l] = NoRow /\ reported'[l] = 0
        /\ \A k \in Lesson : k # l => row'[k] = row[k] /\ reported'[k] = reported[k]
    BY <1>1 DEF PInv, TypeOK
  <1>4. \A q \in Req : Informed(q)' /\ AsRead(q)'
    <2> SUFFICES ASSUME NEW q \in Req PROVE Informed(q)' /\ AsRead(q)'
      OBVIOUS
    <2>1. Informed(q) /\ AsRead(q)
      BY DEF PInv
    <2> QED
      BY <2>1, <1>1, <1>3 DEF Informed, AsRead
  <1>5. RowsOK' /\ NoReportLost' /\ CompletedHasDate' /\ EnoughCompletes'
    BY <1>1, <1>3 DEF PInv, RowsOK, NoReportLost, CompletedHasDate, EnoughCompletes, NoRow
  <1>6. Exclusive'
    BY <1>1 DEF PInv, Exclusive
  <1> QED
    BY <1>2, <1>4, <1>5, <1>6 DEF PInv

LEMMA NextInv == PInv /\ [Next]_vars => PInv'
  <1> SUFFICES ASSUME PInv, [Next]_vars PROVE PInv'
    OBVIOUS
  <1>1. ASSUME NEW r \in Req, NEW l \in Lesson, BeginComplete(r, l) PROVE PInv'
    BY <1>1, BeginInv DEF BeginComplete
  <1>2. ASSUME NEW r \in Req, NEW l \in Lesson, NEW w \in Reports, BeginReport(r, l, w)
        PROVE PInv'
    BY <1>2, BeginInv DEF BeginReport
  <1>3. CASE UNCHANGED vars
    BY <1>3 DEF vars, lesson, request, history, PInv, TypeOK, RowsOK, Exclusive, Informed,
                AsRead, NoReportLost, CompletedHasDate, EnoughCompletes
  <1> QED
    BY <1>1, <1>2, <1>3, ReadExistingInv, UpsertInv, FailInv, EditDurationInv, RemoveInv
    DEF Next

-----------------------------------------------------------------------------
(* The theorems.                                                            *)

\* The inductive invariant holds in every reachable state.
THEOREM Invariant == Spec => []PInv
  BY InitInv, NextInv, PTL DEF Spec

\* The rows and the requests in flight keep their types.
THEOREM TypeCorrect == Spec => []TypeOK
  <1>1. PInv => TypeOK
    BY DEF PInv
  <1> QED
    BY <1>1, Invariant, PTL

\* While the requests on a lesson do not overlap, its row holds the most that
\* was reported, in whatever order the reports came.
THEOREM ReportsKept == Spec => []NoReportLost
  <1>1. PInv => NoReportLost
    BY DEF PInv
  <1> QED
    BY <1>1, Invariant, PTL

\* A completed lesson has a date, and only it, under every interleaving.
THEOREM Dated == Spec => []CompletedHasDate
  <1>1. PInv => CompletedHasDate
    BY DEF PInv
  <1> QED
    BY <1>1, Invariant, PTL

\* Ninety percent of the duration complete a lesson under every interleaving.
THEOREM Threshold == Spec => []EnoughCompletes
  <1>1. PInv => EnoughCompletes
    BY DEF PInv
  <1> QED
    BY <1>1, Invariant, PTL

\* What a step does to the rows of the lessons that stay.
LEMMA RowStep ==
  ASSUME PInv, [Next]_vars, NEW l \in Lesson \ removed'
  PROVE \/ row'[l] = row[l]
        \/ /\ row[l].isCompleted => row'[l].isCompleted
           /\ l \notin raced /\ row[l].completedAt # 0 =>
                row'[l].completedAt = row[l].completedAt
  <1>1. CASE UNCHANGED row
    BY <1>1
  <1>2. ASSUME NEW r \in Req, Upsert(r), ~UNCHANGED row
        PROVE /\ row[l].isCompleted => row'[l].isCompleted
              /\ l \notin raced /\ row[l].completedAt # 0 =>
                   row'[l].completedAt = row[l].completedAt
    <2> DEFINE k == arg[r].lesson
               new == IF arg[r].report THEN ReportedRow(row[k], arg[r])
                                       ELSE CompletedRow(row[k], arg[r])
    <2>1. pc[r] = "upsert" /\ k \notin removed /\ row' = [row EXCEPT ![k] = new]
      BY <1>2 DEF Upsert
    <2>2. /\ k \in Lesson /\ (row[k].isCompleted => new.isCompleted)
          /\ k \notin raced \cup removed /\ row[k].completedAt # 0 =>
               new.completedAt = row[k].completedAt
      BY <2>1, WrittenRow
    <2> HIDE DEF new
    <2>3. row'[k] = new /\ (l # k => row'[l] = row[l])
      BY <2>1, <2>2 DEF PInv, TypeOK
    <2> QED
      BY <2>1, <2>2, <2>3
  <1>3. ASSUME NEW k \in Lesson, RemoveLesson(k) PROVE row'[l] = row[l]
    BY <1>3 DEF RemoveLesson, PInv, TypeOK
  <1> QED
    BY <1>1, <1>2, <1>3
    DEF Next, vars, BeginComplete, BeginReport, Begin, ReadExisting, Fail, EditDuration

\* No interleaving takes a completion back.
THEOREM CompletionStays == Spec => CompletionKept
  <1>1. PInv /\ [Next]_vars =>
          [\A l \in Lesson \ removed' : row[l].isCompleted => row'[l].isCompleted]_vars
    BY RowStep
  <1> QED
    BY <1>1, Invariant, PTL DEF Spec, CompletionKept

\* The date of a completion is not overwritten while requests do not overlap.
THEOREM CompletionDateStays == Spec => CompletedAtKept
  <1>1. PInv /\ [Next]_vars =>
          [\A l \in Lesson \ (raced \cup removed') :
             row[l].completedAt # 0 => row'[l].completedAt = row[l].completedAt]_vars
    BY RowStep
  <1> QED
    BY <1>1, Invariant, PTL DEF Spec, CompletedAtKept

\* A completion is final under every interleaving, and so is its date while the
\* requests on the lesson do not overlap.
THEOREM CompletionFinality == Spec => CompletionFinal
  BY CompletionStays, CompletionDateStays DEF CompletionFinal
=============================================================================
