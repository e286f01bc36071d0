--------------------------- MODULE LessonProgress ---------------------------
(***************************************************************************)
(* The progress of one student: ProgressService of apps/api, while the     *)
(* lessons may be edited and removed (LessonsService).                     *)
(*                                                                         *)
(* r \in Req is an HTTP request in flight; reports of the player come      *)
(* every few seconds, from several screens, in any order and repeated:     *)
(*                                                                         *)
(*   report, complete     existing -> upsert                               *)
(*                                                                         *)
(* Rows are unique per student and lesson, so the students do not meet.    *)
(* The last position is only displayed and is left out.                    *)
(***************************************************************************)
EXTENDS Integers, FiniteSets

CONSTANTS
  Lesson, Req, None,  \* lessons, request slots, null
  Durations,          \* durations a lesson may have, in seconds; 0 is unknown
  Reports             \* watched seconds that a player may report

ASSUME ProgressAssumption ==
  None \notin Lesson /\ Durations \subseteq Nat /\ Reports \subseteq Nat /\ IsFiniteSet(Reports)

VARIABLES
  duration,   \* lessons.duration_seconds
  removed,    \* the lessons that were deleted
  row,        \* student_progress
  pc, arg,    \* control state and locals of a request
  clock,      \* the time, advanced whenever a date is stored
  reported,   \* history: the most that an answered report said
  raced,      \* history: lessons on which two requests overlapped
  edited      \* history: lessons whose duration was edited

lesson  == <<duration, removed>>
request == <<pc, arg>>
history == <<reported, raced, edited>>
vars    == <<lesson, row, request, clock, history>>

-----------------------------------------------------------------------------
Row == [exists : BOOLEAN, watched : Reports \cup {0}, isCompleted : BOOLEAN, completedAt : Nat]
NoRow == [exists |-> FALSE, watched |-> 0, isCompleted |-> FALSE, completedAt |-> 0]

\* completedAt of a request is the date it read, completes its shouldComplete.
Locals == [lesson : Lesson \cup {None}, report : BOOLEAN,
           watched : Reports \cup {0}, duration : Durations \cup {0},
           completes : BOOLEAN, completedAt : Nat]
NoArg == [lesson |-> None, report |-> FALSE, watched |-> 0, duration |-> 0,
          completes |-> FALSE, completedAt |-> 0]

\* The rows of lessons and progress, and the requests in flight.
TypeOK ==
  /\ duration \in [Lesson -> Durations] /\ removed \subseteq Lesson
  /\ row \in [Lesson -> Row]
  /\ pc \in [Req -> {"idle", "existing", "upsert"}]
  /\ arg \in [Req -> Locals]
  /\ clock \in Nat
  /\ reported \in [Lesson -> Reports \cup {0}]
  /\ raced \subseteq Lesson /\ edited \subseteq Lesson

Init ==
  /\ duration \in [Lesson -> Durations] /\ removed = {}
  /\ row = [l \in Lesson |-> NoRow]
  /\ pc = [r \in Req |-> "idle"]
  /\ arg = [r \in Req |-> NoArg]
  /\ clock = 1
  /\ reported = [l \in Lesson |-> 0] /\ raced = {} /\ edited = {}

-----------------------------------------------------------------------------
Goto(r, from, to) == pc[r] = from /\ pc' = [pc EXCEPT ![r] = to]

Finish(r) ==
  /\ pc' = [pc EXCEPT ![r] = "idle"]
  /\ arg' = [arg EXCEPT ![r] = NoArg]

Larger(m, n) == IF m < n THEN n ELSE m

\* The lesson is read, with its duration, and the student's access is granted.
Begin(r, l, report, w) ==
  /\ l \notin removed
  /\ Goto(r, "idle", "existing")
  /\ arg' = [arg EXCEPT ![r] = [lesson |-> l, report |-> report, watched |-> w,
                                 duration |-> duration[l],
                                 completes |-> FALSE, completedAt |-> 0]]
  /\ raced' = IF \E q \in Req : arg[q].lesson = l THEN raced \cup {l} ELSE raced
  /\ UNCHANGED <<lesson, row, clock, reported, edited>>

(* PUT /lessons/:id/progress, POST /lessons/:id/progress/complete           *)
BeginReport(r, l, w) == Begin(r, l, TRUE, w)
BeginComplete(r, l)  == Begin(r, l, FALSE, 0)

\* Faulty variant: the report replaces what was stored.
FaultyWatched(old, w) == w
Watched(old, w) == Larger(old, w)

\* Faulty variant: the ninety percent have to be exceeded.
FaultyEnough(w, d) == 10 * w > 9 * d
Enough(w, d) == 10 * w >= 9 * d       \* COMPLETE_WATCH_RATIO = 0.9

\* Faulty variant: a lesson that is completed already is completed again.
FaultyShouldComplete(old, w, d) == d > 0 /\ Enough(w, d)
ShouldComplete(old, w, d) == ~old.isCompleted /\ d > 0 /\ Enough(w, d)

ReadExisting(r) ==
  LET a == arg[r]
      old == row[a.lesson]
      w == Watched(old.watched, a.watched)
  IN
  /\ Goto(r, "existing", "upsert")
  /\ arg' = [arg EXCEPT ![r] =
       IF a.report
       THEN [a EXCEPT !.watched = w, !.completes = ShouldComplete(old, w, a.duration)]
       ELSE [a EXCEPT !.completedAt = old.completedAt]]
  /\ UNCHANGED <<lesson, row, clock, history>>

ReportedRow(old, a) ==
  [exists |-> TRUE, watched |-> a.watched, isCompleted |-> old.isCompleted \/ a.completes,
   completedAt |-> IF a.completes THEN clock ELSE old.completedAt]

CompletedRow(old, a) ==
  [old EXCEPT !.exists = TRUE, !.isCompleted = TRUE,
              !.completedAt = IF old.exists /\ a.completedAt # 0 THEN a.completedAt ELSE clock]

\* One statement; the foreign key refuses the row of a lesson that is gone.
Upsert(r) ==
  LET a == arg[r]
      l == a.lesson
      new == IF a.report THEN ReportedRow(row[l], a) ELSE CompletedRow(row[l], a)
  IN
  /\ pc[r] = "upsert"
  /\ \/ l \in removed /\ UNCHANGED <<row, clock, reported>>
     \/ /\ l \notin removed
        /\ row' = [row EXCEPT ![l] = new]
        /\ clock' = IF new.completedAt = clock THEN clock + 1 ELSE clock
        /\ reported' = [reported EXCEPT ![l] = Larger(@, a.watched)]
  /\ Finish(r)
  /\ UNCHANGED <<lesson, raced, edited>>

\* The request ends with an error, or is lost in a restart.
Fail(r) ==
  /\ pc[r] # "idle" /\ Finish(r)
  /\ UNCHANGED <<lesson, row, clock, history>>

-----------------------------------------------------------------------------
(* LessonsService.update and remove; the progress goes with the lesson.     *)
EditDuration(l, d) ==
  /\ l \notin removed /\ d # duration[l]
  /\ duration' = [duration EXCEPT ![l] = d]
  /\ edited' = edited \cup {l}
  /\ UNCHANGED <<removed, row, request, clock, reported, raced>>

RemoveLesson(l) ==
  /\ l \notin removed
  /\ removed' = removed \cup {l}
  /\ row' = [row EXCEPT ![l] = NoRow]
  /\ reported' = [reported EXCEPT ![l] = 0]
  /\ UNCHANGED <<duration, request, clock, raced, edited>>

Next ==
  \/ \E r \in Req :
       \/ \E l \in Lesson : BeginComplete(r, l) \/ \E w \in Reports : BeginReport(r, l, w)
       \/ ReadExisting(r) \/ Upsert(r) \/ Fail(r)
  \/ \E l \in Lesson : RemoveLesson(l) \/ \E d \in Durations : EditDuration(l, d)

Spec == Init /\ [][Next]_vars

-----------------------------------------------------------------------------
(* Properties                                                               *)

\* What a player reported is never lost to a later report of less, in whatever
\* order the reports come, as long as they do not overlap.
NoReportLost == \A l \in Lesson \ raced : row[l].watched = reported[l]

\* No interleaving takes a completion back.
CompletionKept ==
  [][\A l \in Lesson \ removed' : row[l].isCompleted => row'[l].isCompleted]_vars

\* A lesson is completed at a date, once, unless requests overlap.
CompletedAtKept ==
  [][\A l \in Lesson \ (raced \cup removed') :
       row[l].completedAt # 0 => row'[l].completedAt = row[l].completedAt]_vars

\* A completion is final, and so is its date.
CompletionFinal == CompletionKept /\ CompletedAtKept

\* No interleaving separates the completion of a lesson from its date.
CompletedHasDate == \A l \in Lesson : row[l].isCompleted <=> row[l].completedAt # 0

\* Ninety percent of a known duration complete the lesson, although each
\* report decides from a row that another one may be about to change.
EnoughCompletes ==
  \A l \in Lesson \ (edited \cup removed) :
    duration[l] > 0 /\ 10 * row[l].watched >= 9 * duration[l] => row[l].isCompleted

\* The watched time of a lesson is never reduced.
WatchedNeverReduced ==
  [][\A l \in Lesson \ removed' : row'[l].watched >= row[l].watched]_vars
=============================================================================
