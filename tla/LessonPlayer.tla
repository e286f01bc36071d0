---------------------------- MODULE LessonPlayer ----------------------------
(***************************************************************************)
(* The lesson player of the mobile app: useLessonPlayer and loop-a-b, with *)
(* the reports it sends to PUT /lessons/:id/progress.                      *)
(*                                                                         *)
(* The native player moves on; React hears of it by timeUpdate events, and *)
(* each render runs the effects of the hook: seek, then report.  The       *)
(* reports are sent without waiting for the one before; the API reads the  *)
(* row for each, and writes it later (LessonProgress has the rest of it).  *)
(* Positions are whole seconds, as the reports round them.                 *)
(***************************************************************************)
EXTENDS Integers, Sequences, FiniteSets

LOCAL INSTANCE SequencesExt

CONSTANTS
  Duration,        \* length of the video
  ReportInterval,  \* PROGRESS_REPORT_INTERVAL_SECONDS
  MaxLag,          \* bound: seconds played between two events
  MaxReports, MaxPlayed  \* bounds: reports ever sent, seconds ever played

ASSUME LessonPlayerAssumption ==
  {Duration, ReportInterval, MaxLag, MaxReports, MaxPlayed} \subseteq Nat \ {0}

VARIABLES
  position, playing, lag,    \* external: the native player; seconds since its last event
  currentTime,               \* the time React knows
  loop,                      \* LoopABState, -1 for null
  lastReported,              \* lastReportedAtRef
  onLesson,                  \* the screen is mounted
  sent,                      \* reports in flight, oldest first
  stored,                    \* the API's row, watchedSeconds and lastPositionSeconds
  furthest, played, reports, \* history and bounds: the furthest position, seconds and reports so far
  lost, reordered, atOnce  \* history: a report failed, overtook another, or two were read at once

native == <<position, playing, lag>>
playback == <<furthest, played, lost, reordered, atOnce>>
lessonPlayer == <<native, currentTime, loop, lastReported, onLesson, sent, stored, reports, playback>>

-----------------------------------------------------------------------------
Null == -1
EmptyLoop == [a |-> Null, b |-> Null]
IsLoopActive(l) == l.a # Null /\ l.b # Null

\* A report in flight: what it says, and the watchedSeconds it will write, once the
\* API has read the row.
InFlight == [seconds : 1..Duration, watched : {Null} \cup 0..Duration]

\* The player, the hook's state and the reports.
LessonPlayerTypeOK ==
  /\ position \in 0..Duration /\ playing \in BOOLEAN /\ lag \in 0..MaxLag
  /\ currentTime \in 0..Duration /\ lastReported \in 0..Duration
  /\ loop \in [a : {Null} \cup 0..Duration, b : {Null} \cup 0..Duration]
  /\ onLesson \in BOOLEAN
  /\ sent \in Seq(InFlight) /\ Len(sent) <= MaxReports + 1
  /\ stored.watched \in 0..Duration /\ stored.position \in 0..Duration

LessonPlayerInit ==
  /\ position = 0 /\ playing = FALSE /\ lag = 0
  /\ currentTime = 0 /\ loop = EmptyLoop /\ lastReported = 0
  /\ onLesson = TRUE
  /\ sent = <<>> /\ stored = [watched |-> 0, position |-> 0]
  /\ furthest = 0 /\ played = 0 /\ reports = 0
  /\ lost = FALSE /\ reordered = FALSE /\ atOnce = FALSE

-----------------------------------------------------------------------------
(* loop-a-b.                                                                *)

SetPointA(l, t) == [a |-> t, b |-> IF l.b # Null /\ t >= l.b THEN Null ELSE l.b]

SetPointB(l, t) == IF l.a = Null \/ t <= l.a THEN l ELSE [l EXCEPT !.b = t]

\* computeSeekTarget
Seeks(l, t) == IsLoopActive(l) /\ t >= l.b

-----------------------------------------------------------------------------
(* useLessonPlayer.                                                         *)

Report(t) ==
  /\ sent' = Append(sent, [seconds |-> t, watched |-> Null])
  /\ reports' = reports + 1

\* The effects of a render that knows the time t and the loop l.
SeekEffect(l, t) == position' = IF Seeks(l, t) THEN l.a ELSE position

ReportEffect(t) ==
  IF t - lastReported < ReportInterval
    THEN UNCHANGED <<sent, reports, lastReported>>
    ELSE reports < MaxReports /\ Report(t) /\ lastReported' = t

TimeUpdate ==
  /\ onLesson /\ lag > 0
  /\ currentTime' = position /\ lag' = 0
  /\ SeekEffect(loop, currentTime') /\ ReportEffect(currentTime')
  /\ UNCHANGED <<playing, loop, onLesson, stored, playback>>

\* A mark is set at the time React knows, and its render may seek at once.
Mark(l) ==
  /\ onLesson /\ loop' = l
  /\ SeekEffect(l, currentTime)
  /\ UNCHANGED <<playing, lag, currentTime, lastReported, onLesson, sent, stored, reports, playback>>
MarkLoopA == Mark(SetPointA(loop, currentTime))
MarkLoopB == Mark(SetPointB(loop, currentTime))
ClearLoop == Mark(EmptyLoop)

PlayPause ==
  /\ onLesson /\ playing' = ~playing
  /\ UNCHANGED <<position, lag, currentTime, loop, lastReported, onLesson, sent, stored, reports, playback>>

\* Faulty variant: what was last reported is reported again.
FaultyLeaveLesson ==
  /\ onLesson /\ onLesson' = FALSE /\ playing' = FALSE
  /\ IF lastReported > 0 THEN Report(lastReported) ELSE UNCHANGED <<sent, reports>>
  /\ UNCHANGED <<position, lag, currentTime, loop, lastReported, stored, playback>>
\* The effect's cleanup reports the time in currentTimeRef.
LeaveLesson ==
  /\ onLesson /\ onLesson' = FALSE /\ playing' = FALSE
  /\ IF currentTime > 0 THEN Report(currentTime) ELSE UNCHANGED <<sent, reports>>
  /\ UNCHANGED <<position, lag, currentTime, loop, lastReported, stored, playback>>

-----------------------------------------------------------------------------
(* External: the native player, the network and the API.                    *)

Play ==
  /\ playing /\ position < Duration /\ lag < MaxLag /\ played < MaxPlayed
  /\ position' = position + 1 /\ lag' = lag + 1 /\ played' = played + 1
  /\ furthest' = IF position' > furthest THEN position' ELSE furthest
  /\ UNCHANGED <<playing, currentTime, loop, lastReported, onLesson, sent, stored, reports>>
  /\ UNCHANGED <<lost, reordered, atOnce>>

\* upsertLessonProgress reads the row for a report, and takes the most watched; the
\* reports need not come in the order they were sent.
ReadStored(i) ==
  /\ i \in DOMAIN sent /\ sent[i].watched = Null
  /\ sent' = [sent EXCEPT ![i].watched =
                IF sent[i].seconds > stored.watched THEN sent[i].seconds ELSE stored.watched]
  /\ atOnce' = (atOnce \/ \E j \in DOMAIN sent : sent[j].watched # Null)
  /\ UNCHANGED <<native, currentTime, loop, lastReported, onLesson, stored, reports>>
  /\ UNCHANGED <<furthest, played, lost, reordered>>

\* Its upsert, whatever was written in between.
StoreReport(i) ==
  /\ i \in DOMAIN sent /\ sent[i].watched # Null
  /\ stored' = [watched |-> sent[i].watched, position |-> sent[i].seconds]
  /\ sent' = RemoveAt(sent, i)
  /\ reordered' = (reordered \/ i > 1)
  /\ UNCHANGED <<native, currentTime, loop, lastReported, onLesson, reports>>
  /\ UNCHANGED <<furthest, played, lost, atOnce>>

\* A failed report is not repeated.
LoseReport(i) ==
  /\ i \in DOMAIN sent /\ sent' = RemoveAt(sent, i) /\ lost' = TRUE
  /\ UNCHANGED <<native, currentTime, loop, lastReported, onLesson, stored, reports>>
  /\ UNCHANGED <<furthest, played, reordered, atOnce>>

LessonPlayerNext ==
  \/ TimeUpdate \/ MarkLoopA \/ MarkLoopB \/ ClearLoop \/ PlayPause \/ LeaveLesson
  \/ Play \/ \E i \in DOMAIN sent : ReadStored(i) \/ StoreReport(i) \/ LoseReport(i)

-----------------------------------------------------------------------------
(* Properties.                                                              *)

\* An active loop ends after it begins and holds the player: it is never further
\* past B than the seconds between two events, however A and B were marked,
\* moved and cleared, and marked with a time that is behind the player.
LoopHolds ==
  (onLesson /\ IsLoopActive(loop)) => loop.a < loop.b /\ position < loop.b + MaxLag

\* When the screen was left and its reports arrived, none of them lost: the API knows
\* all but an interval of the furthest position, unless it handled two at one time;
\* and stored in order, the position to resume from is the one that was shown last,
\* but for the very start.  Whatever happened, the API never knows more than was
\* played, nor a position to resume from that it does not count as watched.
Reported ==
  /\ stored.position <= stored.watched /\ stored.watched <= furthest
  /\ (~onLesson /\ sent = <<>> /\ ~lost) =>
       /\ ~atOnce => furthest - stored.watched < ReportInterval + MaxLag
       /\ (~reordered /\ currentTime > 0) => stored.position = currentTime

\* A lesson is played as it was marked, and what was played is known; overlapping
\* reports are what WatchedNeverReduced of LessonProgress is about.
LessonPlayed == LoopHolds /\ Reported
=============================================================================
