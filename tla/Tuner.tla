------------------------------- MODULE Tuner -------------------------------
(***************************************************************************)
(* The tuner: useTuner (apps/mobile), useTunerWeb (apps/admin) and the     *)
(* TunerSmoother they share (packages/music-tools).                        *)
(*                                                                         *)
(* p \in Press is one press of the start button; it waits for the          *)
(* microphone, and the button stays where it is meanwhile.  On the panel   *)
(* each press opens a capture of its own, the phone has one stream.        *)
(*                                                                         *)
(* A reading is what detectPitch and matchNearestNote make of a buffer:    *)
(* a note and a deviation in cents, or nothing.                            *)
(***************************************************************************)
EXTENDS Integers, Sequences, FiniteSets

CONSTANTS
  Press, Note, Cents,  \* presses of start; what the microphone may hear
  Nobody,
  Window               \* SMOOTHING_WINDOW

ASSUME TunerAssumption == Window \in Nat \ {0} /\ Cents \subseteq Int /\ Nobody \notin Press

VARIABLES
  panel,               \* the panel's hook, or the phone's
  onTuner,             \* the screen is mounted
  asked,               \* presses: "none", "asking", "done"
  mics,                \* external: captures that are live
  ref,                 \* streamRef, processorRef, audioContextRef
  listening, hasSignal,
  readings, match,     \* the smoother's window; the note shown and the sum and number of its cents
  overlapped,          \* history: two presses waited at one time, or one while it listened
  held                 \* history: the last reading, and how often it came in a row

tuner == <<panel, onTuner, asked, mics, ref, listening, hasSignal, readings, match, overlapped, held>>

-----------------------------------------------------------------------------
NoMatch == [note |-> Nobody, sum |-> 0, n |-> 0]
NotHeld == [note |-> Nobody, cents |-> 0, times |-> 0]
Waiting == {p \in Press : asked[p] \in {"asking", "starting"}}

\* The microphone, the smoother and what is shown of them.
TunerTypeOK ==
  /\ panel \in BOOLEAN /\ onTuner \in BOOLEAN
  /\ asked \in [Press -> {"none", "asking", "starting", "done"}]
  /\ mics \subseteq Press /\ ref \in Press \cup {Nobody}
  /\ listening \in BOOLEAN /\ hasSignal \in BOOLEAN
  /\ readings \in Seq(Cents) /\ Len(readings) <= Window
  /\ match.note \in Note \cup {Nobody} /\ match.n \in 0..Window

TunerInit ==
  /\ panel \in BOOLEAN /\ onTuner = TRUE
  /\ asked = [p \in Press |-> "none"]
  /\ mics = {} /\ ref = Nobody
  /\ listening = FALSE /\ hasSignal = FALSE
  /\ readings = <<>> /\ match = NoMatch
  /\ overlapped = FALSE /\ held = NotHeld

\* What the hook shows; nothing any more once the screen is left.
Shows(l, s, m) ==
  /\ listening' = (l /\ onTuner) /\ hasSignal' = (s /\ onTuner)
  /\ match' = IF onTuner THEN m ELSE NoMatch

-----------------------------------------------------------------------------
(* start                                                                    *)

\* The button starts while listening is false, and stops otherwise.
PressStart(p) ==
  /\ onTuner /\ ~listening /\ asked[p] = "none"
  /\ asked' = [asked EXCEPT ![p] = "asking"]
  /\ overlapped' = (overlapped \/ Waiting # {})
  /\ UNCHANGED <<panel, onTuner, mics, ref, listening, hasSignal, readings, match, held>>

Reset == readings' = <<>> /\ held' = NotHeld

\* getUserMedia answers: the rest of the panel's start runs at once.
Capture(p) ==
  /\ panel /\ asked[p] = "asking"
  /\ asked' = [asked EXCEPT ![p] = "done"]
  /\ mics' = mics \cup {p} /\ ref' = p
  /\ Reset /\ Shows(TRUE, FALSE, NoMatch)
  /\ UNCHANGED <<panel, onTuner, overlapped>>

\* The phone resets the smoother between the permission and the stream.
Permit(p) ==
  /\ ~panel /\ asked[p] = "asking"
  /\ asked' = [asked EXCEPT ![p] = "starting"]
  /\ Reset /\ Shows(listening, FALSE, NoMatch)
  /\ UNCHANGED <<panel, onTuner, mics, ref, overlapped>>

StreamStarts(p) ==
  /\ asked[p] = "starting" /\ onTuner
  /\ asked' = [asked EXCEPT ![p] = "done"]
  /\ mics' = {p} /\ ref' = p
  /\ Shows(TRUE, hasSignal, match)
  /\ UNCHANGED <<panel, onTuner, readings, overlapped, held>>

\* Faulty variant: the tracks of the capture stay open.
FaultyRelease == mics' = mics /\ ref' = Nobody /\ Shows(FALSE, FALSE, NoMatch)
\* stop ends the capture the references name.
Release == mics' = mics \ {ref} /\ ref' = Nobody /\ Shows(FALSE, FALSE, NoMatch)

\* Refused: the panel stops whatever it has, the phone only tells its user.
Refused(p) ==
  /\ p \in Waiting
  /\ asked' = [asked EXCEPT ![p] = "done"]
  /\ IF panel THEN Release ELSE UNCHANGED <<mics, ref, listening, hasSignal, match>>
  /\ UNCHANGED <<panel, onTuner, readings, overlapped, held>>

PressStop ==
  /\ onTuner /\ listening /\ Release
  /\ UNCHANGED <<panel, onTuner, asked, readings, overlapped, held>>

\* Nothing in the hooks ends a capture; the stream of the phone is released
\* with the hook of expo-audio that made it.
LeaveTuner ==
  /\ onTuner /\ onTuner' = FALSE
  /\ listening' = FALSE /\ hasSignal' = FALSE /\ match' = NoMatch
  /\ mics' = IF panel THEN mics ELSE {}
  /\ UNCHANGED <<panel, asked, ref, readings, overlapped, held>>

-----------------------------------------------------------------------------
(* TunerSmoother, and the buffers of a live capture.                        *)

Push(c) ==
  LET longer == Append(readings, c)  IN
  IF Len(longer) > Window THEN Tail(longer) ELSE longer

\* The deviations of a window, added from its first reading.
Sum(s) ==
  LET upTo[i \in 0..Len(s)] == IF i = 0 THEN 0 ELSE upTo[i - 1] + s[i]  IN upTo[Len(s)]

\* Within five cents; the average is match.sum / match.n.
InTune(m) == m.sum \in (-5 * m.n)..(5 * m.n)

Heard(note, c) ==
  /\ mics # {} /\ onTuner
  /\ readings' = Push(c)
  /\ hasSignal' = TRUE
  /\ match' = [note |-> note, sum |-> Sum(readings'), n |-> Len(readings')]
  /\ held' = [note |-> note, cents |-> c,
              times |-> IF held.note # note \/ held.cents # c THEN 1
                        ELSE IF held.times = Window THEN Window ELSE held.times + 1]
  /\ UNCHANGED <<panel, onTuner, asked, mics, ref, listening, overlapped>>

\* No pitch: the last note stays.
Silence ==
  /\ mics # {} /\ onTuner /\ hasSignal' = FALSE
  /\ UNCHANGED <<panel, onTuner, asked, mics, ref, listening, readings, match, overlapped, held>>

TunerNext ==
  \/ \E p \in Press :
       PressStart(p) \/ Capture(p) \/ Permit(p) \/ StreamStarts(p) \/ Refused(p)
  \/ PressStop \/ LeaveTuner \/ Silence
  \/ \E note \in Note, c \in Cents : Heard(note, c)

-----------------------------------------------------------------------------
(* Properties.                                                              *)

\* What the tuner listens to is live, and is what its stop button ends, however the
\* presses of start overlapped.  While the screen is shown and no start was pressed
\* during another one, nothing else is live: a refusal, a stop and a new start leave
\* no capture behind.  It says nothing of a screen that was left: the panel's hook
\* leaves its capture open then (LeaveTuner).
MicrophoneShown ==
  /\ listening => ref \in mics
  /\ (onTuner /\ ~overlapped) => (listening <=> mics # {})

\* A string that is held for one window of buffers is shown with its own note
\* and verdict, whatever was played, or which capture was live, before.
Settles ==
  (match # NoMatch /\ held.times = Window) =>
    /\ match.note = held.note
    /\ match.sum = match.n * held.cents
    /\ InTune(match) <=> held.cents \in -5..5

\* What the screen tells, while it is shown, of the microphone and of a held string
\* is true.
TunerTruthful == MicrophoneShown /\ Settles
=============================================================================
