----------------------------- MODULE Metronome -----------------------------
(***************************************************************************)
(* The metronome: MetronomeEngine of packages/music-tools and the hooks    *)
(* that drive it, useMetronome (apps/mobile) and useMetronomeWeb           *)
(* (apps/admin).                                                           *)
(*                                                                         *)
(* A timer asks the engine for the ticks that are due before now +         *)
(* Lookahead and hands each to the audio: they are then out of reach, stop *)
(* only ends the timer.  Both hooks count from the instant of start, so    *)
(* times here are the caller's.  The unit is one sixteenth of a second;    *)
(* sound and blinking dot of a tick are one event.                         *)
(***************************************************************************)
EXTENDS Integers

CONSTANTS
  Bpms, Bars, Subdivisions, \* settings that the screens offer; 0 is an emptied field
  DefaultBpm, DefaultBars,  \* DEFAULT_METRONOME_STATE
  Lookahead,                \* LOOKAHEAD_SECONDS, in units
  MaxIdle,                  \* bound: units the timer may be held up
  MaxTime, MaxRuns          \* bounds: the clock, and the presses of start

UnitsPerMinute == 960

ASSUME MetronomeAssumption ==
  /\ Bpms \cup Bars \cup Subdivisions \subseteq Nat
  /\ DefaultBpm \in Bpms \ {0} /\ DefaultBars \in Bars \ {0} /\ 1 \in Subdivisions
  /\ Lookahead \in Nat /\ MaxIdle \in Nat /\ MaxTime \in Nat /\ MaxRuns \in Nat
  /\ \A b \in Bpms \ {0}, s \in Subdivisions \ {0} : UnitsPerMinute % (b * s) = 0

VARIABLES
  settings,        \* MetronomeState; the hook shows the engine's
  next,            \* nextTickTime, with beat and sub the position in the bar; Off when stopped
  timer,           \* intervalRef, and isRunning
  onMetronome,     \* the screen is mounted
  pending,         \* ticks handed to the audio
  currentBeat,     \* the highlighted dot, -1 for none
  now, idle,       \* the clock, and the units since the timer last fired
  heard,           \* history: the last tick heard of each run
  run, stoppedAt,  \* history: presses of start, the time of the last stop
  steady, delayed     \* history: settings unchanged in this run, and the timer fired late in it

engine == <<settings, next>>
metronome == <<engine, timer, onMetronome, pending, currentBeat, now, idle,
               heard, run, stoppedAt, steady, delayed>>

-----------------------------------------------------------------------------
Off == [at |-> -1, beat |-> 0, sub |-> 0]
Positions == [at : -1..(MaxTime + Lookahead + UnitsPerMinute), beat : Nat, sub : Nat]
NoTick == [at |-> -1, beat |-> 0, sub |-> 0, accent |-> FALSE, run |-> 0]

\* Faulty variant: zero passes.
FaultyValid(s) == TRUE
\* validateState, for what the screens can enter.
Valid(s) == s.bpm > 0 /\ s.beats > 0 /\ s.subdivision > 0

\* The engine never holds settings it would divide by or count modulo zero with.
MetronomeTypeOK ==
  /\ settings \in [bpm : Bpms \ {0}, beats : Bars \ {0}, subdivision : Subdivisions \ {0}, accent : BOOLEAN]
  /\ next \in Positions
  /\ timer \in BOOLEAN /\ onMetronome \in BOOLEAN /\ (timer <=> next # Off)
  /\ currentBeat = -1 \/ \E b \in Bars : currentBeat \in 0..(b - 1)
  /\ now \in 0..MaxTime /\ idle \in (0..MaxIdle) \cup {Lookahead}

MetronomeInit ==
  /\ settings = [bpm |-> DefaultBpm, beats |-> DefaultBars, subdivision |-> 1, accent |-> TRUE]
  /\ next = Off /\ timer = FALSE /\ onMetronome = TRUE
  /\ pending = {} /\ currentBeat = -1
  /\ now = 0 /\ idle = 0
  /\ heard = [r \in 1..MaxRuns |-> NoTick]
  /\ run = 0 /\ stoppedAt = 0 /\ steady = TRUE /\ delayed = FALSE

-----------------------------------------------------------------------------
(* MetronomeEngine.                                                         *)

Interval == UnitsPerMinute \div (settings.bpm * settings.subdivision)

\* Faulty variant: the beat is counted at every subdivision.
FaultyFollowing(p) ==
  [at |-> p.at + Interval, beat |-> (p.beat + 1) % settings.beats,
   sub |-> IF p.sub + 1 >= settings.subdivision THEN 0 ELSE p.sub + 1]
\* The position after one tick.  A shortened bar, or subdivision, is noticed here.
Following(p) ==
  LET wraps == p.sub + 1 >= settings.subdivision  IN
  [at   |-> p.at + Interval,
   sub  |-> IF wraps THEN 0 ELSE p.sub + 1,
   beat |-> IF wraps THEN (p.beat + 1) % settings.beats ELSE p.beat]

Tick(p) ==
  [at |-> p.at, beat |-> p.beat, sub |-> p.sub, run |-> run,
   accent |-> p.sub = 0 /\ p.beat = 0 /\ settings.accent]

\* The positions from the next one on.
Ahead[n \in Nat] == IF n = 0 THEN next ELSE Following(Ahead[n - 1])

\* tick(until): the positions before until, and the first one after them.
Due(until) ==
  LET count == CHOOSE n \in 0..until : /\ Ahead[n].at >= until
                                       /\ n = 0 \/ Ahead[n - 1].at < until
  IN  [ticks |-> {Tick(Ahead[m]) : m \in 0..(count - 1)}, next |-> Ahead[count]]

UpdateState(s) ==
  /\ onMetronome
  /\ settings' = IF Valid(s) THEN s ELSE settings
  /\ steady' = (steady /\ settings' = settings)
  /\ UNCHANGED <<next, timer, onMetronome, pending, currentBeat, now, idle, heard, run, stoppedAt, delayed>>

\* setBpm, setBeatsPerBar, setSubdivision, setAccentFirstBeat
Set ==
  \/ \E b \in Bpms : UpdateState([settings EXCEPT !.bpm = b])
  \/ \E b \in Bars : UpdateState([settings EXCEPT !.beats = b])
  \/ \E s \in Subdivisions : UpdateState([settings EXCEPT !.subdivision = s])
  \/ UpdateState([settings EXCEPT !.accent = ~@])

-----------------------------------------------------------------------------
(* The hooks.                                                               *)

\* The screen offers start while isRunning is false, stop otherwise.
Start ==
  /\ onMetronome /\ ~timer /\ run < MaxRuns
  /\ next' = [at |-> now, beat |-> 0, sub |-> 0]
  /\ timer' = TRUE /\ run' = run + 1
  /\ idle' = Lookahead            \* the first tick is due now
  /\ steady' = TRUE /\ delayed' = FALSE
  /\ UNCHANGED <<settings, onMetronome, pending, currentBeat, now, heard, stoppedAt>>

Scheduler ==
  /\ timer
  /\ LET due == Due(now + Lookahead)  IN
     pending' = pending \cup due.ticks /\ next' = due.next
  /\ idle' = 0
  /\ UNCHANGED <<settings, timer, onMetronome, currentBeat, now, heard, run, stoppedAt, steady, delayed>>

\* The timeouts, or the oscillators, of a tick.
Sound(e) ==
  /\ e.at <= now /\ \A f \in pending : e.at <= f.at
  /\ pending' = pending \ {e}
  /\ heard' = [heard EXCEPT ![e.run] = e]
  /\ currentBeat' = IF e.sub = 0 THEN e.beat ELSE currentBeat
  /\ UNCHANGED <<engine, timer, onMetronome, now, idle, run, stoppedAt, steady, delayed>>

StopTimer ==
  /\ next' = Off /\ timer' = FALSE /\ idle' = 0
  /\ currentBeat' = -1
  /\ stoppedAt' = IF timer THEN now ELSE stoppedAt
  /\ UNCHANGED <<settings, pending, now, heard, run, steady, delayed>>

Stop == onMetronome /\ timer /\ StopTimer /\ UNCHANGED onMetronome

\* Faulty variant: no effect ends the timer when the screen is left.
FaultyLeaveMetronome ==
  /\ onMetronome /\ onMetronome' = FALSE
  /\ stoppedAt' = IF timer THEN now ELSE stoppedAt
  /\ UNCHANGED <<engine, timer, pending, currentBeat, now, idle, heard, run, steady, delayed>>
\* useEffect(() => stop, [stop])
LeaveMetronome == onMetronome /\ onMetronome' = FALSE /\ StopTimer

\* Time passes when what was due has sounded.
Clock ==
  /\ now < MaxTime /\ \A e \in pending : e.at > now
  /\ timer => idle < MaxIdle
  /\ now' = now + 1
  /\ idle' = IF timer THEN idle + 1 ELSE 0
  /\ delayed' = (delayed \/ idle' > Lookahead)
  /\ UNCHANGED <<engine, timer, onMetronome, pending, currentBeat, heard, run, stoppedAt, steady>>

MetronomeNext ==
  Set \/ Start \/ Scheduler \/ (\E e \in pending : Sound(e)) \/ Stop \/ LeaveMetronome \/ Clock

-----------------------------------------------------------------------------
(* Properties.                                                              *)

\* Under unchanged settings each tick follows the one before it by exactly one
\* interval, and at the next position of the bar: across calls of the timer,
\* late calls, and a stop and start, none is lost and none sounds twice.
Follows(old, new) ==
  /\ new.at = old.at + Interval
  /\ new.sub = (old.sub + 1) % settings.subdivision
  /\ new.beat = (IF new.sub = 0 THEN old.beat + 1 ELSE old.beat) % settings.beats
  /\ new.accent <=> (settings.accent /\ new.beat = 0 /\ new.sub = 0)
GridKept ==
  [][(heard' # heard /\ run > 0 /\ heard'[run] # heard[run] /\ steady) =>
       IF heard[run] = NoTick THEN heard'[run].beat = 0 /\ heard'[run].sub = 0
                              ELSE Follows(heard[run], heard'[run])]_metronome

\* A tick sounds at its time, unless the timer was held up for longer than the
\* lookahead: faster settings and a restart do not make one late.
OnTime == (onMetronome /\ timer /\ ~delayed) => \A e \in pending : e.run = run => e.at >= now

\* After stop, or after the screen is left, only the ticks within the lookahead
\* are still heard.
SilentAfterStop ==
  \A e \in pending : (e.run # run \/ ~timer \/ ~onMetronome) => e.at < stoppedAt + Lookahead

\* Nothing that waits to sound is late, or of a metronome that stopped.
InTime == OnTime /\ SilentAfterStop
=============================================================================
