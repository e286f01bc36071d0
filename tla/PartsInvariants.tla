-------------------------- MODULE PartsInvariants ---------------------------
(***************************************************************************)
(* The inductive invariants of three parts that compute more than they     *)
(* write, for every value of the constants: the lookahead scheduler of the *)
(* metronome, the readings and captures of the tuner, and the keys and     *)
(* parents of the seeded rows.  PartsProofs draws the theorems from them.  *)
(*                                                                         *)
(* The ticks of a run and the sum of a window are recursive functions.     *)
(* What they compute is shown by induction over numbers, in the form of a  *)
(* set of numbers that holds 0 and every successor.                        *)
(***************************************************************************)
EXTENDS Metronome, Tuner, Seed, FiniteSetTheorems, FunctionTheorems, WellFoundedInduction, TLAPS

-----------------------------------------------------------------------------
(* Induction on numbers, over a set: the least element of what is wrong.    *)

\* Every set of numbers that is not empty has a least element.
LEMMA LeastNat ==
  ASSUME NEW T \in SUBSET Nat, T # {}
  PROVE \E m \in T : \A n \in T : m <= n
  <1>1. IsWellFoundedOn(OpToRel(<, Nat), Nat)
    BY NatLessThanWellFounded
  <1>2. PICK m \in T : \A n \in T : <<n, m>> \notin OpToRel(<, Nat)
    BY <1>1, WFMin, Zenon
  <1>3. ASSUME NEW n \in T PROVE m <= n
    <2>1. ~(n < m)
      BY <1>2 DEF OpToRel
    <2> QED
      BY <2>1
  <1> QED
    BY <1>3

\* What holds of 0, and of n + 1 when it holds of n, holds of every number.
LEMMA NatSet ==
  ASSUME NEW T \in SUBSET Nat, 0 \in T, \A n \in T : n + 1 \in T
  PROVE T = Nat
  <1> SUFFICES ASSUME Nat \ T # {} PROVE FALSE
    OBVIOUS
  <1>1. PICK m \in Nat \ T : \A n \in Nat \ T : m <= n
    BY LeastNat
  <1>2. m # 0 /\ m - 1 \in Nat
    BY <1>1
  <1>3. m - 1 \in T
    BY <1>1, <1>2
  <1>4. (m - 1) + 1 \in T
    BY <1>3
  <1> QED
    BY <1>1, <1>2, <1>4

\* A function applied again and again: the recursion of Ahead and of Sum.
Repeats(g, P, F, x) ==
  g \in [Nat -> P] /\ g[0] = x /\ \A n \in Nat : g[n + 1] = F[g[n]]
LEMMA Iterates ==
  ASSUME NEW P, NEW F \in [P -> P], NEW x \in P
  PROVE \E g : Repeats(g, P, F, x)
  <1> DEFINE Good(n, h) == /\ h \in [0..n -> P] /\ h[0] = x
                           /\ \A k \in 0..(n - 1) : h[k + 1] = F[h[k]]
  <1>1. ASSUME NEW n \in Nat, NEW h, Good(n, h), NEW i, Good(n + 1, i), NEW k \in 0..n
        PROVE i[k] = h[k]
    <2> DEFINE T == {j \in Nat : j <= n => i[j] = h[j]}
    <2>1. 0 \in T
      BY <1>1
    <2>2. ASSUME NEW j \in T PROVE j + 1 \in T
      <3>1. CASE j + 1 <= n
        <4>1. i[j] = h[j] /\ j \in 0..(n - 1) /\ j \in 0..((n + 1) - 1)
          BY <2>2, <3>1
        <4> QED
          BY <1>1, <4>1
      <3>2. CASE ~(j + 1 <= n)
        BY <3>2
      <3> QED
        BY <3>1, <3>2
    <2>3. T = Nat
      <3> HIDE DEF T
      <3>1. T \in SUBSET Nat
        BY DEF T
      <3> QED
        BY <2>1, <2>2, <3>1, NatSet
    <2> QED
      BY <2>3
  <1>2. \A n \in Nat : \E h : Good(n, h)
    <2> DEFINE T == {n \in Nat : \E h : Good(n, h)}
    <2>1. 0 \in T
      <3>1. Good(0, [j \in 0..0 |-> x])
        OBVIOUS
      <3> QED
        BY <3>1
    <2>2. ASSUME NEW n \in T PROVE n + 1 \in T
      <3>1. PICK h : Good(n, h)
        BY <2>2
      <3>2. PICK i : i = [j \in 0..(n + 1) |-> IF j = n + 1 THEN F[h[n]] ELSE h[j]]
        OBVIOUS
      <3>3. h[n] \in P
        BY <3>1
      <3>4. i \in [0..(n + 1) -> P]
        BY <3>1, <3>2, <3>3
      <3>5. i[0] = x
        BY <3>1, <3>2
      <3>6. ASSUME NEW k \in 0..((n + 1) - 1) PROVE i[k + 1] = F[i[k]]
        BY <3>1, <3>2
      <3>7. Good(n + 1, i)
        BY <3>4, <3>5, <3>6
      <3> QED
        BY <3>7
    <2>3. T = Nat
      <3> HIDE DEF T
      <3>1. T \in SUBSET Nat
        BY DEF T
      <3> QED
        BY <2>1, <2>2, <3>1, NatSet
    <2> QED
      BY <2>3
  <1> DEFINE H(n) == CHOOSE h : Good(n, h)
  <1>3. \A n \in Nat : Good(n, H(n))
    BY <1>2
  <1> DEFINE g == [n \in Nat |-> H(n)[n]]
  <1> HIDE DEF H
  <1>4. g \in [Nat -> P]
    BY <1>3
  <1>5. g[0] = x
    BY <1>3
  <1>6. ASSUME NEW n \in Nat PROVE g[n + 1] = F[g[n]]
    <2>1. Good(n, H(n)) /\ Good(n + 1, H(n + 1))
      BY <1>3
    <2>2. H(n + 1)[n] = H(n)[n]
      <3>1. n \in 0..n
        OBVIOUS
      <3> HIDE DEF Good
      <3> QED
        BY <1>1, <2>1, <3>1
    <2>3. H(n + 1)[n + 1] = F[H(n + 1)[n]]
      BY <2>1
    <2> QED
      BY <2>2, <2>3
  <1> QED
    BY <1>4, <1>5, <1>6 DEF Repeats

-----------------------------------------------------------------------------
(* Metronome: the inductive invariant.                                      *)

\* A tick of a run, and where the next one goes, in a bar that the screens offer.
Beats == {k \in Nat : \E b \in Bars : k < b}
Spots == [at : Nat, beat : Beats, sub : Nat]
Ticks == [at : Nat, beat : Beats, sub : Nat, run : 1..MaxRuns, accent : BOOLEAN]

MetronomeTyped ==
  /\ MetronomeTypeOK
  /\ timer => next \in Spots /\ run > 0 /\ onMetronome
  /\ pending \subseteq Ticks /\ heard \in [1..MaxRuns -> Ticks \cup {NoTick}]
  /\ run \in 0..MaxRuns /\ stoppedAt \in 0..now
  /\ steady \in BOOLEAN /\ delayed \in BOOLEAN

\* What waits to sound is of a run that began, and within the lookahead of the
\* clock, or of the last stop.
Waits(e) ==
  /\ e.run <= run
  /\ e.at < (IF timer /\ e.run = run THEN now ELSE stoppedAt) + Lookahead
  /\ (timer /\ ~delayed /\ e.run = run) => e.at >= now

\* A timer that is not late has left nothing out.
NothingLeftOut == (timer /\ ~delayed) => idle <= Lookahead /\ next.at + idle >= now + Lookahead

InTimeInv == (\A e \in pending : Waits(e)) /\ NothingLeftOut

\* The ticks of this run that wait, and the one heard before them.
WaitingTicks == {e \in pending : e.run = run}
NoneHeard == heard[run] = NoTick
Earlier == WaitingTicks \cup (IF NoneHeard THEN {} ELSE {heard[run]})

\* A position of the bar that is set.
InBar(p) == p.beat < settings.beats /\ p.sub < settings.subdivision
Spot(e) == [at |-> e.at, beat |-> e.beat, sub |-> e.sub]

\* A run begins on the first beat of a bar, and goes on where it was.
FirstTick(p) == NoneHeard /\ p.beat = 0 /\ p.sub = 0 /\ \A f \in WaitingTicks : p.at <= f.at
NextTick(p) == \E d \in Earlier : Spot(p) = Following(d)

\* Under unchanged settings the ticks of a run are a chain without a gap.
Gridded ==
  /\ \A d \in Earlier : InBar(d)
  /\ \A e \in WaitingTicks :
       /\ e.accent <=> settings.accent /\ e.beat = 0 /\ e.sub = 0
       /\ FirstTick(e) \/ NextTick(e)
       /\ \A d \in Earlier : d.at = e.at => d = e
       /\ ~NoneHeard => heard[run].at < e.at
  /\ timer =>
       /\ InBar(next) /\ ((FirstTick(next) /\ WaitingTicks = {}) \/ NextTick(next))
       /\ \A d \in Earlier : d.at < next.at

GridInv ==
  /\ \A r \in 1..MaxRuns : r > run => heard[r] = NoTick
  /\ (steady /\ run > 0) => Gridded

MetronomeInv == MetronomeTyped /\ InTimeInv /\ GridInv

-----------------------------------------------------------------------------
(* Metronome: the ticks that are due.                                       *)

\* A divisor of a positive number is not larger, nor its quotient zero.
LEMMA QuotientFacts ==
  ASSUME NEW c \in Nat \ {0}, NEW k \in Nat \ {0}, c % k = 0
  PROVE (c \div k) \in 1..c
  <1>1. k <= c
    <2>1. c < k => c % k = c
      OBVIOUS
    <2> QED
      BY <2>1
  <1>2. (c \div k) >= 1
    BY <1>1
  <1>3. (c \div k) <= c
    OBVIOUS
  <1> QED
    BY <1>2, <1>3

LEMMA ProductFacts ==
  ASSUME NEW a \in Nat \ {0}, NEW b \in Nat \ {0}
  PROVE a * b \in Nat \ {0}
  OBVIOUS

\* What is left of a count that runs from 0 to n - 1.
LEMMA ModFacts ==
  ASSUME NEW n \in Nat \ {0}, NEW a \in 0..(n - 1)
  PROVE a % n = a /\ (a + 1) % n = (IF a + 1 = n THEN 0 ELSE a + 1)
  <1>1. a % n = a
    OBVIOUS
  <1>2. CASE a + 1 = n
    <2>1. n % n = 0
      OBVIOUS
    <2> QED
      BY <1>1, <1>2, <2>1
  <1>3. CASE a + 1 < n
    <2>1. (a + 1) % n = a + 1
      BY <1>3
    <2> QED
      BY <1>1, <1>3, <2>1
  <1> QED
    BY <1>2, <1>3

LEMMA IntervalFacts ==
  ASSUME MetronomeTypeOK
  PROVE Interval \in 1..UnitsPerMinute
  <1>1. /\ settings.bpm \in Bpms \ {0} /\ settings.subdivision \in Subdivisions \ {0}
        /\ settings.bpm \in Nat \ {0} /\ settings.subdivision \in Nat \ {0}
    BY MetronomeAssumption DEF MetronomeTypeOK
  <1>2. UnitsPerMinute % (settings.bpm * settings.subdivision) = 0
    BY <1>1, MetronomeAssumption
  <1>3. UnitsPerMinute \in Nat \ {0}
    BY DEF UnitsPerMinute
  <1> QED
    <2>1. PICK k \in Nat \ {0} : k = settings.bpm * settings.subdivision
      BY <1>1, ProductFacts
    <2> QED
      BY <1>2, <1>3, <2>1, QuotientFacts DEF Interval

\* The position after a tick is one of the screen's, an interval later.
LEMMA FollowingFacts ==
  ASSUME MetronomeTypeOK, NEW p, p.at \in Nat, p.beat \in Beats, p.sub \in Nat
  PROVE /\ Following(p) \in Spots
        /\ Following(p).at = p.at + Interval
        /\ Following(p).sub = (IF p.sub + 1 >= settings.subdivision THEN 0 ELSE p.sub + 1)
        /\ Following(p).beat = (IF p.sub + 1 >= settings.subdivision
                               THEN (p.beat + 1) % settings.beats ELSE p.beat)
  <1>1. Interval \in Nat
    BY IntervalFacts
  <1>2. /\ settings.beats \in Bars /\ settings.beats \in Nat \ {0}
        /\ settings.subdivision \in Nat
    BY MetronomeAssumption DEF MetronomeTypeOK
  <1>3. p.beat \in Nat
    BY DEF Beats
  <1>4. (p.beat + 1) % settings.beats \in 0..(settings.beats - 1)
    BY <1>2, <1>3
  <1>5. (p.beat + 1) % settings.beats \in Beats
    BY <1>2, <1>4 DEF Beats
  <1>6. PICK f : f = Following(p)
    OBVIOUS
  <1>7. /\ f = [at |-> p.at + Interval, sub |-> f.sub, beat |-> f.beat]
        /\ f.sub = (IF p.sub + 1 >= settings.subdivision THEN 0 ELSE p.sub + 1)
        /\ f.beat = (IF p.sub + 1 >= settings.subdivision
                     THEN (p.beat + 1) % settings.beats ELSE p.beat)
    BY <1>6 DEF Following
  <1>8. f \in Spots
    <2>1. f.sub \in Nat /\ f.beat \in Beats /\ p.at + Interval \in Nat
      BY <1>1, <1>5, <1>7
    <2> QED
      BY <1>7, <2>1 DEF Spots
  <1> QED
    BY <1>6, <1>7, <1>8

LEMMA AheadFacts ==
  ASSUME next \in Spots, \A p \in Spots : Following(p) \in Spots
  PROVE Ahead \in [Nat -> Spots] /\ Ahead[0] = next /\ \A n \in Nat : Ahead[n + 1] = Following(Ahead[n])
  <1> DEFINE Def(g) == [n \in Nat |-> IF n = 0 THEN next ELSE Following(g[n - 1])]
  <1>1. PICK F : F = [p \in Spots |-> Following(p)]
    OBVIOUS
  <1>2. PICK g : Repeats(g, Spots, F, next)
    <2>1. F \in [Spots -> Spots]
      BY <1>1
    <2> QED
      BY <2>1, Iterates
  <1>2b. g \in [Nat -> Spots] /\ g[0] = next /\ \A n \in Nat : g[n + 1] = F[g[n]]
    BY <1>2 DEF Repeats
  <1>3. g = Def(g)
    <2>1. ASSUME NEW n \in Nat PROVE g[n] = (IF n = 0 THEN next ELSE Following(g[n - 1]))
      <3>1. CASE n = 0
        BY <1>2b, <3>1
      <3>2. CASE n # 0
        <4>1. PICK m \in Nat : n = m + 1 /\ n - 1 = m
          BY <3>2
        <4>2. g[m + 1] = F[g[m]] /\ g[m] \in Spots
          BY <1>2b
        <4> QED
          BY <1>1, <3>2, <4>1, <4>2
      <3> QED
        BY <3>1, <3>2
    <2> QED
      BY <1>2b, <2>1
  <1>4. Ahead = CHOOSE h : h = Def(h)
    BY DEF Ahead
  <1> HIDE DEF Def
  <1>5. Ahead = Def(Ahead)
    BY <1>3, <1>4
  <1> USE DEF Def
  <1>6. Ahead[0] = next /\ \A n \in Nat : n # 0 => Ahead[n] = Following(Ahead[n - 1])
    BY <1>5
  <1>7. \A n \in Nat : Ahead[n + 1] = Following(Ahead[n])
    BY <1>6
  <1>8. Ahead \in [Nat -> Spots]
    <2> DEFINE T == {n \in Nat : Ahead[n] \in Spots}
    <2>1. 0 \in T
      BY <1>6
    <2>2. \A n \in T : n + 1 \in T
      BY <1>7
    <2>3. T = Nat
      <3> HIDE DEF T
      <3>1. T \in SUBSET Nat
        BY DEF T
      <3> QED
        BY <2>1, <2>2, <3>1, NatSet
    <2>4. DOMAIN Ahead = Nat
      BY <1>5
    <2> QED
      BY <1>5, <2>3
  <1> QED
    BY <1>6, <1>7, <1>8

\* The positions ahead, one interval from each to the next.
LEMMA AheadGrows ==
  ASSUME MetronomeTypeOK, next \in Spots
  PROVE /\ Ahead \in [Nat -> Spots] /\ Ahead[0] = next
        /\ \A n \in Nat : /\ Ahead[n + 1] = Following(Ahead[n])
                          /\ Ahead[n + 1].at = Ahead[n].at + Interval
                          /\ Ahead[n].at >= next.at + n
        /\ \A m, n \in Nat : m < n => Ahead[m].at < Ahead[n].at
  <1>1. \A p \in Spots : /\ Following(p) \in Spots
                         /\ Following(p).at = p.at + Interval
    <2>1. \A p \in Spots : p.at \in Nat /\ p.beat \in Beats /\ p.sub \in Nat
      BY DEF Spots
    <2> QED
      BY <2>1, FollowingFacts
  <1>2. /\ Ahead \in [Nat -> Spots] /\ Ahead[0] = next
        /\ \A n \in Nat : Ahead[n + 1] = Following(Ahead[n])
    BY <1>1, AheadFacts
  <1>3. \A n \in Nat : Ahead[n + 1].at = Ahead[n].at + Interval /\ Ahead[n].at \in Nat
    <2>1. \A p \in Spots : p.at \in Nat
      BY DEF Spots
    <2> QED
      BY <1>1, <1>2, <2>1
  <1>4. Interval \in Nat /\ Interval >= 1
    BY IntervalFacts
  <1>5. \A n \in Nat : Ahead[n].at >= next.at + n
    <2> DEFINE T == {n \in Nat : Ahead[n].at >= next.at + n}
    <2>1. 0 \in T
      BY <1>2, <1>3
    <2>2. ASSUME NEW n \in T PROVE n + 1 \in T
      <3>1. n \in Nat /\ Ahead[n].at >= next.at + n /\ n + 1 \in Nat /\ next.at \in Nat
        BY <1>2, <1>3
      <3> QED
        BY <1>3, <1>4, <3>1
    <2>3. T = Nat
      <3> HIDE DEF T
      <3>1. T \in SUBSET Nat
        BY DEF T
      <3> QED
        BY <2>1, <2>2, <3>1, NatSet
    <2> QED
      BY <2>3
  <1>6. ASSUME NEW m \in Nat PROVE \A n \in Nat : m < n => Ahead[m].at < Ahead[n].at
    <2> DEFINE T == {n \in Nat : m < n => Ahead[m].at < Ahead[n].at}
    <2>1. 0 \in T
      OBVIOUS
    <2>2. ASSUME NEW n \in T PROVE n + 1 \in T
      <3>1. n \in Nat /\ n + 1 \in Nat /\ (m < n => Ahead[m].at < Ahead[n].at)
        OBVIOUS
      <3>2. Ahead[n + 1].at > Ahead[n].at
        BY <1>3, <1>4, <3>1
      <3>3. m < n + 1 => m < n \/ m = n
        BY <3>1
      <3>4. Ahead[m].at \in Nat /\ Ahead[n].at \in Nat /\ Ahead[n + 1].at \in Nat
        BY <1>3, <3>1
      <3> QED
        BY <3>1, <3>2, <3>3, <3>4
    <2>3. T = Nat
      <3> HIDE DEF T
      <3>1. T \in SUBSET Nat
        BY DEF T
      <3> QED
        BY <2>1, <2>2, <3>1, NatSet
    <2> QED
      BY <2>3
  <1> QED
    BY <1>2, <1>3, <1>5, <1>6

\* A call of the timer hands over the positions before a time, and stops at the
\* first one that is not.
LEMMA DueFacts ==
  ASSUME MetronomeTypeOK, next \in Spots, NEW until \in Nat
  PROVE \E c \in Nat :
          /\ Due(until).next = Ahead[c] /\ Ahead[c].at >= until
          /\ c > 0 => Ahead[c - 1].at < until
          /\ Due(until).ticks = {Tick(Ahead[m]) : m \in 0..(c - 1)}
          /\ \A m \in 0..(c - 1) : Ahead[m].at < until
  <1> DEFINE Enough(n) == Ahead[n].at >= until /\ (n = 0 \/ Ahead[n - 1].at < until)
             T == {n \in 0..until : Ahead[n].at >= until}
             c == CHOOSE n \in 0..until : Enough(n)
  <1>1. \A n \in Nat : Ahead[n].at \in Nat /\ Ahead[n].at >= n
    <2>1. \A p \in Spots : p.at \in Nat
      BY DEF Spots
    <2>2. \A n \in Nat : Ahead[n].at \in Nat /\ Ahead[n].at >= next.at + n
      BY <2>1, AheadGrows
    <2> QED
      BY <2>1, <2>2
  <1>2. \E n \in 0..until : Enough(n)
    <2>1. until \in T
      BY <1>1
    <2>2. PICK n \in T : \A k \in T : n <= k
      <3> HIDE DEF T
      <3>1. T \in SUBSET Nat /\ T # {}
        BY <2>1 DEF T
      <3> QED
        BY <3>1, LeastNat
    <2>3. n = 0 \/ (n - 1 \in 0..until /\ n - 1 \notin T)
      BY <2>2
    <2>4. n = 0 \/ Ahead[n - 1].at < until
      BY <1>1, <2>2, <2>3
    <2> QED
      BY <2>2, <2>4
  <1>3. c \in 0..until /\ Enough(c)
    BY <1>2
  <1>4. Due(until) = [ticks |-> {Tick(Ahead[m]) : m \in 0..(c - 1)}, next |-> Ahead[c]]
    BY DEF Due
  <1> HIDE DEF c
  <1>5. ASSUME NEW m \in 0..(c - 1) PROVE Ahead[m].at < until
    <2>1. m \in Nat /\ c - 1 \in Nat /\ (m < c - 1 \/ m = c - 1) /\ c # 0
      BY <1>3
    <2>2. Ahead[c - 1].at < until
      BY <1>3, <2>1
    <2>3. m < c - 1 => Ahead[m].at < Ahead[c - 1].at
      BY <2>1, AheadGrows
    <2>4. Ahead[m].at \in Nat /\ Ahead[c - 1].at \in Nat
      BY <1>1, <2>1
    <2> QED
      BY <2>1, <2>2, <2>3, <2>4
  <1> QED
    BY <1>3, <1>4, <1>5

-----------------------------------------------------------------------------
(* Metronome: types.                                                        *)

LEMMA TickFacts ==
  ASSUME NEW p \in Spots, run \in 1..MaxRuns, settings.accent \in BOOLEAN
  PROVE /\ Tick(p) \in Ticks
        /\ Tick(p).at = p.at /\ Tick(p).beat = p.beat /\ Tick(p).sub = p.sub /\ Tick(p).run = run
        /\ Tick(p).accent <=> p.sub = 0 /\ p.beat = 0 /\ settings.accent
        /\ Spot(Tick(p)) = p
  BY DEF Tick, Ticks, Spots, Spot

LEMMA OffFacts ==
  /\ Off \in Positions /\ Off.at = -1
  /\ \A p \in Spots : p # Off
  <1>1. Off.at = -1
    BY DEF Off
  <1>2. \A p \in Spots : p.at \in Nat
    BY DEF Spots
  <1>3. Off \in Positions
    BY MetronomeAssumption DEF Off, Positions, UnitsPerMinute
  <1> QED
    BY <1>1, <1>2, <1>3

LEMMA SpotPosition ==
  ASSUME NEW p \in Spots, p.at <= MaxTime + Lookahead + UnitsPerMinute
  PROVE p \in Positions
  BY MetronomeAssumption DEF Spots, Positions, Beats, UnitsPerMinute

\* A timer's call leaves the next position behind the lookahead, not too far.
LEMMA DueTyped ==
  ASSUME MetronomeTyped, timer
  PROVE LET due == Due(now + Lookahead)  IN
        /\ due.ticks \subseteq Ticks
        /\ due.next \in Spots /\ due.next \in Positions /\ due.next.at >= now + Lookahead
        /\ \A e \in due.ticks : e.run = run /\ next.at <= e.at /\ e.at < now + Lookahead
  <1> DEFINE due == Due(now + Lookahead)
  <1>0. /\ MetronomeTypeOK /\ next \in Spots /\ next \in Positions /\ run \in 1..MaxRuns
        /\ settings.accent \in BOOLEAN /\ now \in 0..MaxTime /\ now + Lookahead \in Nat
    BY MetronomeAssumption DEF MetronomeTyped, MetronomeTypeOK
  <1>1. PICK c \in Nat :
          /\ due.next = Ahead[c] /\ Ahead[c].at >= now + Lookahead
          /\ c > 0 => Ahead[c - 1].at < now + Lookahead
          /\ due.ticks = {Tick(Ahead[m]) : m \in 0..(c - 1)}
          /\ \A m \in 0..(c - 1) : Ahead[m].at < now + Lookahead
    BY <1>0, DueFacts
  <1>2. /\ \A n \in Nat : Ahead[n] \in Spots /\ Ahead[n].at \in Nat
        /\ Ahead[0] = next
        /\ \A n \in Nat : /\ Ahead[n + 1].at = Ahead[n].at + Interval
                          /\ Ahead[n].at >= next.at
    <2>1. \A p \in Spots : p.at \in Nat
      BY DEF Spots
    <2>2. /\ Ahead \in [Nat -> Spots] /\ Ahead[0] = next
          /\ \A n \in Nat : Ahead[n + 1].at = Ahead[n].at + Interval /\ Ahead[n].at >= next.at + n
      BY <1>0, AheadGrows
    <2> QED
      BY <1>0, <2>1, <2>2
  <1> HIDE DEF due
  <1>3. ASSUME NEW e \in due.ticks
        PROVE e \in Ticks /\ e.run = run /\ next.at <= e.at /\ e.at < now + Lookahead
    <2>1. PICK m \in 0..(c - 1) : e = Tick(Ahead[m])
      BY <1>1
    <2>2. m \in Nat /\ Ahead[m] \in Spots /\ Ahead[m].at < now + Lookahead /\ Ahead[m].at >= next.at
      BY <1>1, <1>2
    <2>3. e \in Ticks /\ e.at = Ahead[m].at /\ e.run = run
      BY <1>0, <2>1, <2>2, TickFacts
    <2> QED
      BY <2>2, <2>3
  <1>4. due.next \in Spots /\ due.next.at >= now + Lookahead
    BY <1>1, <1>2
  <1>5. due.next \in Positions
    <2>1. CASE c = 0
      BY <1>0, <1>1, <1>2, <2>1
    <2>2. CASE c # 0
      <3>1. PICK b \in Nat : c = b + 1 /\ c - 1 = b
        BY <2>2
      <3>2. Ahead[c].at = Ahead[b].at + Interval /\ Ahead[b].at < now + Lookahead
        BY <1>1, <1>2, <2>2, <3>1
      <3>3. Interval \in 1..UnitsPerMinute
        BY <1>0, IntervalFacts
      <3>4. Ahead[c].at <= MaxTime + Lookahead + UnitsPerMinute
        BY <1>0, <1>2, <3>1, <3>2, <3>3, MetronomeAssumption DEF UnitsPerMinute
      <3> QED
        BY <1>1, <1>2, <3>4, SpotPosition
    <2> QED
      BY <2>1, <2>2
  <1> QED
    BY <1>3, <1>4, <1>5 DEF due

LEMMA SetFacts ==
  ASSUME MetronomeTyped, Set
  PROVE /\ settings' \in [bpm : Bpms \ {0}, beats : Bars \ {0},
                          subdivision : Subdivisions \ {0}, accent : BOOLEAN]
        /\ onMetronome
        /\ steady' = (steady /\ settings' = settings)
        /\ UNCHANGED <<next, timer, onMetronome, pending, currentBeat, now, idle, heard, run,
                       stoppedAt, delayed>>
  <1> DEFINE Settings == [bpm : Bpms \ {0}, beats : Bars \ {0},
                          subdivision : Subdivisions \ {0}, accent : BOOLEAN]
  <1>1. settings \in Settings
    BY DEF MetronomeTyped, MetronomeTypeOK
  <1>2. ASSUME NEW s, s.bpm \in Bpms, s.beats \in Bars, s.subdivision \in Subdivisions,
               s.accent \in BOOLEAN,
               s = [bpm |-> s.bpm, beats |-> s.beats, subdivision |-> s.subdivision,
                    accent |-> s.accent],
               UpdateState(s)
        PROVE settings' \in Settings
    <2>1. CASE Valid(s)
      <3>1. s.bpm # 0 /\ s.beats # 0 /\ s.subdivision # 0
        BY <1>2, <2>1, MetronomeAssumption DEF Valid
      <3>2. s \in Settings
        BY <1>2, <3>1
      <3> QED
        BY <1>2, <2>1, <3>2 DEF UpdateState
    <2>2. CASE ~Valid(s)
      BY <1>1, <1>2, <2>2 DEF UpdateState
    <2> QED
      BY <2>1, <2>2
  <1>3. PICK s : /\ UpdateState(s)
                 /\ \/ \E b \in Bpms : s = [settings EXCEPT !.bpm = b]
                    \/ \E b \in Bars : s = [settings EXCEPT !.beats = b]
                    \/ \E b \in Subdivisions : s = [settings EXCEPT !.subdivision = b]
                    \/ s = [settings EXCEPT !.accent = ~@]
    BY DEF Set
  <1>4. /\ s.bpm \in Bpms /\ s.beats \in Bars /\ s.subdivision \in Subdivisions
        /\ s.accent \in BOOLEAN
        /\ s = [bpm |-> s.bpm, beats |-> s.beats, subdivision |-> s.subdivision,
                accent |-> s.accent]
    BY <1>1, <1>3
  <1>5. settings' \in Settings
    BY <1>2, <1>3, <1>4
  <1> QED
    BY <1>3, <1>5 DEF UpdateState

LEMMA MetronomeTypedInit == MetronomeInit => MetronomeTyped
  <1> SUFFICES ASSUME MetronomeInit PROVE MetronomeTyped
    OBVIOUS
  <1>1. settings \in [bpm : Bpms \ {0}, beats : Bars \ {0},
                      subdivision : Subdivisions \ {0}, accent : BOOLEAN]
    BY MetronomeAssumption DEF MetronomeInit
  <1>2. next = Off /\ next \in Positions /\ ~timer /\ onMetronome
    BY OffFacts DEF MetronomeInit
  <1>3. /\ currentBeat = -1 /\ now \in 0..MaxTime /\ idle \in (0..MaxIdle) \cup {Lookahead}
        /\ timer \in BOOLEAN /\ onMetronome \in BOOLEAN
    <2>1. 0 \in 0..MaxTime /\ 0 \in 0..MaxIdle
      BY MetronomeAssumption
    <2> QED
      BY <2>1 DEF MetronomeInit
  <1>4. MetronomeTypeOK
    BY <1>1, <1>2, <1>3 DEF MetronomeTypeOK
  <1>5. /\ pending \subseteq Ticks /\ heard \in [1..MaxRuns -> Ticks \cup {NoTick}]
        /\ run \in 0..MaxRuns /\ stoppedAt \in 0..now
        /\ steady \in BOOLEAN /\ delayed \in BOOLEAN
    <2>1. 0 \in 0..MaxRuns /\ 0 \in 0..0
      BY MetronomeAssumption
    <2>2. run = 0 /\ stoppedAt = 0 /\ now = 0 /\ steady = TRUE /\ delayed = FALSE
      BY DEF MetronomeInit
    <2>3. pending = {} /\ heard = [r \in 1..MaxRuns |-> NoTick]
      BY DEF MetronomeInit
    <2> QED
      BY <2>1, <2>2, <2>3
  <1> QED
    BY <1>2, <1>4, <1>5 DEF MetronomeTyped

LEMMA StopTimerTyped ==
  ASSUME MetronomeTyped, StopTimer, onMetronome' \in BOOLEAN
  PROVE MetronomeTyped'
  <1>1. /\ settings' = settings /\ now' = now /\ next' = Off /\ Off \in Positions
        /\ timer' = FALSE /\ idle' = 0 /\ currentBeat' = -1
    BY OffFacts DEF StopTimer
  <1>2. MetronomeTypeOK'
    <2>1. idle' \in (0..MaxIdle) \cup {Lookahead} /\ timer' \in BOOLEAN /\ (timer' <=> next' # Off)
      <3>1. 0 \in 0..MaxIdle
        BY MetronomeAssumption
      <3> QED
        BY <1>1, <3>1
    <2>2. next' \in Positions /\ (currentBeat' = -1 \/ \E b \in Bars : currentBeat' \in 0..(b - 1))
      BY <1>1
    <2> QED
      BY <1>1, <2>1, <2>2 DEF MetronomeTyped, MetronomeTypeOK
  <1>3. stoppedAt' \in 0..now'
    BY DEF StopTimer, MetronomeTyped, MetronomeTypeOK
  <1> QED
    BY <1>1, <1>2, <1>3 DEF MetronomeTyped, StopTimer

LEMMA MetronomeTypedKept ==
  ASSUME MetronomeTyped, MetronomeNext
  PROVE MetronomeTyped'
  <1>0. /\ MetronomeTypeOK /\ now \in 0..MaxTime /\ run \in 0..MaxRuns
        /\ timer \in BOOLEAN /\ onMetronome \in BOOLEAN
    BY DEF MetronomeTyped, MetronomeTypeOK
  <1>1. CASE Set
    <2>1. MetronomeTypeOK'
      BY <1>1, SetFacts DEF MetronomeTyped, MetronomeTypeOK
    <2>2. UNCHANGED <<next, timer, onMetronome, pending, now, heard, run, stoppedAt, delayed>>
      BY <1>1, SetFacts
    <2>3. steady' \in BOOLEAN
      BY <1>1, SetFacts DEF MetronomeTyped
    <2> QED
      BY <2>1, <2>2, <2>3 DEF MetronomeTyped
  <1>2. CASE Start
    <2>1. next' \in Spots
      <3>1. 0 \in Beats
        BY MetronomeAssumption DEF Beats
      <3> QED
        BY <1>0, <1>2, <3>1 DEF Start, Spots
    <2>2. next' \in Positions
      <3>1. next'.at = now
        BY <1>2 DEF Start
      <3>2. now <= MaxTime + Lookahead + UnitsPerMinute
        BY <1>0, MetronomeAssumption DEF UnitsPerMinute
      <3>3. \A p \in Spots : p.at <= MaxTime + Lookahead + UnitsPerMinute => p \in Positions
        BY SpotPosition
      <3> QED
        BY <2>1, <3>1, <3>2, <3>3
    <2>3. next' # Off
      BY <2>1, OffFacts
    <2>4. /\ timer' = TRUE /\ onMetronome' = onMetronome /\ onMetronome /\ idle' = Lookahead
          /\ UNCHANGED <<settings, currentBeat, now, heard, stoppedAt, pending>>
          /\ run' = run + 1 /\ run' \in 0..MaxRuns /\ run' > 0
          /\ steady' = TRUE /\ delayed' = FALSE
      BY <1>0, <1>2, MetronomeAssumption DEF Start
    <2>5. MetronomeTypeOK'
      BY <2>2, <2>3, <2>4 DEF MetronomeTyped, MetronomeTypeOK
    <2> QED
      BY <2>1, <2>4, <2>5 DEF MetronomeTyped
  <1>3. CASE Scheduler
    <2>1. /\ timer /\ next' \in Spots /\ next' \in Positions /\ pending' \subseteq Ticks
      BY <1>3, DueTyped DEF Scheduler, MetronomeTyped
    <2>2. next' # Off
      BY <2>1, OffFacts
    <2>3. MetronomeTypeOK'
      BY <1>0, <1>3, <2>1, <2>2, MetronomeAssumption DEF Scheduler, MetronomeTypeOK
    <2> QED
      BY <1>3, <2>1, <2>3 DEF Scheduler, MetronomeTyped
  <1>4. ASSUME NEW e \in pending, Sound(e) PROVE MetronomeTyped'
    <2>1. e \in Ticks /\ e.run \in 1..MaxRuns /\ e.beat \in Beats
      BY DEF MetronomeTyped, Ticks
    <2>2. heard' \in [1..MaxRuns -> Ticks \cup {NoTick}]
      BY <1>4, <2>1 DEF Sound, MetronomeTyped
    <2>3. currentBeat' = -1 \/ \E b \in Bars : currentBeat' \in 0..(b - 1)
      <3>1. \E b \in Bars : e.beat \in 0..(b - 1)
        BY <2>1, MetronomeAssumption DEF Beats
      <3> QED
        BY <1>0, <1>4, <3>1 DEF Sound, MetronomeTypeOK
    <2>4. MetronomeTypeOK'
      BY <1>0, <1>4, <2>3 DEF Sound, MetronomeTypeOK, engine
    <2>5. pending' \subseteq Ticks
      BY <1>4 DEF Sound, MetronomeTyped
    <2> QED
      BY <1>4, <2>2, <2>4, <2>5 DEF Sound, MetronomeTyped, engine
  <1>5. CASE Stop
    BY <1>0, <1>5, StopTimerTyped DEF Stop
  <1>6. CASE LeaveMetronome
    BY <1>0, <1>6, StopTimerTyped DEF LeaveMetronome
  <1>7. CASE Clock
    <2>1. now' \in 0..MaxTime /\ idle' \in (0..MaxIdle) \cup {Lookahead} /\ now' = now + 1
      <3>1. timer => idle + 1 \in 0..MaxIdle
        BY <1>0, <1>7, MetronomeAssumption DEF Clock, MetronomeTypeOK
      <3> QED
        BY <1>0, <1>7, <3>1, MetronomeAssumption DEF Clock
    <2>2. MetronomeTypeOK'
      BY <1>0, <1>7, <2>1 DEF Clock, MetronomeTypeOK, engine
    <2>3. stoppedAt' \in 0..now'
      BY <1>0, <1>7, <2>1 DEF Clock, MetronomeTyped
    <2>4. delayed' \in BOOLEAN
      BY <1>7 DEF Clock, MetronomeTyped
    <2> QED
      BY <1>7, <2>2, <2>3, <2>4 DEF Clock, MetronomeTyped, engine
  <1> QED
    BY <1>1, <1>2, <1>3, <1>4, <1>5, <1>6, <1>7 DEF MetronomeNext

-----------------------------------------------------------------------------
(* Metronome: what waits to sound is in time.                               *)

LEMMA InTimeKept ==
  ASSUME MetronomeTyped, MetronomeTyped', InTimeInv, MetronomeNext
  PROVE InTimeInv'
  <1>0. /\ now \in Int /\ idle \in Int /\ Lookahead \in Nat /\ run \in Nat /\ stoppedAt \in 0..now
        /\ timer \in BOOLEAN /\ delayed \in BOOLEAN
        /\ \A e \in Ticks : e.at \in Nat /\ e.run \in Nat
        /\ timer => next.at \in Nat
        /\ pending \subseteq Ticks
    <2>1. now \in Int /\ idle \in Int /\ Lookahead \in Nat /\ timer \in BOOLEAN
      BY MetronomeAssumption DEF MetronomeTyped, MetronomeTypeOK
    <2>2. run \in Nat /\ stoppedAt \in 0..now /\ delayed \in BOOLEAN /\ pending \subseteq Ticks
      BY MetronomeAssumption DEF MetronomeTyped
    <2>3. \A e \in Ticks : e.at \in Nat /\ e.run \in Nat
      BY MetronomeAssumption DEF Ticks
    <2>4. timer => next.at \in Nat
      BY DEF MetronomeTyped, Spots
    <2> QED
      BY <2>1, <2>2, <2>3, <2>4
  <1>1. CASE Set
    BY <1>1, SetFacts DEF InTimeInv, Waits, NothingLeftOut
  <1>2. CASE Start
    <2>1. /\ timer' = TRUE /\ run' = run + 1 /\ delayed' = FALSE /\ idle' = Lookahead
          /\ next'.at = now
          /\ UNCHANGED <<pending, now, stoppedAt>>
      BY <1>2 DEF Start
    <2>2. ~timer
      BY <1>2 DEF Start
    <2>3. ASSUME NEW e \in pending PROVE Waits(e)'
      <3>1. e.run <= run /\ e.at < stoppedAt + Lookahead
        BY <2>2 DEF InTimeInv, Waits
      <3>2. e.run # run + 1 /\ e.run <= run + 1
        BY <1>0, <3>1
      <3> QED
        BY <2>1, <3>1, <3>2 DEF Waits
    <2>4. NothingLeftOut'
      BY <1>0, <2>1 DEF NothingLeftOut
    <2> QED
      BY <2>1, <2>3, <2>4 DEF InTimeInv
  <1>3. CASE Scheduler
    <2>1. PICK new : new = Due(now + Lookahead)
      OBVIOUS
    <2>2. /\ timer /\ pending' = pending \cup new.ticks /\ next' = new.next /\ idle' = 0
          /\ UNCHANGED <<timer, now, run, stoppedAt, delayed>>
      BY <1>3, <2>1 DEF Scheduler
    <2>3. /\ new.next.at >= now + Lookahead /\ new.ticks \subseteq Ticks
          /\ \A e \in new.ticks : e.run = run /\ next.at <= e.at /\ e.at < now + Lookahead
      BY <2>1, <2>2, DueTyped
    <2>4. ASSUME NEW e \in pending PROVE Waits(e)'
      BY <2>2 DEF InTimeInv, Waits
    <2>5. ASSUME NEW e \in new.ticks PROVE Waits(e)'
      <3>1. e.run = run /\ next.at <= e.at /\ e.at < now + Lookahead /\ e.at \in Nat
        BY <1>0, <2>3
      <3>2. ~delayed => next.at >= now
        BY <1>0, <2>2 DEF InTimeInv, NothingLeftOut
      <3>3. ~delayed => e.at >= now
        BY <1>0, <2>2, <3>1, <3>2
      <3> QED
        BY <1>0, <2>2, <3>1, <3>3 DEF Waits
    <2>6. NothingLeftOut'
      <3>1. next'.at \in Nat
        BY <2>2 DEF MetronomeTyped, Spots
      <3> QED
        BY <1>0, <2>2, <2>3, <3>1 DEF NothingLeftOut
    <2> QED
      BY <2>2, <2>4, <2>5, <2>6 DEF InTimeInv
  <1>4. ASSUME NEW e \in pending, Sound(e) PROVE InTimeInv'
    <2>1. /\ pending' \subseteq pending
          /\ UNCHANGED <<timer, now, idle, next, run, stoppedAt, delayed>>
      BY <1>4 DEF Sound, engine
    <2> QED
      BY <2>1 DEF InTimeInv, Waits, NothingLeftOut
  <1>5. ASSUME StopTimer PROVE InTimeInv'
    <2>1. /\ timer' = FALSE /\ stoppedAt' = (IF timer THEN now ELSE stoppedAt)
          /\ UNCHANGED <<pending, now, run, delayed>>
      BY <1>5 DEF StopTimer
    <2>2. ASSUME NEW e \in pending PROVE Waits(e)'
      <3>1. /\ e.run <= run /\ e.at \in Nat
            /\ e.at < (IF timer /\ e.run = run THEN now ELSE stoppedAt) + Lookahead
        BY <1>0 DEF InTimeInv, Waits
      <3>2. e.at < stoppedAt' + Lookahead
        BY <1>0, <2>1, <3>1
      <3> QED
        BY <2>1, <3>1, <3>2 DEF Waits
    <2> QED
      BY <2>1, <2>2 DEF InTimeInv, NothingLeftOut
  <1>6. CASE Clock
    <2>1. /\ now' = now + 1 /\ \A e \in pending : e.at > now
          /\ idle' = (IF timer THEN idle + 1 ELSE 0)
          /\ delayed' = (delayed \/ idle' > Lookahead)
          /\ UNCHANGED <<next, timer, pending, run, stoppedAt>>
      BY <1>6 DEF Clock, engine
    <2>2. ASSUME NEW e \in pending PROVE Waits(e)'
      <3>1. /\ e.run <= run /\ e.at \in Nat /\ e.at > now
            /\ e.at < (IF timer /\ e.run = run THEN now ELSE stoppedAt) + Lookahead
        BY <1>0, <2>1 DEF InTimeInv, Waits
      <3>2. /\ e.at >= now'
            /\ e.at < (IF timer /\ e.run = run THEN now' ELSE stoppedAt) + Lookahead
        BY <1>0, <2>1, <3>1
      <3> QED
        BY <2>1, <3>1, <3>2 DEF Waits
    <2>3. NothingLeftOut'
      <3>1. ASSUME timer, ~delayed, ~(idle' > Lookahead)
            PROVE idle' <= Lookahead /\ next.at + idle' >= now' + Lookahead
        <4>1. next.at + idle >= now + Lookahead /\ idle' = idle + 1 /\ next.at \in Nat
          BY <1>0, <2>1, <3>1 DEF InTimeInv, NothingLeftOut
        <4> QED
          BY <1>0, <2>1, <3>1, <4>1
      <3> QED
        BY <2>1, <3>1 DEF NothingLeftOut
    <2> QED
      BY <2>1, <2>2, <2>3 DEF InTimeInv
  <1> QED
    BY <1>1, <1>2, <1>3, <1>4, <1>5, <1>6 DEF MetronomeNext, Stop, LeaveMetronome

-----------------------------------------------------------------------------
(* Metronome: the ticks of a run are a chain.                               *)

\* The position after one in the bar is in the bar, and as the bar counts on.
LEMMA FollowingInBar ==
  ASSUME MetronomeTypeOK, NEW p, p.at \in Nat, p.beat \in Beats, p.sub \in Nat, InBar(p)
  PROVE /\ InBar(Following(p))
        /\ Following(p).sub = (p.sub + 1) % settings.subdivision
        /\ Following(p).beat =
             (IF Following(p).sub = 0 THEN p.beat + 1 ELSE p.beat) % settings.beats
  <1>1. /\ settings.beats \in Nat \ {0} /\ settings.subdivision \in Nat \ {0}
        /\ p.beat \in 0..(settings.beats - 1) /\ p.sub \in 0..(settings.subdivision - 1)
    BY MetronomeAssumption DEF MetronomeTypeOK, InBar, Beats
  <1>2. PICK f : f = Following(p)
    OBVIOUS
  <1>3. /\ f.sub = (IF p.sub + 1 >= settings.subdivision THEN 0 ELSE p.sub + 1)
        /\ f.beat = (IF p.sub + 1 >= settings.subdivision
                     THEN (p.beat + 1) % settings.beats ELSE p.beat)
    BY <1>2, FollowingFacts
  <1>4. (p.sub + 1) % settings.subdivision =
          (IF p.sub + 1 = settings.subdivision THEN 0 ELSE p.sub + 1)
    BY <1>1, ModFacts
  <1>5. /\ p.beat % settings.beats = p.beat
        /\ (p.beat + 1) % settings.beats = (IF p.beat + 1 = settings.beats THEN 0 ELSE p.beat + 1)
    BY <1>1, ModFacts
  <1>6. f.sub = (p.sub + 1) % settings.subdivision /\ f.sub < settings.subdivision
    BY <1>1, <1>3, <1>4
  <1>7. f.sub = 0 <=> p.sub + 1 >= settings.subdivision
    BY <1>1, <1>3
  <1>8. /\ f.beat = (IF f.sub = 0 THEN p.beat + 1 ELSE p.beat) % settings.beats
        /\ f.beat < settings.beats
    <2>1. CASE p.sub + 1 >= settings.subdivision
      BY <1>1, <1>3, <1>5, <1>7, <2>1
    <2>2. CASE ~(p.sub + 1 >= settings.subdivision)
      BY <1>1, <1>3, <1>5, <1>7, <2>2
    <2> QED
      BY <2>1, <2>2
  <1> QED
    BY <1>2, <1>6, <1>8 DEF InBar

LEMMA EarlierTyped ==
  ASSUME MetronomeTyped, run > 0
  PROVE /\ Earlier \subseteq Ticks /\ WaitingTicks \subseteq Earlier
        /\ ~NoneHeard => heard[run] \in Earlier
        /\ \A d \in Earlier : d \in WaitingTicks \/ (~NoneHeard /\ d = heard[run])
  <1>1. WaitingTicks \subseteq Ticks
    BY DEF WaitingTicks, MetronomeTyped
  <1>2. ~NoneHeard => heard[run] \in Ticks
    <2>1. run \in 1..MaxRuns
      BY MetronomeAssumption DEF MetronomeTyped
    <2> QED
      BY <2>1 DEF MetronomeTyped, NoneHeard
  <1> QED
    BY <1>1, <1>2 DEF Earlier

LEMMA TickTypes ==
  \A d \in Ticks : /\ d.at \in Nat /\ d.beat \in Beats /\ d.sub \in Nat /\ d.run \in Nat
                   /\ Spot(d) \in Spots /\ Spot(d).at = d.at /\ Spot(d).beat = d.beat
                   /\ Spot(d).sub = d.sub
  BY MetronomeAssumption DEF Ticks, Spots, Spot

\* What a tick that follows one of its run has of it.
LEMMA NextTickFacts ==
  ASSUME MetronomeTyped, NEW d \in Ticks, NEW p, Spot(p) = Following(d)
  PROVE p.at = d.at + Interval /\ p.at \in Nat /\ p.at > d.at
  <1>1. Following(d).at = d.at + Interval /\ d.at \in Nat
    BY FollowingFacts, TickTypes DEF MetronomeTyped
  <1>2. Interval \in 1..UnitsPerMinute
    BY IntervalFacts DEF MetronomeTyped
  <1>3. Spot(p).at = p.at
    BY DEF Spot
  <1> QED
    BY <1>1, <1>2, <1>3 DEF UnitsPerMinute

\* The tick that sounds is the first of its run, or follows the last one heard.
LEMMA SoundsNext ==
  ASSUME MetronomeTyped, Gridded, run > 0, NEW e \in WaitingTicks,
         \A f \in pending : e.at <= f.at
  PROVE /\ NoneHeard => e.beat = 0 /\ e.sub = 0
        /\ ~NoneHeard => Spot(e) = Following(heard[run])
  <1>1. e \in pending /\ e \in Ticks
    BY DEF WaitingTicks, MetronomeTyped
  <1>2. ASSUME NEW d \in WaitingTicks PROVE Spot(e) # Following(d)
    <2>1. d \in Ticks /\ d \in pending
      BY DEF WaitingTicks, MetronomeTyped
    <2>2. e.at <= d.at /\ e.at \in Nat /\ d.at \in Nat
      BY <1>1, <2>1, TickTypes
    <2>3. Spot(e) = Following(d) => e.at > d.at
      BY <2>1, NextTickFacts
    <2> QED
      BY <2>2, <2>3
  <1>3. FirstTick(e) \/ NextTick(e)
    BY DEF Gridded
  <1>4. CASE FirstTick(e)
    BY <1>4 DEF FirstTick
  <1>5. CASE NextTick(e)
    <2>1. PICK d \in Earlier : Spot(e) = Following(d)
      BY <1>5 DEF NextTick
    <2>2. ~NoneHeard /\ d = heard[run]
      BY <1>2, <2>1, EarlierTyped
    <2> QED
      BY <2>1, <2>2
  <1> QED
    BY <1>3, <1>4, <1>5

\* A step that leaves settings, ticks and runs alone, and moves no position.
LEMMA GridSame ==
  ASSUME GridInv, UNCHANGED <<settings, pending, heard, run>>, steady' => steady,
         timer' => timer /\ next' = next
  PROVE GridInv'
  <1>1. /\ WaitingTicks' = WaitingTicks /\ (NoneHeard' <=> NoneHeard) /\ Earlier' = Earlier
        /\ Interval' = Interval
    BY DEF WaitingTicks, NoneHeard, Earlier, Interval
  <1>2. \A d : Following(d)' = Following(d)
    BY <1>1 DEF Following
  <1>3. Gridded => Gridded'
    BY <1>1, <1>2 DEF Gridded, InBar, FirstTick, NextTick
  <1> QED
    BY <1>3 DEF GridInv

LEMMA GridStart ==
  ASSUME MetronomeTyped, InTimeInv, GridInv, Start
  PROVE GridInv'
  <1>1. /\ run' = run + 1 /\ run \in Nat /\ run' \in 1..MaxRuns
        /\ timer' = TRUE /\ next' = [at |-> now, beat |-> 0, sub |-> 0]
        /\ UNCHANGED <<settings, pending, heard>>
    BY MetronomeAssumption DEF Start, MetronomeTyped
  <1>2. WaitingTicks' = {}
    <2>1. ASSUME NEW e \in pending PROVE e.run # run + 1
      <3>1. e.run \in Nat /\ e.run <= run
        BY TickTypes DEF InTimeInv, Waits, MetronomeTyped
      <3> QED
        BY <1>1, <3>1
    <2> QED
      BY <1>1, <2>1 DEF WaitingTicks
  <1>3. \A r \in 1..MaxRuns : r > run' => heard'[r] = NoTick
    BY <1>1 DEF GridInv
  <1>4. NoneHeard'
    BY <1>1 DEF GridInv, NoneHeard
  <1>5. Earlier' = {}
    BY <1>2, <1>4 DEF Earlier
  <1>6. InBar(next)'
    <2>1. settings.beats \in Nat \ {0} /\ settings.subdivision \in Nat \ {0}
      BY MetronomeAssumption DEF MetronomeTyped, MetronomeTypeOK
    <2> QED
      BY <1>1, <2>1 DEF InBar
  <1>7. FirstTick(next)'
    BY <1>1, <1>2, <1>4 DEF FirstTick
  <1>8. Gridded'
    BY <1>2, <1>5, <1>6, <1>7 DEF Gridded
  <1> QED
    BY <1>3, <1>8 DEF GridInv

LEMMA GridSound ==
  ASSUME MetronomeTyped, InTimeInv, GridInv, NEW e \in pending, Sound(e)
  PROVE GridInv'
  <1>1. /\ pending' = pending \ {e} /\ heard' = [heard EXCEPT ![e.run] = e]
        /\ \A f \in pending : e.at <= f.at
        /\ UNCHANGED <<settings, next, timer, run, steady>>
    BY DEF Sound, engine
  <1>2. e \in Ticks /\ e.run \in 1..MaxRuns /\ e.run <= run /\ run \in Nat
    BY MetronomeAssumption DEF MetronomeTyped, Ticks, InTimeInv, Waits
  <1>3. \A r \in 1..MaxRuns : r > run' => heard'[r] = NoTick
    BY <1>1, <1>2 DEF GridInv, MetronomeTyped
  <1>4. Interval' = Interval /\ \A d : Following(d)' = Following(d)
    BY <1>1 DEF Interval, Following
  <1>5. CASE e.run # run
    <2>1. heard'[run] = heard[run]
      BY <1>1, <1>2, <1>5 DEF MetronomeTyped
    <2>2. WaitingTicks' = WaitingTicks
      BY <1>1, <1>5 DEF WaitingTicks
    <2>3. (NoneHeard' <=> NoneHeard) /\ Earlier' = Earlier
      BY <1>1, <2>1, <2>2 DEF NoneHeard, Earlier
    <2>4. Gridded => Gridded'
      BY <1>1, <1>4, <2>1, <2>2, <2>3 DEF Gridded, InBar, FirstTick, NextTick
    <2> QED
      BY <1>1, <1>3, <2>4 DEF GridInv
  <1>6. CASE e.run = run
    <2> SUFFICES ASSUME steady', run' > 0 PROVE Gridded'
      BY <1>3 DEF GridInv
    <2>1. Gridded /\ run \in 1..MaxRuns /\ e \in WaitingTicks
      BY <1>1, <1>2, <1>6 DEF GridInv, WaitingTicks
    <2>2. heard'[run] = e
      BY <1>1, <1>6, <2>1 DEF MetronomeTyped
    <2>3. WaitingTicks' = WaitingTicks \ {e}
      BY <1>1 DEF WaitingTicks
    <2>4. ~NoneHeard'
      <3>1. e.at \in Nat /\ NoTick.at = -1
        BY <1>2, TickTypes DEF NoTick
      <3> QED
        BY <1>1, <2>2, <3>1 DEF NoneHeard
    <2>5. Earlier' = WaitingTicks
      BY <1>1, <2>1, <2>2, <2>3, <2>4 DEF Earlier
    <2>6. /\ Earlier \subseteq Ticks /\ WaitingTicks \subseteq Earlier
          /\ ~NoneHeard => heard[run] \in Earlier
          /\ \A d \in Earlier : d \in WaitingTicks \/ (~NoneHeard /\ d = heard[run])
      BY <2>1, EarlierTyped
    <2>7. /\ NoneHeard => e.beat = 0 /\ e.sub = 0
          /\ ~NoneHeard => Spot(e) = Following(heard[run])
      BY <1>1, <2>1, SoundsNext
    <2>8. ASSUME NEW p, NextTick(p), p # e, p.at # e.at
          PROVE NextTick(p)'
      <3>1. PICK d \in Earlier : Spot(p) = Following(d)
        BY <2>8 DEF NextTick
      <3>2. d \in WaitingTicks
        <4>1. SUFFICES ASSUME ~NoneHeard, d = heard[run] PROVE FALSE
          BY <2>6
        <4>2. Spot(p) = Spot(e)
          BY <2>7, <3>1, <4>1
        <4> QED
          BY <2>8, <4>2 DEF Spot
      <3>3. Spot(p) = Following(d)' /\ d \in Earlier'
        BY <1>4, <2>5, <3>1, <3>2
      <3> QED
        BY <3>3 DEF NextTick
    <2>9. ASSUME NEW f \in WaitingTicks, f # e
          PROVE /\ (f.accent <=> settings.accent /\ f.beat = 0 /\ f.sub = 0)
                /\ NextTick(f)' /\ \A d \in WaitingTicks : d.at = f.at => d = f
                /\ e.at < f.at
      <3>1. f.at # e.at /\ \A d \in Earlier : d.at = f.at => d = f
        BY <2>1, <2>6, <2>9 DEF Gridded
      <3>2. e.at <= f.at /\ e.at \in Nat /\ f.at \in Nat
        <4>1. f \in pending /\ f \in Ticks
          BY <2>6 DEF WaitingTicks
        <4> QED
          BY <1>1, <1>2, <4>1, TickTypes
      <3>3. NextTick(f)
        <4>1. FirstTick(f) \/ NextTick(f)
          BY <2>1 DEF Gridded
        <4>2. ~FirstTick(f)
          <5>1. FirstTick(f) => f.at <= e.at
            BY <2>1 DEF FirstTick
          <5> QED
            BY <3>1, <3>2, <5>1
        <4> QED
          BY <4>1, <4>2
      <3>4. NextTick(f)'
        BY <2>8, <2>9, <3>1, <3>3
      <3>5. f.accent <=> settings.accent /\ f.beat = 0 /\ f.sub = 0
        BY <2>1 DEF Gridded
      <3> QED
        BY <2>6, <3>1, <3>2, <3>4, <3>5
    <2>10. \A d \in Earlier' : InBar(d)'
      BY <1>1, <2>1, <2>5, <2>6 DEF Gridded, InBar
    <2>11. ASSUME timer
           PROVE /\ InBar(next)' /\ NextTick(next)'
                 /\ \A d \in Earlier' : d.at < next.at
      <3>1. /\ InBar(next) /\ ((FirstTick(next) /\ WaitingTicks = {}) \/ NextTick(next))
            /\ \A d \in Earlier : d.at < next.at
        BY <2>1, <2>11 DEF Gridded
      <3>2. NextTick(next) /\ e.at < next.at
        BY <2>1, <2>6, <3>1
      <3>3. next # e /\ next.at # e.at
        <4>1. e.at \in Nat
          BY <1>2, TickTypes
        <4> QED
          BY <3>2, <4>1
      <3>4. NextTick(next)'
        <4>1. PICK p : p = next
          OBVIOUS
        <4>2. NextTick(p)'
          BY <2>8, <3>2, <3>3, <4>1
        <4> QED
          BY <1>1, <4>1, <4>2 DEF NextTick, Spot
      <3>5. InBar(next)'
        BY <1>1, <3>1 DEF InBar
      <3> QED
        BY <2>5, <2>6, <3>1, <3>4, <3>5
    <2> QED
      BY <1>1, <2>2, <2>3, <2>5, <2>9, <2>10, <2>11 DEF Gridded
  <1> QED
    BY <1>5, <1>6

LEMMA GridScheduler ==
  ASSUME MetronomeTyped, InTimeInv, GridInv, Scheduler
  PROVE GridInv'
  <1>1. PICK new : new = Due(now + Lookahead)
    OBVIOUS
  <1>2. /\ timer /\ pending' = pending \cup new.ticks /\ next' = new.next
        /\ UNCHANGED <<settings, timer, heard, run, steady>>
    BY <1>1 DEF Scheduler
  <1>3. Interval' = Interval /\ \A d : Following(d)' = Following(d)
    BY <1>2 DEF Interval, Following
  <1>4. /\ MetronomeTypeOK /\ next \in Spots /\ run \in 1..MaxRuns /\ run > 0
        /\ now + Lookahead \in Nat /\ settings.accent \in BOOLEAN
    BY <1>2, MetronomeAssumption DEF MetronomeTyped, MetronomeTypeOK
  <1>5. PICK c \in Nat :
          /\ new.next = Ahead[c]
          /\ new.ticks = {Tick(Ahead[m]) : m \in 0..(c - 1)}
    BY <1>1, <1>4, DueFacts
  <1>6. /\ \A n \in Nat : /\ Ahead[n] \in Spots
                          /\ Ahead[n + 1] = Following(Ahead[n]) /\ Ahead[n].at >= next.at
        /\ Ahead[0] = next
        /\ \A m, n \in Nat : m < n => Ahead[m].at < Ahead[n].at
    <2>1. /\ Ahead \in [Nat -> Spots] /\ Ahead[0] = next
          /\ \A n \in Nat : /\ Ahead[n + 1] = Following(Ahead[n])
                            /\ Ahead[n].at >= next.at + n
          /\ \A m, n \in Nat : m < n => Ahead[m].at < Ahead[n].at
      BY <1>4, AheadGrows
    <2>2. \A p \in Spots : p.at \in Nat
      BY DEF Spots
    <2>3. \A n \in Nat : Ahead[n].at \in Nat /\ next.at \in Nat
      BY <1>4, <2>1, <2>2
    <2>4. \A n \in Nat : Ahead[n].at >= next.at
      BY <2>1, <2>3
    <2> QED
      BY <2>1, <2>4
  <1> SUFFICES ASSUME steady PROVE Gridded'
    BY <1>2 DEF GridInv
  <1>7. Gridded
    BY <1>4 DEF GridInv
  <1>8. \A n \in Nat : Tick(Ahead[n]) \in Ticks /\ Spot(Tick(Ahead[n])) = Ahead[n]
                       /\ Tick(Ahead[n]).at = Ahead[n].at /\ Tick(Ahead[n]).run = run
                       /\ Tick(Ahead[n]).beat = Ahead[n].beat
                       /\ Tick(Ahead[n]).sub = Ahead[n].sub
                       /\ (Tick(Ahead[n]).accent <=>
                             settings.accent /\ Ahead[n].beat = 0 /\ Ahead[n].sub = 0)
    BY <1>4, <1>6, TickFacts
  <1>9. \A n \in Nat : Ahead[n].at \in Nat
    <2>1. \A p \in Spots : p.at \in Nat
      BY DEF Spots
    <2> QED
      BY <1>6, <2>1
  <1>10. \A n \in Nat : InBar(Ahead[n])
    <2> DEFINE T == {n \in Nat : InBar(Ahead[n])}
    <2>1. 0 \in T
      BY <1>2, <1>6, <1>7 DEF Gridded
    <2>2. ASSUME NEW n \in T PROVE n + 1 \in T
      <3>1. InBar(Ahead[n]) /\ n \in Nat
        OBVIOUS
      <3>2. Ahead[n].at \in Nat /\ Ahead[n].beat \in Beats /\ Ahead[n].sub \in Nat
        BY <1>6, <3>1 DEF Spots
      <3>3. InBar(Following(Ahead[n]))
        BY <1>4, <3>1, <3>2, FollowingInBar
      <3> QED
        BY <1>6, <3>1, <3>3
    <2>3. T = Nat
      <3> HIDE DEF T
      <3>1. T \in SUBSET Nat
        BY DEF T
      <3> QED
        BY <2>1, <2>2, <3>1, NatSet
    <2> QED
      BY <2>3
  <1>11. /\ Earlier \subseteq Ticks /\ WaitingTicks \subseteq Earlier
         /\ ~NoneHeard => heard[run] \in Earlier
    BY <1>4, EarlierTyped
  <1>12. WaitingTicks' = WaitingTicks \cup new.ticks
    <2>1. \A e \in new.ticks : e.run = run
      BY <1>5, <1>8
    <2> QED
      BY <1>2, <2>1 DEF WaitingTicks
  <1>13. (NoneHeard' <=> NoneHeard) /\ heard'[run'] = heard[run]
    BY <1>2 DEF NoneHeard
  <1>14. Earlier' = Earlier \cup new.ticks
    BY <1>12, <1>13 DEF Earlier
  <1>15. \A d \in Earlier : d.at < next.at /\ d.at \in Nat
    BY <1>2, <1>7, <1>11, TickTypes DEF Gridded
  <1>16. ASSUME NEW m \in Nat, m <= c, NEW p, Spot(p) = Ahead[m], p.at = Ahead[m].at,
                p.beat = Ahead[m].beat, p.sub = Ahead[m].sub
         PROVE (NoneHeard /\ WaitingTicks = {} /\ m = 0 /\ p.beat = 0 /\ p.sub = 0)
               \/ NextTick(p)'
    <2>1. CASE m = 0
      <3>1. (FirstTick(next) /\ WaitingTicks = {}) \/ NextTick(next)
        BY <1>2, <1>7 DEF Gridded
      <3>2. CASE NextTick(next)
        <4>1. Spot(next) = next
          BY <1>4 DEF Spot, Spots
        <4>2. PICK d \in Earlier : Spot(p) = Following(d)
          BY <1>6, <1>16, <2>1, <3>2, <4>1 DEF NextTick
        <4>3. Spot(p) = Following(d)' /\ d \in Earlier'
          BY <1>3, <1>14, <4>2
        <4> QED
          BY <4>3 DEF NextTick
      <3>3. CASE FirstTick(next) /\ WaitingTicks = {}
        BY <1>6, <1>16, <2>1, <3>3 DEF FirstTick
      <3> QED
        BY <3>1, <3>2, <3>3
    <2>2. CASE m # 0
      <3>1. PICK k \in Nat : m = k + 1 /\ k \in 0..(c - 1)
        BY <1>16, <2>2
      <3>2. PICK d : d = Tick(Ahead[k])
        OBVIOUS
      <3>3. d \in Earlier'
        BY <1>5, <1>14, <3>1, <3>2
      <3>4. Following(d) = Following(Ahead[k])
        BY <1>8, <3>1, <3>2 DEF Following
      <3>5. Spot(p) = Following(d)'
        BY <1>3, <1>6, <1>16, <3>1, <3>4
      <3> QED
        BY <3>3, <3>5 DEF NextTick
    <2> QED
      BY <2>1, <2>2
  <1>17. ASSUME NEW e \in new.ticks
         PROVE /\ (e.accent <=> settings.accent /\ e.beat = 0 /\ e.sub = 0)
               /\ InBar(e) /\ (FirstTick(e)' \/ NextTick(e)')
               /\ \A d \in Earlier' : d.at = e.at => d = e
               /\ (\A d \in Earlier : d.at < e.at) /\ e.at < new.next.at
    <2>1. PICK m \in 0..(c - 1) : e = Tick(Ahead[m])
      BY <1>5
    <2>2. m \in Nat /\ m <= c /\ m < c
      BY <2>1
    <2>3. /\ e.at = Ahead[m].at /\ e.beat = Ahead[m].beat /\ e.sub = Ahead[m].sub
          /\ Spot(e) = Ahead[m]
          /\ (e.accent <=> settings.accent /\ e.beat = 0 /\ e.sub = 0)
      BY <1>8, <2>1, <2>2
    <2>4. InBar(e)
      BY <1>10, <2>2, <2>3 DEF InBar
    <2>5. \A d \in Earlier : d.at < e.at
      BY <1>4, <1>6, <1>9, <1>15, <2>2, <2>3
    <2>6. e.at < new.next.at
      BY <1>5, <1>6, <2>2, <2>3
    <2>7. ASSUME NEW d \in new.ticks PROVE /\ d.at = e.at => d = e
                                           /\ NoneHeard /\ m = 0 => e.at <= d.at
      <3>1. PICK k \in 0..(c - 1) : d = Tick(Ahead[k])
        BY <1>5
      <3>2. k \in Nat /\ d.at = Ahead[k].at /\ d.at \in Nat /\ e.at \in Nat
        BY <1>8, <1>9, <2>2, <2>3, <3>1
      <3>3. m < k => e.at < d.at
        BY <1>6, <2>2, <2>3, <3>2
      <3>4. k < m => d.at < e.at
        BY <1>6, <2>2, <2>3, <3>2
      <3>5. m = k => d = e
        BY <2>1, <3>1
      <3> QED
        BY <2>2, <3>2, <3>3, <3>4, <3>5
    <2>8. FirstTick(e)' \/ NextTick(e)'
      <3>1. CASE NextTick(e)'
        BY <3>1
      <3>2. CASE NoneHeard /\ WaitingTicks = {} /\ m = 0 /\ e.beat = 0 /\ e.sub = 0
        <4>1. \A f \in WaitingTicks' : e.at <= f.at
          BY <1>12, <2>7, <3>2
        <4> QED
          BY <1>13, <3>2, <4>1 DEF FirstTick
      <3> QED
        BY <1>16, <2>2, <2>3, <3>1, <3>2
    <2>9. \A d \in Earlier' : d.at = e.at => d = e
      <3>1. e.at \in Nat
        BY <1>9, <2>2, <2>3
      <3>2. \A d \in Earlier : d.at # e.at
        BY <1>15, <2>5, <3>1
      <3> QED
        BY <1>14, <2>7, <3>2
    <2> QED
      BY <2>3, <2>4, <2>5, <2>6, <2>8, <2>9
  <1>18. \A d \in Earlier' : InBar(d)'
    <2>1. \A d \in Earlier : InBar(d)
      BY <1>7 DEF Gridded
    <2> QED
      BY <1>2, <1>14, <1>17, <2>1 DEF InBar
  <1>19. ASSUME NEW e \in WaitingTicks
         PROVE /\ (e.accent <=> settings.accent /\ e.beat = 0 /\ e.sub = 0)
               /\ (FirstTick(e)' \/ NextTick(e)')
               /\ \A d \in Earlier' : d.at = e.at => d = e
               /\ (~NoneHeard => heard[run].at < e.at)
    <2>1. /\ (e.accent <=> settings.accent /\ e.beat = 0 /\ e.sub = 0)
          /\ (FirstTick(e) \/ NextTick(e))
          /\ \A d \in Earlier : d.at = e.at => d = e
          /\ (~NoneHeard => heard[run].at < e.at)
      BY <1>7 DEF Gridded
    <2>2. e \in Earlier /\ e.at \in Nat /\ \A d \in new.ticks : e.at < d.at /\ d.at \in Nat
      BY <1>5, <1>8, <1>9, <1>11, <1>15, <1>17
    <2>3. \A d \in new.ticks : d.at # e.at /\ e.at <= d.at
      BY <2>2
    <2>4. FirstTick(e)' \/ NextTick(e)'
      <3>1. CASE FirstTick(e)
        BY <1>12, <1>13, <2>3, <3>1 DEF FirstTick
      <3>2. CASE NextTick(e)
        BY <1>3, <1>14, <3>2 DEF NextTick
      <3> QED
        BY <2>1, <3>1, <3>2
    <2> QED
      BY <1>14, <2>1, <2>3, <2>4
  <1>20. /\ InBar(next)' /\ \A d \in Earlier' : d.at < next'.at
         /\ (FirstTick(next)' /\ WaitingTicks' = {}) \/ NextTick(next)'
    <2>1. InBar(next)'
      BY <1>2, <1>5, <1>10 DEF InBar
    <2>2. ASSUME NEW d \in Earlier PROVE d.at < next'.at
      <3>1. Ahead[c].at >= next.at /\ Ahead[c].at \in Nat /\ d.at < next.at /\ d.at \in Nat
            /\ next.at \in Nat
        BY <1>6, <1>9, <1>15
      <3> QED
        BY <1>2, <1>5, <3>1
    <2>3. \A d \in new.ticks : d.at < next'.at
      BY <1>2, <1>17
    <2>4. PICK p : p = Ahead[c]
      OBVIOUS
    <2>5. p \in Spots /\ Spot(p) = p
      BY <1>6, <2>4 DEF Spot, Spots
    <2>6. (NoneHeard /\ WaitingTicks = {} /\ c = 0 /\ p.beat = 0 /\ p.sub = 0) \/ NextTick(p)'
      BY <1>16, <2>4, <2>5
    <2>7. CASE NextTick(p)'
      <3>1. NextTick(next)'
        BY <1>2, <1>5, <2>4, <2>7 DEF NextTick, Spot
      <3> QED
        BY <1>14, <2>1, <2>2, <2>3, <3>1
    <2>8. CASE NoneHeard /\ WaitingTicks = {} /\ c = 0 /\ p.beat = 0 /\ p.sub = 0
      <3>1. new.ticks = {}
        BY <1>5, <2>8
      <3>2. WaitingTicks' = {}
        BY <1>12, <2>8, <3>1
      <3>3. FirstTick(next)'
        BY <1>2, <1>5, <1>13, <2>4, <2>8, <3>2 DEF FirstTick
      <3> QED
        BY <1>14, <2>1, <2>2, <2>3, <3>2, <3>3
    <2> QED
      BY <2>6, <2>7, <2>8
  <1>21. ASSUME ~NoneHeard, NEW e \in new.ticks PROVE heard[run].at < e.at
    BY <1>11, <1>17, <1>21
  <1>22. ASSUME NEW e \in WaitingTicks'
         PROVE /\ (e.accent <=> settings.accent /\ e.beat = 0 /\ e.sub = 0)
               /\ (FirstTick(e)' \/ NextTick(e)')
               /\ \A d \in Earlier' : d.at = e.at => d = e
               /\ (~NoneHeard => heard[run].at < e.at)
    BY <1>12, <1>17, <1>19, <1>21
  <1> QED
    BY <1>2, <1>13, <1>18, <1>20, <1>22 DEF Gridded

LEMMA MetronomeKept ==
  ASSUME MetronomeInv, [MetronomeNext]_metronome
  PROVE MetronomeInv'
  <1>0. MetronomeTyped /\ InTimeInv /\ GridInv
    BY DEF MetronomeInv
  <1>1. CASE MetronomeNext
    <2>1. MetronomeTyped'
      BY <1>0, <1>1, MetronomeTypedKept
    <2>2. InTimeInv'
      BY <1>0, <1>1, <2>1, InTimeKept
    <2>3. GridInv'
      <3>1. CASE Set
        <4>1. /\ UNCHANGED <<next, timer, pending, heard, run>>
              /\ steady' = (steady /\ settings' = settings)
          BY <1>0, <3>1, SetFacts
        <4>2. CASE settings' = settings
          BY <1>0, <4>1, <4>2, GridSame
        <4>3. CASE settings' # settings
          BY <1>0, <4>1, <4>3 DEF GridInv
        <4> QED
          BY <4>2, <4>3
      <3>2. CASE Start
        BY <1>0, <3>2, GridStart
      <3>3. CASE Scheduler
        BY <1>0, <3>3, GridScheduler
      <3>4. ASSUME NEW e \in pending, Sound(e) PROVE GridInv'
        BY <1>0, <3>4, GridSound
      <3>5. CASE StopTimer
        BY <1>0, <3>5, GridSame DEF StopTimer
      <3>6. CASE Clock
        BY <1>0, <3>6, GridSame DEF Clock, engine
      <3> QED
        BY <1>1, <3>1, <3>2, <3>3, <3>4, <3>5, <3>6 DEF MetronomeNext, Stop, LeaveMetronome
    <2> QED
      BY <2>1, <2>2, <2>3 DEF MetronomeInv
  <1>2. CASE UNCHANGED metronome
    <2>1. UNCHANGED <<settings, next, timer, onMetronome, pending, currentBeat, now, idle,
                      heard, run, stoppedAt, steady, delayed>>
      BY <1>2 DEF metronome, engine
    <2>2. MetronomeTyped'
      <3>1. MetronomeTypeOK'
        BY <1>0, <2>1 DEF MetronomeTyped, MetronomeTypeOK
      <3> QED
        BY <1>0, <2>1, <3>1 DEF MetronomeTyped
    <2>3. InTimeInv'
      BY <1>0, <2>1 DEF InTimeInv, Waits, NothingLeftOut
    <2>4. GridInv'
      BY <1>0, <2>1, GridSame
    <2> QED
      BY <2>2, <2>3, <2>4 DEF MetronomeInv
  <1> QED
    BY <1>1, <1>2

LEMMA MetronomeInitHolds == MetronomeInit => MetronomeInv
  <1> SUFFICES ASSUME MetronomeInit PROVE MetronomeInv
    OBVIOUS
  <1>1. MetronomeTyped
    BY MetronomeTypedInit
  <1>2. InTimeInv
    BY DEF MetronomeInit, InTimeInv, NothingLeftOut
  <1>3. GridInv
    BY DEF MetronomeInit, GridInv
  <1> QED
    BY <1>1, <1>2, <1>3 DEF MetronomeInv

LEMMA InTimeFollows == MetronomeInv => InTime
  <1> SUFFICES ASSUME MetronomeInv PROVE InTime
    OBVIOUS
  <1>1. OnTime
    BY DEF MetronomeInv, InTimeInv, Waits, OnTime
  <1>2. SilentAfterStop
    <2>1. timer => onMetronome
      BY DEF MetronomeInv, MetronomeTyped
    <2> QED
      BY <2>1 DEF MetronomeInv, InTimeInv, Waits, SilentAfterStop
  <1> QED
    BY <1>1, <1>2 DEF InTime

LEMMA GridFollows ==
  ASSUME MetronomeInv, MetronomeNext, heard' # heard, run > 0, heard'[run] # heard[run], steady
  PROVE IF heard[run] = NoTick THEN heard'[run].beat = 0 /\ heard'[run].sub = 0
                               ELSE Follows(heard[run], heard'[run])
  <1>0. MetronomeTyped /\ Gridded /\ run \in 1..MaxRuns /\ MetronomeTypeOK
    BY MetronomeAssumption DEF MetronomeInv, GridInv, MetronomeTyped
  <1>1. PICK e \in pending : Sound(e)
    BY SetFacts, <1>0 DEF MetronomeNext, Start, Scheduler, Stop, LeaveMetronome, StopTimer, Clock
  <1>2. heard' = [heard EXCEPT ![e.run] = e] /\ \A f \in pending : e.at <= f.at
    BY <1>1 DEF Sound
  <1>3. e.run = run /\ heard'[run] = e
    BY <1>0, <1>2 DEF MetronomeTyped
  <1>4. e \in WaitingTicks
    BY <1>3 DEF WaitingTicks
  <1>5. /\ NoneHeard => e.beat = 0 /\ e.sub = 0
        /\ ~NoneHeard => Spot(e) = Following(heard[run])
    BY <1>0, <1>2, <1>4, SoundsNext
  <1>6. CASE NoneHeard
    BY <1>3, <1>5, <1>6 DEF NoneHeard
  <1>7. CASE ~NoneHeard
    <2>1. PICK d \in Earlier : d = heard[run]
      BY <1>0, <1>7, EarlierTyped
    <2>2. d \in Ticks /\ InBar(d)
      BY <1>0, EarlierTyped DEF Gridded
    <2>3. d.at \in Nat /\ d.beat \in Beats /\ d.sub \in Nat
      BY <2>2, TickTypes
    <2>4. Spot(e) = Following(d)
      BY <1>5, <1>7, <2>1
    <2>5. e.at = d.at + Interval
      BY <1>0, <2>2, <2>4, NextTickFacts
    <2>6. e.sub = Following(d).sub /\ e.beat = Following(d).beat
      BY <2>4 DEF Spot
    <2>7. /\ e.sub = (d.sub + 1) % settings.subdivision
          /\ e.beat = (IF e.sub = 0 THEN d.beat + 1 ELSE d.beat) % settings.beats
      BY <1>0, <2>2, <2>3, <2>6, FollowingInBar
    <2>8. e.accent <=> (settings.accent /\ e.beat = 0 /\ e.sub = 0)
      BY <1>0, <1>4 DEF Gridded
    <2> QED
      BY <1>3, <1>7, <2>1, <2>5, <2>7, <2>8 DEF Follows, NoneHeard
  <1> QED
    BY <1>6, <1>7


-----------------------------------------------------------------------------
(* Tuner: the inductive invariant.                                          *)

\* The captures: the tuner listens to the one that was opened last; when no press
\* overlapped another one there is no other, one press waits at most, and none while
\* the tuner listens.
MicInv ==
  /\ listening => ref \in mics
  /\ (onTuner /\ ~overlapped) =>
       /\ listening <=> mics # {}
       /\ mics \subseteq {ref}
       /\ \A p, q \in Waiting : p = q
       /\ Waiting # {} => ~listening

\* The last readings are of the string that is held, and what is shown is the sum
\* of the window.
HeldOK ==
  /\ held.times \in 0..Len(readings)
  /\ \A i \in 1..Len(readings) : i > Len(readings) - held.times => readings[i] = held.cents
  /\ match # NoMatch =>
       /\ match.note = held.note /\ match.n = Len(readings) /\ match.n > 0
       /\ match.sum = Sum(readings)
TunerInv == TunerTypeOK /\ MicInv /\ HeldOK

-----------------------------------------------------------------------------
(* Tuner: the window and its sum.                                           *)

\* A window grows at its end up to its size, and then moves by one reading.
LEMMA PushFacts ==
  ASSUME readings \in Seq(Cents), Len(readings) <= Window, NEW c \in Cents
  PROVE /\ Push(c) \in Seq(Cents) /\ Len(Push(c)) \in 1..Window
        /\ Len(readings) < Window =>
             /\ Len(Push(c)) = Len(readings) + 1
             /\ \A i \in 1..Len(readings) : Push(c)[i] = readings[i]
        /\ Len(readings) = Window =>
             /\ Len(Push(c)) = Window
             /\ \A i \in 1..(Window - 1) : Push(c)[i] = readings[i + 1]
        /\ Push(c)[Len(Push(c))] = c
  <1>1. Window \in Nat \ {0} /\ Len(readings) \in Nat
    BY TunerAssumption
  <1>2. PICK s : s = Append(readings, c)
    OBVIOUS
  <1>3. /\ s \in Seq(Cents) /\ Len(s) = Len(readings) + 1 /\ s[Len(readings) + 1] = c
        /\ \A i \in 1..Len(readings) : s[i] = readings[i]
    BY <1>2
  <1>4. Push(c) = IF Len(s) > Window THEN Tail(s) ELSE s
    BY <1>2 DEF Push
  <1>5. CASE Len(readings) < Window
    BY <1>1, <1>3, <1>4, <1>5
  <1>6. CASE Len(readings) = Window
    <2>1. PICK t : t = Tail(s)
      OBVIOUS
    <2>2. s # <<>>
      BY <1>1, <1>3
    <2>3. /\ t \in Seq(Cents) /\ Len(t) = Len(s) - 1
          /\ \A i \in 1..Len(t) : t[i] = s[i + 1]
      BY <1>3, <2>1, <2>2
    <2>4. Push(c) = t
      BY <1>1, <1>3, <1>4, <1>6, <2>1
    <2>5. Len(t) = Window /\ t[Window] = c
      BY <1>1, <1>3, <1>6, <2>3
    <2>6. \A i \in 1..(Window - 1) : t[i] = readings[i + 1]
      BY <1>1, <1>3, <1>6, <2>3, <2>5
    <2> QED
      BY <1>1, <1>6, <2>3, <2>4, <2>5, <2>6
  <1> QED
    BY <1>1, <1>5, <1>6

\* Readings that are all the same add up to a multiple.
LEMMA SumOfSame ==
  ASSUME NEW c \in Int, NEW s, Len(s) \in Nat, \A i \in 1..Len(s) : s[i] = c
  PROVE Sum(s) = Len(s) * c
  <1> DEFINE Def(f) == [i \in 0..Len(s) |-> IF i = 0 THEN 0 ELSE f[i - 1] + s[i]]
             g == [i \in 0..Len(s) |-> i * c]
             f == CHOOSE h : h = Def(h)
  <1>1. g = Def(g)
    <2>1. ASSUME NEW i \in 0..Len(s)
          PROVE i * c = (IF i = 0 THEN 0 ELSE g[i - 1] + s[i])
      <3>1. CASE i = 0
        BY <3>1
      <3>2. CASE i # 0
        <4>1. i - 1 \in 0..Len(s) /\ s[i] = c
          BY <3>2
        <4>2. g[i - 1] = (i - 1) * c
          BY <4>1
        <4>3. (i - 1) * c + c = i * c
          OBVIOUS
        <4> QED
          BY <3>2, <4>1, <4>2, <4>3
      <3> QED
        BY <3>1, <3>2
    <2> QED
      BY <2>1
  <1> HIDE DEF Def
  <1>2. f = Def(f)
    BY <1>1
  <1>3. Sum(s) = f[Len(s)]
    BY DEF Sum, Def
  <1> HIDE DEF f
  <1>4. \A i \in 0..Len(s) : f[i] = IF i = 0 THEN 0 ELSE f[i - 1] + s[i]
    BY <1>2 DEF Def
  <1> DEFINE T == {i \in Nat : i <= Len(s) => f[i] = i * c}
  <1>5. 0 \in T
    BY <1>4
  <1>6. ASSUME NEW i \in T PROVE i + 1 \in T
    <2>1. CASE i + 1 <= Len(s)
      <3>1. f[i] = i * c /\ i + 1 \in 0..Len(s) /\ i + 1 # 0 /\ (i + 1) - 1 = i /\ s[i + 1] = c
        BY <2>1
      <3>2. f[i + 1] = f[i] + c
        BY <1>4, <3>1
      <3>3. i * c + c = (i + 1) * c
        OBVIOUS
      <3> QED
        BY <3>1, <3>2, <3>3
    <2>2. CASE ~(i + 1 <= Len(s))
      BY <2>2
    <2> QED
      BY <2>1, <2>2
  <1>7. T = Nat
    <2> HIDE DEF T
    <2>1. T \in SUBSET Nat
      BY DEF T
    <2> QED
      BY <1>5, <1>6, <2>1, NatSet
  <1> QED
    BY <1>3, <1>7

\* An average of equal readings is within five cents when they are.
LEMMA SameInTune ==
  ASSUME NEW n \in Nat \ {0}, NEW c \in Int
  PROVE n * c \in (-5 * n)..(5 * n) <=> c \in -5..5
  <1>1. PICK d \in Int : d = n * c
    OBVIOUS
  <1>2. c <= 5 => n * c <= 5 * n
    OBVIOUS
  <1>3. c >= 6 => n * c >= 6 * n
    OBVIOUS
  <1>4. c >= -5 => n * c >= -5 * n
    OBVIOUS
  <1>5. c <= -6 => n * c <= -6 * n
    OBVIOUS
  <1>6. 5 * n \in Int /\ -5 * n \in Int /\ 6 * n > 5 * n /\ -6 * n < -5 * n
    OBVIOUS
  <1> QED
    BY <1>1, <1>2, <1>3, <1>4, <1>5, <1>6

-----------------------------------------------------------------------------
(* Tuner: the invariant.                                                    *)

LEMMA TunerInitHolds == TunerInit => TunerInv
  <1> SUFFICES ASSUME TunerInit PROVE TunerInv
    OBVIOUS
  <1>1. TunerTypeOK
    <2>1. NoMatch.note = Nobody /\ NoMatch.n = 0 /\ 0 \in 0..Window
      BY TunerAssumption DEF NoMatch
    <2>2. readings = <<>> /\ match = NoMatch /\ panel \in BOOLEAN /\ onTuner = TRUE
      BY DEF TunerInit
    <2>3. readings \in Seq(Cents) /\ Len(readings) <= Window
      BY <2>2, TunerAssumption
    <2>4. asked \in [Press -> {"none", "asking", "starting", "done"}]
      BY DEF TunerInit
    <2>5. mics \subseteq Press /\ ref \in Press \cup {Nobody} /\ listening \in BOOLEAN
          /\ hasSignal \in BOOLEAN
      BY DEF TunerInit
    <2> QED
      BY <2>1, <2>2, <2>3, <2>4, <2>5 DEF TunerTypeOK
  <1>2. MicInv
    <2>1. Waiting = {}
      BY DEF TunerInit, Waiting
    <2> QED
      BY <2>1 DEF TunerInit, MicInv
  <1>3. HeldOK
    <2>1. readings = <<>> /\ match = NoMatch /\ held.times = 0
      BY DEF TunerInit, NotHeld
    <2> QED
      BY <2>1 DEF HeldOK
  <1> QED
    BY <1>1, <1>2, <1>3 DEF TunerInv

\* The window after a reset, and after nothing was heard.
LEMMA ResetHeld ==
  ASSUME Reset, match' = NoMatch
  PROVE HeldOK' /\ readings' = <<>> /\ readings' \in Seq(Cents)
  <1>1. readings' = <<>> /\ held'.times = 0
    BY DEF Reset, NotHeld
  <1> QED
    BY <1>1 DEF HeldOK

LEMMA HeldSame ==
  ASSUME HeldOK, UNCHANGED <<readings, held>>, match' = match \/ match' = NoMatch
  PROVE HeldOK'
  BY DEF HeldOK

LEMMA MatchTypes ==
  /\ NoMatch.note \in Note \cup {Nobody} /\ NoMatch.n \in 0..Window
  BY TunerAssumption DEF NoMatch

\* What a step other than a buffer does to the window and what is shown of it.
LEMMA QuietStep ==
  ASSUME TunerInv, TunerNext, ~(\E note \in Note, c \in Cents : Heard(note, c))
  PROVE /\ HeldOK'
        /\ readings' \in Seq(Cents) /\ Len(readings') <= Window
        /\ match' = match \/ match' = NoMatch
        /\ onTuner' \in BOOLEAN /\ hasSignal' \in BOOLEAN /\ panel' = panel
  <1>0. /\ HeldOK /\ readings \in Seq(Cents) /\ Len(readings) <= Window
        /\ panel \in BOOLEAN /\ onTuner \in BOOLEAN /\ hasSignal \in BOOLEAN
    BY DEF TunerInv, TunerTypeOK
  <1>1. ASSUME Reset, match' = NoMatch
        PROVE HeldOK' /\ readings' \in Seq(Cents) /\ Len(readings') <= Window
    BY <1>1, ResetHeld, TunerAssumption
  <1>2. ASSUME UNCHANGED <<readings, held>>, match' = match \/ match' = NoMatch
        PROVE HeldOK' /\ readings' \in Seq(Cents) /\ Len(readings') <= Window
    BY <1>0, <1>2, HeldSame
  <1>3. ASSUME NEW p \in Press, PressStart(p)
        PROVE /\ match' = match /\ UNCHANGED <<readings, held, onTuner, hasSignal, panel>>
    BY <1>3 DEF PressStart
  <1>4. ASSUME NEW p \in Press, Capture(p) \/ Permit(p)
        PROVE /\ Reset /\ match' = NoMatch /\ UNCHANGED <<onTuner, panel>>
              /\ hasSignal' \in BOOLEAN
    BY <1>0, <1>4 DEF Capture, Permit, Shows
  <1>5. ASSUME NEW p \in Press, StreamStarts(p)
        PROVE /\ match' = match \/ match' = NoMatch
              /\ UNCHANGED <<readings, held, onTuner, panel>> /\ hasSignal' \in BOOLEAN
    BY <1>0, <1>5 DEF StreamStarts, Shows
  <1>6. ASSUME Release
        PROVE match' = NoMatch /\ hasSignal' \in BOOLEAN
    BY <1>0, <1>6 DEF Release, Shows
  <1>7. ASSUME (\E p \in Press : Refused(p)) \/ PressStop
        PROVE /\ match' = match \/ match' = NoMatch
              /\ UNCHANGED <<readings, held, onTuner, panel>> /\ hasSignal' \in BOOLEAN
    BY <1>0, <1>6, <1>7 DEF Refused, PressStop
  <1>8. ASSUME LeaveTuner
        PROVE /\ match' = NoMatch /\ UNCHANGED <<readings, held, panel>>
              /\ hasSignal' \in BOOLEAN /\ onTuner' \in BOOLEAN
    BY <1>8 DEF LeaveTuner
  <1>9. ASSUME Silence
        PROVE /\ match' = match /\ UNCHANGED <<readings, held, panel, onTuner>>
              /\ hasSignal' \in BOOLEAN
    BY <1>9 DEF Silence
  <1> QED
    BY <1>0, <1>1, <1>2, <1>3, <1>4, <1>5, <1>7, <1>8, <1>9 DEF TunerNext

\* A buffer enters the window; the string that is held is the one that was heard.
LEMMA HeardStep ==
  ASSUME TunerInv, NEW note \in Note, NEW c \in Cents, Heard(note, c)
  PROVE /\ HeldOK'
        /\ readings' \in Seq(Cents) /\ Len(readings') <= Window
        /\ match'.note \in Note /\ match'.n \in 0..Window
  <1>0. /\ HeldOK /\ readings \in Seq(Cents) /\ Len(readings) \in Nat /\ Len(readings) <= Window
        /\ Window \in Nat \ {0} /\ held.times \in 0..Len(readings)
    BY TunerAssumption DEF TunerInv, TunerTypeOK, HeldOK
  <1>1. PICK s : s = Push(c)
    OBVIOUS
  <1>2. /\ s \in Seq(Cents) /\ Len(s) \in 1..Window /\ s[Len(s)] = c
        /\ Len(readings) < Window =>
             Len(s) = Len(readings) + 1 /\ \A i \in 1..Len(readings) : s[i] = readings[i]
        /\ Len(readings) = Window =>
             Len(s) = Window /\ \A i \in 1..(Window - 1) : s[i] = readings[i + 1]
    BY <1>0, <1>1, PushFacts
  <1>3. /\ readings' = s
        /\ match' = [note |-> note, sum |-> Sum(s), n |-> Len(s)]
        /\ held' = [note |-> note, cents |-> c,
                    times |-> IF held.note # note \/ held.cents # c THEN 1
                              ELSE IF held.times = Window THEN Window ELSE held.times + 1]
    BY <1>1 DEF Heard
  <1>4. /\ match'.note = note /\ match'.n = Len(s) /\ match'.sum = Sum(s)
        /\ held'.note = note /\ held'.cents = c
        /\ held'.times = (IF held.note # note \/ held.cents # c THEN 1
                          ELSE IF held.times = Window THEN Window ELSE held.times + 1)
    BY <1>3
  <1>5. held'.times \in 0..Len(s)
    BY <1>0, <1>2, <1>4
  <1>6. ASSUME NEW i \in 1..Len(s), i > Len(s) - held'.times PROVE s[i] = c
    <2>1. CASE i = Len(s)
      BY <1>2, <2>1
    <2>2. CASE i # Len(s)
      <3>1. /\ held.cents = c /\ i < Len(s) /\ held'.times > 1
            /\ held'.times = (IF held.times = Window THEN Window ELSE held.times + 1)
        BY <1>0, <1>2, <1>4, <1>5, <1>6, <2>2
      <3>2. \A j \in 1..Len(readings) : j > Len(readings) - held.times => readings[j] = c
        BY <1>0, <3>1 DEF HeldOK
      <3>3. CASE Len(readings) < Window
        <4>1. i \in 1..Len(readings) /\ i > Len(readings) - held.times
          BY <1>0, <1>2, <1>6, <3>1, <3>3
        <4> QED
          BY <1>2, <3>2, <3>3, <4>1
      <3>4. CASE Len(readings) = Window
        <4>1. i + 1 \in 1..Len(readings) /\ i \in 1..(Window - 1)
          BY <1>0, <1>2, <1>6, <3>1, <3>4
        <4>2. i + 1 > Len(readings) - held.times
          BY <1>0, <1>2, <1>6, <3>1, <3>4
        <4> QED
          BY <1>2, <3>2, <3>4, <4>1, <4>2
      <3> QED
        BY <1>0, <3>3, <3>4
    <2> QED
      BY <2>1, <2>2
  <1>7. HeldOK'
    <2>1. \A i \in 1..Len(readings') : i > Len(readings') - held'.times => readings'[i] = held'.cents
      BY <1>3, <1>4, <1>6
    <2> QED
      BY <1>2, <1>3, <1>4, <1>5, <2>1 DEF HeldOK
  <1> QED
    BY <1>2, <1>3, <1>4, <1>7

\* The presses that wait, and the captures.
LEMMA MicStep ==
  ASSUME TunerInv, TunerNext
  PROVE /\ MicInv'
        /\ asked' \in [Press -> {"none", "asking", "starting", "done"}]
        /\ mics' \subseteq Press /\ ref' \in Press \cup {Nobody} /\ listening' \in BOOLEAN
  <1>0. /\ MicInv /\ onTuner \in BOOLEAN
        /\ asked \in [Press -> {"none", "asking", "starting", "done"}]
        /\ mics \subseteq Press /\ ref \in Press \cup {Nobody} /\ listening \in BOOLEAN
    BY DEF TunerInv, TunerTypeOK
  <1>1. ASSUME NEW p \in Press, PressStart(p)
        PROVE /\ MicInv'
              /\ asked' \in [Press -> {"none", "asking", "starting", "done"}]
              /\ mics' \subseteq Press /\ ref' \in Press \cup {Nobody} /\ listening' \in BOOLEAN
    <2>1. /\ asked' = [asked EXCEPT ![p] = "asking"] /\ ~listening
          /\ overlapped' = (overlapped \/ Waiting # {})
          /\ UNCHANGED <<onTuner, mics, ref, listening>>
      BY <1>1 DEF PressStart
    <2>2. asked' \in [Press -> {"none", "asking", "starting", "done"}]
      BY <1>0, <2>1
    <2>3. Waiting' \subseteq Waiting \cup {p}
      BY <1>0, <2>1 DEF Waiting
    <2>4. MicInv'
      BY <1>0, <2>1, <2>3 DEF MicInv
    <2> QED
      BY <1>0, <2>1, <2>2, <2>4
  <1>2. ASSUME NEW p \in Press, NEW v \in {"starting", "done"}, p \in Waiting,
               asked' = [asked EXCEPT ![p] = v]
        PROVE /\ asked' \in [Press -> {"none", "asking", "starting", "done"}]
              /\ Waiting' \subseteq Waiting
              /\ v = "done" => Waiting' = Waiting \ {p}
    <2>1. asked' \in [Press -> {"none", "asking", "starting", "done"}]
      BY <1>0, <1>2
    <2>2. \A q \in Press : asked'[q] = IF q = p THEN v ELSE asked[q]
      BY <1>0, <1>2
    <2> QED
      BY <1>2, <2>1, <2>2 DEF Waiting
  <1>3. ASSUME NEW p \in Press, Capture(p) \/ StreamStarts(p)
        PROVE /\ MicInv'
              /\ asked' \in [Press -> {"none", "asking", "starting", "done"}]
              /\ mics' \subseteq Press /\ ref' \in Press \cup {Nobody} /\ listening' \in BOOLEAN
    <2>1. /\ p \in Waiting /\ asked' = [asked EXCEPT ![p] = "done"]
          /\ mics' \in {mics \cup {p}, {p}} /\ ref' = p
          /\ listening' = onTuner /\ UNCHANGED <<onTuner, overlapped>>
      BY <1>0, <1>3 DEF Capture, StreamStarts, Shows, Waiting
    <2>2. /\ asked' \in [Press -> {"none", "asking", "starting", "done"}]
          /\ Waiting' = Waiting \ {p}
      BY <1>2, <2>1
    <2>3. (onTuner /\ ~overlapped) => Waiting' = {} /\ mics = {}
      BY <1>0, <2>1, <2>2 DEF MicInv
    <2>4. MicInv'
      BY <2>1, <2>3 DEF MicInv
    <2> QED
      BY <1>0, <2>1, <2>2, <2>4
  <1>4. ASSUME NEW p \in Press, Permit(p)
        PROVE /\ MicInv'
              /\ asked' \in [Press -> {"none", "asking", "starting", "done"}]
              /\ mics' \subseteq Press /\ ref' \in Press \cup {Nobody} /\ listening' \in BOOLEAN
    <2>1. /\ p \in Waiting /\ asked' = [asked EXCEPT ![p] = "starting"]
          /\ UNCHANGED <<onTuner, overlapped, mics, ref>>
          /\ listening' = (listening /\ onTuner)
      BY <1>0, <1>4 DEF Permit, Shows, Waiting
    <2>2. /\ asked' \in [Press -> {"none", "asking", "starting", "done"}]
          /\ Waiting' \subseteq Waiting
      BY <1>2, <2>1
    <2>3. MicInv'
      BY <1>0, <2>1, <2>2 DEF MicInv
    <2> QED
      BY <1>0, <2>1, <2>2, <2>3
  <1>5. ASSUME Release, UNCHANGED <<onTuner, overlapped>>, Waiting' \subseteq Waiting
        PROVE /\ MicInv'
              /\ mics' \subseteq Press /\ ref' \in Press \cup {Nobody} /\ listening' \in BOOLEAN
    <2>1. mics' = mics \ {ref} /\ ref' = Nobody /\ listening' = FALSE
      BY <1>5 DEF Release, Shows
    <2>2. (onTuner /\ ~overlapped) => mics' = {}
      BY <1>0, <2>1 DEF MicInv
    <2>3. MicInv'
      BY <1>0, <1>5, <2>1, <2>2 DEF MicInv
    <2> QED
      BY <1>0, <2>1, <2>3
  <1>6. ASSUME NEW p \in Press, Refused(p)
        PROVE /\ MicInv'
              /\ asked' \in [Press -> {"none", "asking", "starting", "done"}]
              /\ mics' \subseteq Press /\ ref' \in Press \cup {Nobody} /\ listening' \in BOOLEAN
    <2>1. /\ p \in Waiting /\ asked' = [asked EXCEPT ![p] = "done"]
          /\ UNCHANGED <<onTuner, overlapped>>
          /\ Release \/ UNCHANGED <<mics, ref, listening>>
      BY <1>6 DEF Refused
    <2>2. /\ asked' \in [Press -> {"none", "asking", "starting", "done"}]
          /\ Waiting' \subseteq Waiting
      BY <1>2, <2>1
    <2>3. CASE Release
      BY <1>5, <2>1, <2>2, <2>3
    <2>4. CASE UNCHANGED <<mics, ref, listening>>
      <3>1. MicInv'
        BY <1>0, <2>1, <2>2, <2>4 DEF MicInv
      <3> QED
        BY <1>0, <2>2, <2>4, <3>1
    <2> QED
      BY <2>1, <2>3, <2>4
  <1>7. CASE PressStop
    <2>1. Release /\ UNCHANGED <<onTuner, overlapped, asked>>
      BY <1>7 DEF PressStop
    <2>2. Waiting' = Waiting
      BY <2>1 DEF Waiting
    <2> QED
      BY <1>0, <1>5, <2>1, <2>2
  <1>8. CASE LeaveTuner
    <2>1. /\ onTuner' = FALSE /\ listening' = FALSE /\ mics' \subseteq mics
          /\ UNCHANGED <<asked, ref>>
      BY <1>8 DEF LeaveTuner
    <2> QED
      BY <1>0, <2>1 DEF MicInv
  <1>9. CASE Silence \/ \E note \in Note, c \in Cents : Heard(note, c)
    <2>1. UNCHANGED <<onTuner, asked, mics, ref, listening, overlapped>>
      BY <1>9 DEF Silence, Heard
    <2>2. Waiting' = Waiting
      BY <2>1 DEF Waiting
    <2> QED
      BY <1>0, <2>1, <2>2 DEF MicInv
  <1> QED
    BY <1>1, <1>3, <1>4, <1>6, <1>7, <1>8, <1>9 DEF TunerNext

LEMMA TunerKept ==
  ASSUME TunerInv, [TunerNext]_tuner
  PROVE TunerInv'
  <1>1. CASE UNCHANGED tuner
    <2>1. UNCHANGED <<panel, onTuner, asked, mics, ref, listening, hasSignal, readings, match,
                      overlapped, held>>
      BY <1>1 DEF tuner
    <2>2. TunerTypeOK'
      BY <2>1 DEF TunerInv, TunerTypeOK
    <2>3. Waiting' = Waiting
      BY <2>1 DEF Waiting
    <2>4. MicInv'
      BY <2>1, <2>3 DEF TunerInv, MicInv
    <2>5. HeldOK'
      BY <2>1, HeldSame DEF TunerInv
    <2> QED
      BY <2>2, <2>4, <2>5 DEF TunerInv
  <1>2. CASE TunerNext
    <2>1. /\ MicInv'
          /\ asked' \in [Press -> {"none", "asking", "starting", "done"}]
          /\ mics' \subseteq Press /\ ref' \in Press \cup {Nobody} /\ listening' \in BOOLEAN
      BY <1>2, MicStep
    <2>2. /\ HeldOK' /\ readings' \in Seq(Cents) /\ Len(readings') <= Window
          /\ match'.note \in Note \cup {Nobody} /\ match'.n \in 0..Window
          /\ onTuner' \in BOOLEAN /\ hasSignal' \in BOOLEAN /\ panel' \in BOOLEAN
      <3>1. CASE \E note \in Note, c \in Cents : Heard(note, c)
        <4>1. PICK note \in Note, c \in Cents : Heard(note, c)
          BY <3>1
        <4>2. /\ HeldOK' /\ readings' \in Seq(Cents) /\ Len(readings') <= Window
              /\ match'.note \in Note /\ match'.n \in 0..Window
          BY <4>1, HeardStep
        <4>3. onTuner' = onTuner /\ hasSignal' = TRUE /\ panel' = panel
          BY <4>1 DEF Heard
        <4> QED
          BY <4>2, <4>3 DEF TunerInv, TunerTypeOK
      <3>2. CASE ~(\E note \in Note, c \in Cents : Heard(note, c))
        <4>1. /\ HeldOK' /\ readings' \in Seq(Cents) /\ Len(readings') <= Window
              /\ match' = match \/ match' = NoMatch
              /\ onTuner' \in BOOLEAN /\ hasSignal' \in BOOLEAN /\ panel' = panel
          BY <1>2, <3>2, QuietStep
        <4>2. match'.note \in Note \cup {Nobody} /\ match'.n \in 0..Window
          BY <4>1, MatchTypes DEF TunerInv, TunerTypeOK
        <4> QED
          BY <4>1, <4>2 DEF TunerInv, TunerTypeOK
      <3> QED
        BY <3>1, <3>2
    <2> QED
      BY <2>1, <2>2 DEF TunerInv, TunerTypeOK
  <1> QED
    BY <1>1, <1>2

LEMMA TunerFollows == TunerInv => TunerTruthful
  <1> SUFFICES ASSUME TunerInv PROVE TunerTruthful
    OBVIOUS
  <1>1. MicrophoneShown
    BY DEF TunerInv, MicInv, MicrophoneShown
  <1>2. ASSUME match # NoMatch, held.times = Window
        PROVE /\ match.note = held.note
              /\ match.sum = match.n * held.cents
              /\ InTune(match) <=> held.cents \in -5..5
    <2>1. /\ match.note = held.note /\ match.n = Len(readings) /\ match.sum = Sum(readings)
          /\ held.times \in 0..Len(readings)
          /\ \A i \in 1..Len(readings) : i > Len(readings) - held.times => readings[i] = held.cents
          /\ readings \in Seq(Cents) /\ Len(readings) <= Window
      BY <1>2 DEF TunerInv, TunerTypeOK, HeldOK
    <2>2. Len(readings) = Window /\ Window \in Nat \ {0}
      BY <1>2, <2>1, TunerAssumption
    <2>3. \A i \in 1..Len(readings) : readings[i] = held.cents
      BY <1>2, <2>1, <2>2
    <2>4. held.cents \in Int
      <3>1. readings[1] = held.cents /\ readings[1] \in Cents
        BY <2>1, <2>2, <2>3
      <3> QED
        BY <3>1, TunerAssumption
    <2>5. match.sum = match.n * held.cents
      BY <2>1, <2>2, <2>3, <2>4, SumOfSame
    <2>6. InTune(match) <=> held.cents \in -5..5
      BY <2>1, <2>2, <2>4, <2>5, SameInTune DEF InTune
    <2> QED
      BY <2>1, <2>5, <2>6
  <1> QED
    BY <1>1, <1>2 DEF Settles, TunerTruthful

-----------------------------------------------------------------------------
(* Seed: the inductive invariant.                                           *)

SeedRows == [kind : Kind, n : 1..MaxCopies, of : 0..MaxCopies]
\* A row keeps its own key, unless its slug was changed; no other copy has it.
KeysOK ==
  /\ \A r, s \in rows : r.kind = s.kind /\ r.n = s.n => r = s
  /\ ~renamed => \A r \in rows : keyed[r.kind] = r.n
\* What a run has behind it is there while nobody else acts.
SeededUpTo ==
  (step > 0 /\ ~crossed) =>
    /\ \A i \in 1..(step - 1) : keyed[Order[i]] # 0
    /\ step > 6 => subscribed
SeedInv ==
  /\ SeedTypeOK /\ rows \subseteq SeedRows /\ IsFiniteSet(rows)
  /\ keyed \in [Kind -> 0..MaxCopies] /\ acts \in Nat
  /\ KeysOK /\ SeededUpTo

-----------------------------------------------------------------------------
(* Seed: the kinds of row and the order of the script.                      *)

Children == {"userRole", "subscription", "course", "module", "lesson", "live"}

LEMMA ParentFacts ==
  /\ Parent("userRole") = "user" /\ Parent("subscription") = "plan"
  /\ Parent("course") = "instrument" /\ Parent("module") = "course"
  /\ Parent("lesson") = "module" /\ Parent("live") = "instrument"
  /\ \A k : Parent(k) # "none" => k \in Children
  <1>1. Parent("userRole") = "user" /\ Parent("subscription") = "plan"
    BY Zenon DEF Parent
  <1>2. Parent("course") = "instrument" /\ Parent("module") = "course"
    BY Zenon DEF Parent
  <1>3. Parent("lesson") = "module" /\ Parent("live") = "instrument"
    BY Zenon DEF Parent
  <1>4. ASSUME NEW k, Parent(k) # "none"
        PROVE k \in {"userRole", "subscription", "course", "module", "lesson", "live"}
    BY <1>4, Zenon DEF Parent
  <1> QED
    BY <1>1, <1>2, <1>3, <1>4 DEF Children

LEMMA OrderFacts ==
  /\ Len(Order) = 10 /\ DOMAIN Order = 1..10 /\ Order[6] = "subscription"
  /\ Kind = {"role", "instrument", "user", "userRole", "plan", "subscription",
             "course", "module", "lesson", "live"}
  /\ \A i \in 1..10 : Order[i] \in Kind
  <1>1. Len(Order) = 10 /\ DOMAIN Order = 1..10 /\ Order[6] = "subscription"
    BY DEF Order
  <1>2. \A i \in 1..10 : Order[i] \in Kind
    BY <1>1 DEF Kind
  <1>3. Kind = {"role", "instrument", "user", "userRole", "plan", "subscription",
                "course", "module", "lesson", "live"}
    BY <1>1 DEF Order, Kind
  <1> QED
    BY <1>1, <1>2, <1>3

LEMMA ParentKind == \A k \in Kind : Parent(k) \in Kind \cup {"none"}
  <1> SUFFICES ASSUME NEW k \in Kind, Parent(k) # "none" PROVE Parent(k) \in Kind
    OBVIOUS
  <1>1. k \in {"userRole", "subscription", "course", "module", "lesson", "live"}
    BY ParentFacts DEF Children
  <1> QED
    BY <1>1, ParentFacts, OrderFacts

LEMMA SeedBounds == MaxSeeds \in Nat \ {0} /\ MaxCopies \in Nat \ {0} /\ MaxActs \in Nat \ {0}
  BY SeedAssumption

\* Fewer copies than numbers leave a number free.
LEMMA FreeNumber ==
  ASSUME rows \subseteq SeedRows, IsFiniteSet(rows), NEW k, Cardinality(Copies(k)) < MaxCopies
  PROVE \E m \in 1..MaxCopies : \A r \in Copies(k) : r.n # m
  <1> SUFFICES ASSUME \A m \in 1..MaxCopies : \E r \in Copies(k) : r.n = m PROVE FALSE
    OBVIOUS
  <1>1. PICK S : S = Copies(k)
    OBVIOUS
  <1>2. S \in SUBSET rows /\ IsFiniteSet(S)
    <2>1. S \in SUBSET rows
      BY <1>1 DEF Copies
    <2> QED
      BY <2>1, FS_Subset
  <1>3. PICK f : f = [r \in S |-> r.n]
    OBVIOUS
  <1>4. PICK T : T = {r.n : r \in S}
    OBVIOUS
  <1>5. f \in Surjection(S, T)
    <2>1. f \in [S -> T] /\ \A t \in T : \E r \in S : f[r] = t
      BY <1>3, <1>4
    <2> QED
      BY <2>1, Fun_IsSurj
  <1>6. IsFiniteSet(T) /\ Cardinality(T) <= Cardinality(S)
    BY <1>2, <1>5, FS_Surjection
  <1>7. 1..MaxCopies \in SUBSET T
    BY <1>1, <1>4
  <1>8. Cardinality(1..MaxCopies) = MaxCopies
    BY SeedBounds, FS_Interval
  <1>9. Cardinality(1..MaxCopies) <= Cardinality(T)
    BY <1>6, <1>7, FS_Subset
  <1>10. Cardinality(S) \in Nat /\ Cardinality(T) \in Nat
    BY <1>2, <1>6, FS_CardinalityType
  <1> QED
    BY <1>1, <1>6, <1>8, <1>9, <1>10, SeedBounds

-----------------------------------------------------------------------------
(* Seed: the invariant.                                                     *)

SeedTyped ==
  /\ rows \subseteq SeedRows /\ IsFiniteSet(rows) /\ altered \subseteq rows
  /\ keyed \in [Kind -> 0..MaxCopies] /\ acts \in Nat
  /\ step \in 0..Len(Order) /\ handles \in [Kind \cup {"none"} -> 0..MaxCopies]
\* A row hangs under a row; a key is the one of a row.
Hangs(R) ==
  \A r \in R : Parent(r.kind) # "none" =>
    \E s \in R : s.kind = Parent(r.kind) /\ s.n = r.of
KeysNamed(R, key) == \A k \in Kind : key[k] # 0 => \E r \in R : r.kind = k /\ r.n = key[k]

LEMMA SeedTypes ==
  SeedTyped /\ Hangs(rows) /\ KeysNamed(rows, keyed) => SeedTypeOK
  BY DEF SeedTyped, Hangs, KeysNamed, SeedTypeOK, SeedRows, Copies

LEMMA SeedTypesHold ==
  SeedInv => SeedTyped /\ Hangs(rows) /\ KeysNamed(rows, keyed)
  BY DEF SeedInv, SeedTyped, Hangs, KeysNamed, SeedTypeOK, Copies

LEMMA SeedInitHolds == SeedInit => SeedInv
  <1> SUFFICES ASSUME SeedInit PROVE SeedInv
    OBVIOUS
  <1>1. /\ rows = {} /\ keyed = [k \in Kind |-> 0] /\ altered = {} /\ step = 0 /\ acts = 0
        /\ handles = [k \in Kind \cup {"none"} |-> 0]
    BY DEF SeedInit
  <1>2. 0 \in 0..MaxCopies /\ 0 \in 0..Len(Order)
    BY SeedBounds, OrderFacts
  <1>3. IsFiniteSet(rows)
    BY <1>1, FS_EmptySet
  <1>4. keyed \in [Kind -> 0..MaxCopies] /\ handles \in [Kind \cup {"none"} -> 0..MaxCopies]
    BY <1>1, <1>2
  <1>5. SeedTyped
    BY <1>1, <1>2, <1>3, <1>4 DEF SeedTyped
  <1>6. Hangs(rows) /\ KeysNamed(rows, keyed)
    BY <1>1 DEF Hangs, KeysNamed
  <1>7. KeysOK /\ SeededUpTo
    BY <1>1 DEF KeysOK, SeededUpTo
  <1> QED
    BY <1>4, <1>5, <1>6, <1>7, SeedTypes DEF SeedInv, SeedTyped

\* What one upsert does: the row with the key is found, or a first one is made.
LEMMA UpsertFacts ==
  ASSUME SeedInv, SeedUpsert
  PROVE \E k \in Kind : \E n \in 1..MaxCopies :
          /\ k = Order[step] /\ step \in 1..10
          /\ step' = (IF step = 10 THEN 0 ELSE step + 1)
          /\ subscribed' = (subscribed \/ k = "subscription")
          /\ handles' = [handles EXCEPT ![k] = n]
          /\ altered' = altered /\ acts' = acts /\ renamed' = renamed /\ crossed' = crossed
          /\ \/ keyed[k] = n /\ UNCHANGED <<rows, keyed>>
             \/ \E r \in SeedRows :
                  /\ r.kind = k /\ r.n = n /\ keyed[k] = 0
                  /\ \A s \in rows : s.kind = k => s.n # n
                  /\ Parent(k) # "none" => \E s \in rows : s.kind = Parent(k) /\ s.n = r.of
                  /\ rows' = rows \cup {r} /\ keyed' = [keyed EXCEPT ![k] = n]
  <1>1. PICK k : k = Order[step]
    OBVIOUS
  <1>2. step \in 1..10 /\ k \in Kind
    BY <1>1, OrderFacts DEF SeedInv, SeedTypeOK, SeedUpsert
  <1>3. step' = (IF step = 10 THEN 0 ELSE step + 1)
    BY OrderFacts DEF SeedUpsert, Advance
  <1>4. UNCHANGED <<acts, renamed, crossed>> /\ (Found(k) \/ Made(k))
    BY <1>1 DEF SeedUpsert
  <1>5. CASE Found(k)
    <2>1. keyed[k] \in 1..MaxCopies
      BY <1>2, <1>5, SeedBounds DEF SeedInv, Found
    <2>2. /\ handles' = [handles EXCEPT ![k] = keyed[k]]
          /\ subscribed' = (subscribed \/ k = "subscription")
          /\ UNCHANGED <<rows, keyed, altered>>
      BY <1>5 DEF Found
    <2> QED
      BY <1>1, <1>2, <1>3, <1>4, <2>1, <2>2
  <1>6. CASE Made(k)
    <2> DEFINE of == handles[Parent(k)]
               n == CHOOSE m \in 1..MaxCopies : \A r \in Copies(k) : r.n # m
               r == NewRow(k, n, of)
    <2>1. /\ keyed[k] = 0 /\ Cardinality(Copies(k)) < MaxCopies
          /\ (Parent(k) # "none") => \E s \in Copies(Parent(k)) : s.n = of
          /\ rows' = rows \cup {r} /\ keyed' = [keyed EXCEPT ![k] = n]
          /\ handles' = [handles EXCEPT ![k] = n]
          /\ subscribed' = (subscribed \/ k = "subscription") /\ altered' = altered
      BY <1>6 DEF Made, Missing
    <2>2. \E m \in 1..MaxCopies : \A s \in Copies(k) : s.n # m
      BY <2>1, FreeNumber DEF SeedInv
    <2>3. n \in 1..MaxCopies /\ \A s \in Copies(k) : s.n # n
      BY <2>2
    <2>4. of \in 0..MaxCopies
      BY <1>2, ParentKind DEF SeedInv, SeedTypeOK
    <2> HIDE DEF n, of
    <2>5. r \in SeedRows /\ r.kind = k /\ r.n = n /\ r.of = of
      BY <1>2, <2>3, <2>4 DEF NewRow, SeedRows
    <2> HIDE DEF r
    <2>6. /\ \A s \in rows : s.kind = k => s.n # n
          /\ Parent(k) # "none" => \E s \in rows : s.kind = Parent(k) /\ s.n = r.of
      BY <2>1, <2>3, <2>5 DEF Copies
    <2> QED
      BY <1>1, <1>2, <1>3, <1>4, <2>1, <2>3, <2>5, <2>6
  <1> QED
    BY <1>4, <1>5, <1>6

LEMMA UpsertKeeps ==
  ASSUME SeedInv, SeedUpsert
  PROVE SeedInv'
  <1>0. /\ SeedTyped /\ Hangs(rows) /\ KeysNamed(rows, keyed) /\ KeysOK /\ SeededUpTo
    BY SeedTypesHold DEF SeedInv
  <1>1. PICK k \in Kind, n \in 1..MaxCopies :
          /\ k = Order[step] /\ step \in 1..10
          /\ step' = (IF step = 10 THEN 0 ELSE step + 1)
          /\ subscribed' = (subscribed \/ k = "subscription")
          /\ handles' = [handles EXCEPT ![k] = n]
          /\ altered' = altered /\ acts' = acts /\ renamed' = renamed /\ crossed' = crossed
          /\ \/ keyed[k] = n /\ UNCHANGED <<rows, keyed>>
             \/ \E r \in SeedRows :
                  /\ r.kind = k /\ r.n = n /\ keyed[k] = 0
                  /\ \A s \in rows : s.kind = k => s.n # n
                  /\ Parent(k) # "none" => \E s \in rows : s.kind = Parent(k) /\ s.n = r.of
                  /\ rows' = rows \cup {r} /\ keyed' = [keyed EXCEPT ![k] = n]
    BY UpsertFacts
  <1>2. keyed \in [Kind -> 0..MaxCopies] /\ rows \subseteq SeedRows /\ IsFiniteSet(rows)
    BY <1>0 DEF SeedTyped
  <1>3. handles' \in [Kind \cup {"none"} -> 0..MaxCopies]
    BY <1>0, <1>1 DEF SeedTyped
  <1>4. step' \in 0..Len(Order)
    BY <1>1, OrderFacts
  <1>5. /\ keyed'[k] = n /\ keyed' \in [Kind -> 0..MaxCopies]
        /\ \A j \in Kind : j # k => keyed'[j] = keyed[j]
    <2>1. n \in 0..MaxCopies /\ ((keyed' = keyed /\ keyed[k] = n) \/ keyed' = [keyed EXCEPT ![k] = n])
      BY <1>1
    <2> QED
      BY <1>2, <2>1
  <1>6. /\ rows \subseteq rows' /\ rows' \subseteq SeedRows /\ IsFiniteSet(rows')
        /\ Hangs(rows') /\ KeysNamed(rows', keyed') /\ KeysOK'
    <2>1. CASE UNCHANGED <<rows, keyed>>
      BY <1>0, <1>1, <1>2, <2>1 DEF KeysOK
    <2>2. ASSUME NEW r \in SeedRows, r.kind = k, r.n = n, keyed[k] = 0,
                 \A s \in rows : s.kind = k => s.n # n,
                 Parent(k) # "none" => \E s \in rows : s.kind = Parent(k) /\ s.n = r.of,
                 rows' = rows \cup {r}, keyed' = [keyed EXCEPT ![k] = n]
          PROVE /\ rows \subseteq rows' /\ rows' \subseteq SeedRows /\ IsFiniteSet(rows')
                /\ Hangs(rows') /\ KeysNamed(rows', keyed') /\ KeysOK'
      <3>1. rows \subseteq rows' /\ rows' \subseteq SeedRows /\ IsFiniteSet(rows')
        BY <1>2, <2>2, FS_AddElement
      <3>2. Hangs(rows')
        BY <1>0, <2>2 DEF Hangs
      <3>3. KeysNamed(rows', keyed')
        BY <1>0, <1>5, <2>2 DEF KeysNamed
      <3>4. \A s, t \in rows' : s.kind = t.kind /\ s.n = t.n => s = t
        BY <1>0, <2>2 DEF KeysOK
      <3>5. ASSUME ~renamed', NEW s \in rows' PROVE keyed'[s.kind] = s.n
        <4>1. CASE s = r
          BY <1>5, <2>2, <4>1
        <4>2. CASE s # r
          <5>1. s \in rows /\ keyed[s.kind] = s.n /\ s.n \in 1..MaxCopies /\ s.kind \in Kind
            BY <1>0, <1>1, <1>2, <2>2, <3>5, <4>2 DEF KeysOK, SeedRows
          <5>2. s.kind # k
            BY <2>2, <5>1
          <5> QED
            BY <1>5, <5>1, <5>2
        <4> QED
          BY <4>1, <4>2
      <3> QED
        BY <3>1, <3>2, <3>3, <3>4, <3>5 DEF KeysOK
    <2> QED
      BY <1>1, <2>1, <2>2
  <1>7. SeedTyped'
    BY <1>0, <1>1, <1>3, <1>4, <1>5, <1>6 DEF SeedTyped
  <1>8. SeededUpTo'
    <2> SUFFICES ASSUME step' > 0, ~crossed'
                 PROVE (\A i \in 1..(step' - 1) : keyed'[Order[i]] # 0) /\ (step' > 6 => subscribed')
      BY DEF SeededUpTo
    <2>1. /\ step' = step + 1 /\ step \in 1..9 /\ ~crossed
          /\ \A i \in 1..(step - 1) : keyed[Order[i]] # 0
          /\ step > 6 => subscribed
      BY <1>0, <1>1 DEF SeededUpTo
    <2>2. ASSUME NEW i \in 1..step PROVE keyed'[Order[i]] # 0
      <3>1. CASE Order[i] = k
        BY <1>1, <1>5, <3>1
      <3>2. CASE Order[i] # k
        <4>1. i \in 1..(step - 1) /\ Order[i] \in Kind
          BY <1>1, <2>1, <3>2, OrderFacts
        <4> QED
          BY <1>5, <2>1, <3>2, <4>1
      <3> QED
        BY <3>1, <3>2
    <2>3. step' > 6 => subscribed'
      <3>1. CASE step = 6
        <4>1. k = "subscription"
          BY <1>1, <3>1, OrderFacts
        <4>2. subscribed' = TRUE
          BY <1>1, <4>1
        <4> QED
          BY <4>2
      <3>2. CASE step > 6
        <4>1. subscribed' = TRUE
          BY <1>1, <2>1, <3>2
        <4> QED
          BY <4>1
      <3>3. CASE step < 6
        BY <2>1, <3>3
      <3> QED
        BY <2>1, <3>1, <3>2, <3>3
    <2> QED
      BY <2>1, <2>2, <2>3
  <1>9. SeedTypeOK'
    BY <1>6, <1>7 DEF SeedTyped, Hangs, KeysNamed, SeedTypeOK, SeedRows, Copies
  <1> QED
    BY <1>6, <1>7, <1>8, <1>9 DEF SeedInv, SeedTyped

\* A removal leaves no row without its parent: what hangs under a course is at
\* most two steps below it, and nothing hangs under the other rows.
LEMMA DeleteKeeps ==
  ASSUME SeedInv, Delete
  PROVE SeedInv'
  <1>0. /\ SeedTyped /\ Hangs(rows) /\ KeysNamed(rows, keyed) /\ KeysOK
        /\ rows \subseteq SeedRows /\ IsFiniteSet(rows) /\ keyed \in [Kind -> 0..MaxCopies]
        /\ acts \in Nat
    BY SeedTypesHold DEF SeedInv
  <1>1. PICK r \in rows :
          LET gone == {r} \cup Under(r) \cup UNION {Under(s) : s \in Under(r)}  IN
          /\ r.kind \in {"instrument", "userRole", "course", "module", "lesson", "live"}
          /\ r.kind = "instrument" => Under(r) = {}
          /\ rows' = rows \ gone /\ altered' = altered \ gone
          /\ keyed' = [k \in Kind |-> IF \E s \in gone : s.kind = k /\ s.n = keyed[k]
                                      THEN 0 ELSE keyed[k]]
    BY DEF Delete
  <1>2. PICK gone : gone = {r} \cup Under(r) \cup UNION {Under(s) : s \in Under(r)}
    OBVIOUS
  <1>3. /\ r.kind \in {"instrument", "userRole", "course", "module", "lesson", "live"}
        /\ r.kind = "instrument" => Under(r) = {}
        /\ rows' = rows \ gone /\ altered' = altered \ gone
        /\ keyed' = [k \in Kind |-> IF \E s \in gone : s.kind = k /\ s.n = keyed[k]
                                    THEN 0 ELSE keyed[k]]
    BY <1>1, <1>2
  <1>4. /\ UNCHANGED <<subscribed, renamed, step, handles>> /\ acts' = acts + 1 /\ crossed' = TRUE
    BY DEF Delete, Act
  <1>5. \A s : Under(s) = {x \in rows : Parent(x.kind) = s.kind /\ x.of = s.n}
    BY DEF Under
  <1>6. ASSUME NEW x \in rows \ gone, NEW s \in gone, Parent(x.kind) = s.kind, x.of = s.n
        PROVE FALSE
    <2>1. s.kind \in Kind /\ s \in rows
      BY <1>0, <1>2, <1>5, <1>6 DEF SeedRows
    <2>2. x \in Under(s) /\ s.kind # "none" /\ x.kind \in Children
      <3>1. s.kind # "none"
        BY <2>1, OrderFacts
      <3> QED
        BY <1>5, <1>6, <3>1, ParentFacts
    <2>3. s \notin {r} \cup Under(r)
      BY <1>2, <1>6, <2>2
    <2>4. PICK t \in Under(r) : s \in Under(t)
      BY <1>2, <1>6, <2>3
    <2>5. /\ Parent(t.kind) = r.kind /\ Parent(s.kind) = t.kind /\ t \in rows
      BY <1>5, <2>4
    <2>6. t.kind \in Children /\ s.kind \in Children
      <3>1. r.kind # "none" /\ t.kind # "none"
        BY <1>0, <2>5, OrderFacts DEF SeedRows
      <3> QED
        BY <2>5, <3>1, ParentFacts
    <2>7. r.kind # "instrument"
      BY <1>3, <2>4
    <2>8. t.kind \in {"module", "lesson"}
      BY <1>3, <2>5, <2>6, <2>7, ParentFacts DEF Children
    <2>9. s.kind = "lesson"
      BY <2>5, <2>6, <2>8, ParentFacts DEF Children
    <2> QED
      BY <1>6, <2>2, <2>9, ParentFacts DEF Children
  <1>7. Hangs(rows')
    <2> SUFFICES ASSUME NEW x \in rows', Parent(x.kind) # "none"
                 PROVE \E s \in rows' : s.kind = Parent(x.kind) /\ s.n = x.of
      BY DEF Hangs
    <2>1. PICK s \in rows : s.kind = Parent(x.kind) /\ s.n = x.of
      BY <1>0, <1>3 DEF Hangs
    <2>2. s \notin gone
      BY <1>3, <1>6, <2>1
    <2> QED
      BY <1>3, <2>1, <2>2
  <1>8. /\ keyed' \in [Kind -> 0..MaxCopies]
        /\ \A k \in Kind : keyed'[k] = IF \E s \in gone : s.kind = k /\ s.n = keyed[k]
                                       THEN 0 ELSE keyed[k]
    <2>1. 0 \in 0..MaxCopies
      BY SeedBounds
    <2> QED
      BY <1>0, <1>3, <2>1
  <1>9. KeysNamed(rows', keyed')
    <2> SUFFICES ASSUME NEW k \in Kind, keyed'[k] # 0
                 PROVE \E x \in rows' : x.kind = k /\ x.n = keyed'[k]
      BY DEF KeysNamed
    <2>1. keyed'[k] = keyed[k] /\ keyed[k] # 0 /\ ~(\E s \in gone : s.kind = k /\ s.n = keyed[k])
      BY <1>8
    <2>2. PICK x \in rows : x.kind = k /\ x.n = keyed[k]
      BY <1>0, <2>1 DEF KeysNamed
    <2> QED
      BY <1>3, <2>1, <2>2
  <1>10. rows' \subseteq SeedRows /\ IsFiniteSet(rows') /\ altered' \subseteq rows'
    <2>1. rows' \in SUBSET rows
      BY <1>3
    <2>2. IsFiniteSet(rows')
      BY <1>0, <2>1, FS_Subset
    <2> QED
      BY <1>0, <1>3, <2>2 DEF SeedTyped
  <1>11. KeysOK'
    <2>1. \A s, t \in rows' : s.kind = t.kind /\ s.n = t.n => s = t
      BY <1>0, <1>3 DEF KeysOK
    <2>2. ASSUME ~renamed', NEW x \in rows' PROVE keyed'[x.kind] = x.n
      <3>1. x \in rows /\ x \notin gone /\ x.kind \in Kind /\ keyed[x.kind] = x.n
        BY <1>0, <1>3, <1>4, <2>2 DEF KeysOK, SeedRows
      <3>2. ~(\E s \in gone : s.kind = x.kind /\ s.n = keyed[x.kind])
        <4>1. gone \subseteq rows
          BY <1>2, <1>5
        <4> QED
          BY <1>0, <3>1, <4>1 DEF KeysOK
      <3> QED
        BY <1>8, <3>1, <3>2
    <2> QED
      BY <2>1, <2>2 DEF KeysOK
  <1>12. SeededUpTo'
    BY <1>4 DEF SeededUpTo
  <1>13. SeedTypeOK'
    BY <1>0, <1>4, <1>7, <1>9, <1>10
       DEF SeedTyped, Hangs, KeysNamed, SeedTypeOK, SeedRows, Copies
  <1> QED
    BY <1>0, <1>4, <1>8, <1>10, <1>11, <1>12, <1>13 DEF SeedInv

LEMMA SeedKept ==
  ASSUME SeedInv, [SeedNext]_seed
  PROVE SeedInv'
  <1>0. /\ SeedTypeOK /\ KeysOK /\ SeededUpTo /\ acts \in Nat
        /\ rows \subseteq SeedRows /\ IsFiniteSet(rows) /\ keyed \in [Kind -> 0..MaxCopies]
    BY DEF SeedInv
  <1>1. CASE StartSeed
    <2>1. step' \in 0..Len(Order) /\ handles' \in [Kind \cup {"none"} -> 0..MaxCopies]
      <3>1. 0 \in 0..MaxCopies
        BY SeedBounds
      <3> QED
        BY <1>1, <3>1, OrderFacts DEF StartSeed
    <2>2. UNCHANGED <<rows, keyed, altered, subscribed, acts, renamed>> /\ step' = 1
      BY <1>1 DEF StartSeed
    <2>3. SeedTypeOK' /\ KeysOK'
      BY <1>0, <2>1, <2>2 DEF SeedTypeOK, KeysOK, Copies
    <2>4. SeededUpTo'
      BY <2>2 DEF SeededUpTo
    <2> QED
      BY <1>0, <2>2, <2>3, <2>4 DEF SeedInv
  <1>2. CASE SeedUpsert
    BY <1>2, UpsertKeeps
  <1>3. CASE StopSeed
    <2>1. step' = 0 /\ 0 \in 0..Len(Order)
          /\ UNCHANGED <<rows, keyed, altered, subscribed, handles, acts, renamed>>
      BY <1>3, OrderFacts DEF StopSeed
    <2>2. SeedTypeOK' /\ KeysOK'
      BY <1>0, <2>1 DEF SeedTypeOK, KeysOK, Copies
    <2>3. SeededUpTo'
      BY <2>1 DEF SeededUpTo
    <2> QED
      BY <1>0, <2>1, <2>2, <2>3 DEF SeedInv
  <1>4. CASE Edit \/ EndSubscription
    <2>1. /\ UNCHANGED <<rows, keyed, renamed, step, handles>> /\ acts' = acts + 1
          /\ crossed' = TRUE /\ altered' \subseteq rows
      BY <1>0, <1>4 DEF Edit, EndSubscription, Act, SeedTypeOK
    <2>2. SeedTypeOK' /\ KeysOK'
      BY <1>0, <2>1 DEF SeedTypeOK, KeysOK, Copies
    <2>3. SeededUpTo'
      BY <2>1 DEF SeededUpTo
    <2> QED
      BY <1>0, <2>1, <2>2, <2>3 DEF SeedInv
  <1>5. CASE Rename
    <2>1. PICK k \in {"instrument", "course"} : keyed' = [keyed EXCEPT ![k] = 0]
      BY <1>5 DEF Rename
    <2>2. /\ UNCHANGED <<rows, altered, step, handles>> /\ acts' = acts + 1
          /\ crossed' = TRUE /\ renamed' = TRUE
      BY <1>5 DEF Rename, Act
    <2>3. /\ keyed' \in [Kind -> 0..MaxCopies]
          /\ \A j \in Kind : keyed'[j] = 0 \/ keyed'[j] = keyed[j]
      <3>1. 0 \in 0..MaxCopies
        BY SeedBounds
      <3> QED
        BY <1>0, <2>1, <3>1
    <2>4. SeedTypeOK'
      BY <1>0, <2>2, <2>3 DEF SeedTypeOK, Copies
    <2>5. KeysOK' /\ SeededUpTo'
      BY <1>0, <2>2 DEF KeysOK, SeededUpTo
    <2> QED
      BY <1>0, <2>2, <2>3, <2>4, <2>5 DEF SeedInv
  <1>6. CASE Delete
    BY <1>6, DeleteKeeps
  <1>7. CASE UNCHANGED seed
    <2>1. UNCHANGED <<rows, keyed, altered, subscribed, step, handles, acts, renamed, crossed>>
      BY <1>7 DEF seed
    <2>2. SeedTypeOK' /\ KeysOK' /\ SeededUpTo'
      BY <1>0, <2>1 DEF SeedTypeOK, KeysOK, SeededUpTo, Copies
    <2> QED
      BY <1>0, <2>1, <2>2 DEF SeedInv
  <1> QED
    BY <1>1, <1>2, <1>3, <1>4, <1>5, <1>6, <1>7 DEF SeedNext

LEMMA OneOfEachFollows == SeedInv => OneOfEach
  <1> SUFFICES ASSUME SeedInv, ~renamed, NEW k \in Kind PROVE Cardinality(Copies(k)) <= 1
    BY DEF OneOfEach
  <1>1. \A r, s \in Copies(k) : r = s
    BY DEF SeedInv, KeysOK, Copies
  <1>2. CASE Copies(k) = {}
    BY <1>2, FS_EmptySet
  <1>3. CASE Copies(k) # {}
    <2>1. PICK r : Copies(k) = {r}
      BY <1>1, <1>3
    <2> QED
      BY <2>1, FS_Singleton
  <1> QED
    BY <1>2, <1>3

\* A run that nobody disturbed has come to its end.
LEMMA SeedCompletesStep ==
  ASSUME SeedInv, SeedInv', SeedNext, step = Len(Order), step' = 0, ~crossed'
  PROVE /\ \A k \in Kind : keyed'[k] # 0
        /\ subscribed'
        /\ ~renamed => \A r \in rows' : Parent(r.kind) # "none" => r.of = keyed'[Parent(r.kind)]
  <1>1. step = 10
    BY OrderFacts
  <1>2. SeedUpsert
    BY <1>1 DEF SeedNext, StartSeed, StopSeed, Edit, Rename, Delete, EndSubscription, Act
  <1>3. PICK k \in Kind, n \in 1..MaxCopies :
          /\ k = Order[step] /\ UNCHANGED <<renamed, crossed>>
          /\ subscribed' = (subscribed \/ k = "subscription")
          /\ \/ keyed[k] = n /\ keyed' = keyed
             \/ keyed' = [keyed EXCEPT ![k] = n]
    BY <1>2, UpsertFacts
  <1>4. keyed \in [Kind -> 0..MaxCopies]
    BY DEF SeedInv
  <1>5. /\ \A i \in 1..9 : keyed[Order[i]] # 0
        /\ subscribed
    BY <1>1, <1>3 DEF SeedInv, SeededUpTo
  <1>6. keyed'[k] = n /\ \A j \in Kind : j # k => keyed'[j] = keyed[j]
    BY <1>3, <1>4
  <1>7. ASSUME NEW j \in Kind PROVE keyed'[j] # 0
    <2>1. PICK i \in 1..10 : j = Order[i]
      BY OrderFacts DEF Kind
    <2>2. CASE i = 10
      BY <1>1, <1>3, <1>6, <2>1, <2>2
    <2>3. CASE i # 10
      <3>1. keyed[j] # 0
        BY <1>5, <2>1, <2>3
      <3> QED
        BY <1>6, <3>1
    <2> QED
      BY <2>2, <2>3
  <1>8. ASSUME ~renamed, NEW r \in rows', Parent(r.kind) # "none"
        PROVE r.of = keyed'[Parent(r.kind)]
    <2>1. PICK s \in rows' : s.kind = Parent(r.kind) /\ s.n = r.of
      BY <1>8 DEF SeedInv, SeedTypeOK, Copies
    <2>2. keyed'[s.kind] = s.n
      BY <1>3, <1>8 DEF SeedInv, KeysOK
    <2> QED
      BY <2>1, <2>2
  <1> QED
    BY <1>3, <1>5, <1>7, <1>8

\* Only an administrator's act takes a change back.
LEMMA EditsKeptStep ==
  ASSUME SeedInv, [SeedNext]_seed, acts' = acts
  PROVE altered \subseteq altered'
  <1>1. acts \in Nat
    BY DEF SeedInv
  <1>2. ~Act
    BY <1>1 DEF Act
  <1>3. CASE SeedUpsert
    BY <1>3 DEF SeedUpsert, Found, Made
  <1>4. CASE StartSeed \/ StopSeed \/ UNCHANGED seed
    BY <1>4 DEF StartSeed, StopSeed, seed
  <1> QED
    BY <1>2, <1>3, <1>4 DEF SeedNext, Edit, Rename, Delete, EndSubscription
=============================================================================
