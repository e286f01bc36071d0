------------------------- MODULE LiveSessionsProofs -------------------------
(***************************************************************************)
(* For every number of sessions, requests, streams and recordings, with    *)
(* failures and restarts: the types, that a session on air has its stream  *)
(* and shows its own recording only, that operations which do not overlap  *)
(* keep a session on its life cycle, and that a recording is not replaced. *)
(***************************************************************************)
EXTENDS LiveSessions, SequenceTheorems, TLAPS

-----------------------------------------------------------------------------
(* The inductive invariant.                                                 *)

\* A session names a stream that was made for it.
StreamsOK == \A l \in Live : stream[l] # 0 => streams[stream[l]] = l

\* What each statement may rely on, whoever else writes the session.
Known(r) ==
  /\ pc[r] \in Operating \cup {"save"} => arg[r].live \in Live
  /\ pc[r] \in {"setLive", "endStream"} =>
       arg[r].stream # 0 /\ streams[arg[r].stream] = arg[r].live
  /\ pc[r] \in {"endStream", "setFinished"} => stream[arg[r].live] # 0
  /\ pc[r] \in {"find", "save"} => todo[r] # <<>>
  /\ pc[r] = "save" => streams[recordings[Head(todo[r])]] = arg[r].live

\* Two operations only meet on a session that is marked as raced; alone, an
\* operation still finds the status it has checked.
Exclusive ==
  \A r, q \in Req : r # q /\ pc[r] \in Operating /\ pc[q] \in Operating
                    /\ arg[r].live = arg[q].live => arg[r].live \in raced

From(op) ==
  IF op \in {"createStream", "setLive", "setCanceled"} THEN {"SCHEDULED"}
  ELSE IF op \in {"endStream", "setFinished"} THEN {"LIVE"}
  ELSE {"SCHEDULED", "CANCELED"}
Checked(r) ==
  pc[r] \in Operating /\ arg[r].live \notin raced => status[arg[r].live] \in From(pc[r])

\* The session of a recording.
Of(k) == streams[recordings[k]]

\* A session that was recorded has finished, or is about to; it is not recorded
\* again.
Ending(l) == \E r \in Req : pc[r] = "setFinished" /\ arg[r].live = l
RecordedOnce ==
  faulted \/ \A k \in Recording : Of(k) \notin raced =>
    /\ status[Of(k)] = "FINISHED" \/ Ending(Of(k))
    /\ \A j \in Recording : Of(j) = Of(k) => j = k

Alone ==
  /\ Exclusive /\ RecordedOnce
  /\ \A r \in Req : Checked(r)

LInv ==
  /\ TypeOK /\ StreamsOK /\ MediaOfSession
  /\ \A r \in Req : Known(r)
  /\ Alone

-----------------------------------------------------------------------------
(* What a step of request r does to the others' facts.                      *)

Others(r) ==
  \A q \in Req : q # r => pc'[q] = pc[q] /\ arg'[q] = arg[q] /\ todo'[q] = todo[q]

\* Streams and recordings are never forgotten, nor is the stream of a session.
Grows ==
  /\ \A i \in 1 .. Len(streams) : i \in 1 .. Len(streams') /\ streams'[i] = streams[i]
  /\ \A k \in Recording : k \in Recording' /\ recordings'[k] = recordings[k]
  /\ \A l \in Live : stream[l] # 0 => stream'[l] # 0

LEMMA RecordingType ==
  ASSUME TypeOK, NEW k \in Recording
  PROVE recordings[k] \in 1 .. Len(streams) /\ Of(k) \in Live
  BY DEF TypeOK, Recording, Of

LEMMA SeqHead ==
  ASSUME NEW S, NEW s \in Seq(S), s # <<>>
  PROVE Head(s) \in S /\ Tail(s) \in Seq(S)
  OBVIOUS

LEMMA StreamType ==
  ASSUME TypeOK
  PROVE /\ \A l \in Live : stream[l] \in 0 .. Len(streams)
        /\ \A l \in Live : recording[l] \in 0 .. Len(recordings)
        /\ Len(streams) \in Nat /\ Len(recordings) \in Nat
        /\ \A r \in Req : arg[r].live \in Live \cup {None} /\ arg[r].stream \in 0 .. Len(streams)
        /\ \A i \in 1 .. Len(streams) : streams[i] \in Live
        /\ \A r \in Req : todo[r] \in Seq(Recording)
  BY DEF TypeOK

LEMMA KnownKept ==
  ASSUME LInv, NEW r \in Req, Others(r), Grows, NEW q \in Req, q # r
  PROVE Known(q)'
  <1>1. TypeOK /\ Known(q)
    BY DEF LInv
  <1>2. pc'[q] = pc[q] /\ arg'[q] = arg[q] /\ todo'[q] = todo[q]
    BY DEF Others
  <1>3. pc[q] \in {"setLive", "endStream"} => arg[q].stream \in 1 .. Len(streams)
    BY <1>1, StreamType DEF Known
  <1>4. pc[q] = "save" =>
          Head(todo[q]) \in Recording /\ recordings[Head(todo[q])] \in 1 .. Len(streams)
    BY <1>1, StreamType, RecordingType, SeqHead DEF Known
  <1>5. pc[q] \in {"endStream", "setFinished"} => arg[q].live \in Live
    BY <1>1 DEF Known, Operating
  <1> QED
    BY <1>1, <1>2, <1>3, <1>4, <1>5 DEF Known, Grows

\* The facts about sessions hold on while no row is written.
LEMMA RowsKept ==
  ASSUME LInv, Grows, UNCHANGED rows
  PROVE (StreamsOK /\ MediaOfSession)'
  <1>1. TypeOK /\ StreamsOK /\ MediaOfSession /\ UNCHANGED <<status, stream, recording>>
    BY DEF LInv, rows
  <1>2. \A l \in Live : recording[l] # 0 =>
          recording[l] \in Recording /\ recordings[recording[l]] \in 1 .. Len(streams)
    BY <1>1, StreamType, RecordingType DEF Recording
  <1>3. \A l \in Live : stream[l] # 0 => stream[l] \in 1 .. Len(streams)
    BY <1>1, StreamType
  <1> QED
    BY <1>1, <1>2, <1>3 DEF StreamsOK, MediaOfSession, Grows

LEMMA GrowsWhenUnchanged ==
  ASSUME UNCHANGED <<streams, recordings, stream>>
  PROVE Grows
  BY DEF Grows, Recording

-----------------------------------------------------------------------------
(* The control helpers.                                                     *)

ControlOK ==
  /\ pc \in [Req -> Control]
  /\ arg \in [Req -> [live : Live \cup {None}, stream : 0 .. Len(streams)]]
  /\ todo \in [Req -> Seq(Recording)]

DataOK ==
  /\ simulated \in BOOLEAN
  /\ status \in [Live -> LiveStatus \cup {"absent", "deleted"}]
  /\ streams \in Seq(Live) /\ recordings \in Seq(1 .. Len(streams))
  /\ stream \in [Live -> 0 .. Len(streams)]
  /\ recording \in [Live -> 0 .. Len(recordings)]
  /\ pending \in Seq(Recording)
  /\ raced \subseteq Live /\ faulted \in BOOLEAN

LEMMA TypeParts == TypeOK <=> ControlOK /\ DataOK
  BY DEF TypeOK, ControlOK, DataOK

LEMMA FinishFacts ==
  ASSUME ControlOK, NEW r \in Req, Finish(r), UNCHANGED <<streams, recordings>>
  PROVE /\ ControlOK' /\ Others(r)
        /\ pc'[r] = "idle" /\ todo'[r] = <<>>
  <1>1. NoArg \in [live : Live \cup {None}, stream : 0 .. Len(streams)]
    BY DEF NoArg, ControlOK
  <1> QED
    BY <1>1 DEF ControlOK, Finish, Others, Control, Recording

LEMMA GotoFacts ==
  ASSUME ControlOK, NEW r \in Req, NEW from, NEW to \in Control, Goto(r, from, to),
         UNCHANGED <<arg, todo, streams, recordings>>
  PROVE /\ ControlOK' /\ Others(r)
        /\ pc[r] = from /\ pc'[r] = to /\ arg'[r] = arg[r] /\ todo'[r] = todo[r]
  BY DEF ControlOK, Goto, Others, Recording

LEMMA UpdateFacts ==
  ASSUME LInv, NEW r \in Req, NEW from \in Operating, NEW to \in {"idle", "drain"},
         NEW new \in LiveStatus \cup {"deleted"},
         Update(r, from, to, new), UNCHANGED <<streams, recordings>>
  PROVE /\ ControlOK' /\ Others(r) /\ pc[r] = from /\ pc'[r] \in {"idle", "drain"}
        /\ arg[r].live \in Live
        /\ status' \in [Live -> LiveStatus \cup {"absent", "deleted"}]
        /\ status' = IF Exists(arg[r].live) THEN [status EXCEPT ![arg[r].live] = new] ELSE status
  <1>1. ControlOK /\ DataOK /\ pc[r] = from
    BY TypeParts DEF LInv, Update
  <1>2. arg[r].live \in Live
    BY <1>1 DEF LInv, Known
  <1>3. ControlOK' /\ Others(r) /\ pc'[r] \in {"idle", "drain"}
    BY <1>1, FinishFacts, GotoFacts DEF Update, Control
  <1>4. status' = IF Exists(arg[r].live) THEN [status EXCEPT ![arg[r].live] = new] ELSE status
    BY DEF Update
  <1> QED
    BY <1>1, <1>2, <1>3, <1>4 DEF DataOK

-----------------------------------------------------------------------------
(* Operations that overlap, and those that do not.                          *)

LEMMA OfKept ==
  ASSUME TypeOK, Grows, NEW k \in Recording
  PROVE Of(k)' = Of(k) /\ Of(k) \in Live
  BY RecordingType DEF Of, Grows

\* Steps that write no status and make no recording.
LEMMA AloneKept ==
  ASSUME LInv, NEW r \in Req, Others(r), Grows, UNCHANGED <<status, recordings, raced>>,
         faulted' \/ (pc[r] # "setFinished" /\ UNCHANGED faulted),
         pc'[r] \in Operating => /\ pc[r] = "createStream" /\ pc'[r] = "setLive"
                                 /\ arg'[r].live = arg[r].live
  PROVE Alone'
  <1>1. TypeOK /\ Exclusive /\ RecordedOnce /\ \A q \in Req : Checked(q)
    BY DEF LInv, Alone
  <1>2. \A q \in Req : q # r => pc'[q] = pc[q] /\ arg'[q] = arg[q]
    BY DEF Others
  <1>3. Exclusive'
    BY <1>1, <1>2 DEF Exclusive, Operating
  <1>4. ASSUME NEW q \in Req PROVE Checked(q)'
    BY <1>1, <1>2 DEF Checked, Operating, From
  <1>5. RecordedOnce'
    <2>1. \A l : Ending(l) => Ending(l)' \/ faulted'
      BY <1>2 DEF Ending
    <2>2. Recording' = Recording
      BY DEF Recording
    <2> QED
      BY <1>1, <2>1, <2>2, OfKept DEF RecordedOnce
  <1> QED
    BY <1>3, <1>4, <1>5 DEF Alone

\* The write of an operation, of a status that it checked or that another
\* operation has changed since.
LEMMA UpdateAlone ==
  ASSUME LInv, NEW r \in Req, Others(r), pc[r] \in Operating, pc'[r] \in {"idle", "drain"},
         arg[r].live \in Live,
         NEW new, pc[r] = "setFinished" => new = "FINISHED",
         status' = IF Exists(arg[r].live) THEN [status EXCEPT ![arg[r].live] = new] ELSE status,
         UNCHANGED <<streams, recordings, raced, faulted>>
  PROVE Alone'
  <1> DEFINE l == arg[r].live
  <1>1. TypeOK /\ Exclusive /\ RecordedOnce /\ \A q \in Req : Checked(q)
    BY DEF LInv, Alone
  <1>2. /\ \A q \in Req : q # r => pc'[q] = pc[q] /\ arg'[q] = arg[q]
        /\ pc'[r] \notin Operating
        /\ \A m \in Live : m # l => status'[m] = status[m]
    BY <1>1 DEF Others, Operating, TypeOK
  <1>3. Exclusive'
    BY <1>1, <1>2 DEF Exclusive
  <1>4. ASSUME NEW q \in Req PROVE Checked(q)'
    <2> SUFFICES ASSUME pc'[q] \in Operating, arg'[q].live \notin raced
                 PROVE Checked(q)'
      BY DEF Checked
    <2>1. q # r /\ arg'[q].live = arg[q].live /\ pc'[q] = pc[q]
      BY <1>2
    <2>2. arg[q].live # l
      BY <2>1, <1>1 DEF Exclusive
    <2>3. arg[q].live \in Live
      BY <2>1 DEF LInv, Known
    <2> QED
      BY <2>1, <2>2, <2>3, <1>1, <1>2 DEF Checked
  <1>5. RecordedOnce'
    <2> SUFFICES ASSUME ~faulted, NEW k \in Recording, NEW m \in Live, m = Of(k), m \notin raced
                 PROVE /\ status'[m] = "FINISHED" \/ Ending(m)'
                       /\ \A j \in Recording : Of(j) = m => j = k
      BY <1>1, RecordingType DEF RecordedOnce, Recording, Of
    <2>1. /\ status[m] = "FINISHED" \/ Ending(m)
          /\ \A j \in Recording : Of(j) = m => j = k
      BY <1>1 DEF RecordedOnce
    <2>2. CASE m # l
      BY <2>1, <2>2, <1>2 DEF Ending
    <2>3. CASE m = l
      <3>1. status[l] \in {"SCHEDULED", "LIVE", "CANCELED"}
        BY <2>3, <1>1 DEF Checked, From
      <3>2. PICK q \in Req : pc[q] = "setFinished" /\ arg[q].live = l
        BY <2>1, <2>3, <3>1 DEF Ending
      <3>3. q = r
        BY <3>2, <2>3, <1>1 DEF Exclusive, Operating
      <3>4. status'[l] = "FINISHED"
        BY <3>1, <3>2, <3>3, <1>1 DEF Exists, LiveStatus, TypeOK
      <3> QED
        BY <2>1, <2>3, <3>4
    <2> QED
      BY <2>2, <2>3
  <1> QED
    BY <1>3, <1>4, <1>5 DEF Alone

\* An operation that begins marks the session if another one is under way.
LEMMA BeginAlone ==
  ASSUME LInv, NEW r \in Req, NEW l \in Live, NEW to \in Operating, NEW ref,
         Others(r), Begin(r, l, to, ref), pc'[r] = to, arg'[r].live = l,
         status[l] \in From(to)
  PROVE Alone'
  <1>1. TypeOK /\ Exclusive /\ RecordedOnce /\ \A q \in Req : Checked(q)
    BY DEF LInv, Alone
  <1>2. /\ \A q \in Req : q # r => pc'[q] = pc[q] /\ arg'[q] = arg[q]
        /\ pc[r] = "idle" /\ raced \subseteq raced'
        /\ UNCHANGED <<status, streams, recordings, faulted>>
        /\ \A q \in Req : pc[q] \in Operating /\ arg[q].live = l => l \in raced'
    BY DEF Others, Begin, Goto, rows, provider, OperatingOn
  <1>3. Exclusive'
    BY <1>1, <1>2 DEF Exclusive
  <1>4. ASSUME NEW q \in Req PROVE Checked(q)'
    <2>1. CASE q = r
      BY <2>1, <1>2 DEF Checked
    <2>2. CASE q # r
      BY <2>2, <1>1, <1>2 DEF Checked
    <2> QED
      BY <2>1, <2>2
  <1>5. RecordedOnce'
    <2>1. \A m : Ending(m) => Ending(m)'
      BY <1>2 DEF Ending
    <2>2. Recording' = Recording /\ \A k \in Recording : Of(k)' = Of(k)
      BY <1>2 DEF Recording, Of
    <2> QED
      BY <1>1, <1>2, <2>1, <2>2 DEF RecordedOnce
  <1> QED
    BY <1>3, <1>4, <1>5 DEF Alone

-----------------------------------------------------------------------------
(* One lemma per action: what a request writes.                             *)

LEMMA Assemble ==
  ASSUME LInv, NEW r \in Req, Others(r), Grows, ControlOK', DataOK',
         (StreamsOK /\ MediaOfSession)', Known(r)', Alone'
  PROVE LInv'
  <1>1. ASSUME NEW q \in Req PROVE Known(q)'
    <2>1. CASE q = r
      BY <2>1
    <2>2. CASE q # r
      BY <2>2, KnownKept
    <2> QED
      BY <2>1, <2>2
  <1>2. TypeOK'
    BY DEF TypeOK, ControlOK, DataOK
  <1> QED
    BY <1>1, <1>2 DEF LInv

LEMMA Parts ==
  ASSUME LInv, NEW r \in Req
  PROVE ControlOK /\ DataOK /\ TypeOK /\ StreamsOK /\ MediaOfSession /\ Known(r) /\ Checked(r)
  BY TypeParts DEF LInv, Alone

\* Steps that write neither rows nor the provider's state.
LEMMA QuietInv ==
  ASSUME LInv, NEW r \in Req, Others(r), UNCHANGED <<rows, streams, recordings, simulated>>,
         ControlOK', pending' \in Seq(Recording), raced' \subseteq Live, faulted' \in BOOLEAN,
         Known(r)', Alone'
  PROVE LInv'
  <1>1. Grows
    BY GrowsWhenUnchanged DEF rows
  <1>2. DataOK'
    BY Parts DEF DataOK, rows, Recording
  <1> QED
    BY <1>1, <1>2, RowsKept, Assemble

LEMMA CreateLiveStreamInv ==
  ASSUME LInv, NEW r \in Req, CreateLiveStream(r)
  PROVE LInv'
  <1> DEFINE n == Len(streams) + 1
  <1>1. /\ pc[r] = "createStream" /\ pc' = [pc EXCEPT ![r] = "setLive"]
        /\ streams' = Append(streams, arg[r].live)
        /\ arg' = [arg EXCEPT ![r].stream = n]
        /\ UNCHANGED <<status, stream, recording, simulated, recordings, pending, todo, raced, faulted>>
    BY DEF CreateLiveStream, Goto, rows, history
  <1>2. ControlOK /\ DataOK /\ TypeOK /\ Known(r) /\ arg[r].live \in Live
    BY <1>1, Parts DEF Known, Operating
  <1>3. /\ streams' \in Seq(Live) /\ Len(streams') = n /\ Len(streams) \in Nat
        /\ \A i \in 1 .. Len(streams) : streams'[i] = streams[i]
        /\ streams'[n] = arg[r].live
    BY <1>1, <1>2 DEF DataOK
  <1>4. Grows
    BY <1>1, <1>3 DEF Grows, Recording
  <1>5. /\ Others(r) /\ pc'[r] = "setLive" /\ arg'[r].live = arg[r].live /\ arg'[r].stream = n
        /\ todo'[r] = todo[r]
    BY <1>1, <1>2 DEF Others, ControlOK
  <1>6. 0 .. Len(streams) \subseteq 0 .. Len(streams') /\ n \in 0 .. Len(streams')
    BY <1>3
  <1>7. ControlOK'
    <2>1. arg' \in [Req -> [live : Live \cup {None}, stream : 0 .. Len(streams')]]
      BY <1>1, <1>2, <1>6 DEF ControlOK
    <2> QED
      BY <1>1, <1>2, <2>1 DEF ControlOK, Recording, Control
  <1>8. DataOK'
    <2>1. recordings' \in Seq(1 .. Len(streams'))
      BY <1>1, <1>2, <1>3 DEF DataOK
    <2> QED
      BY <1>1, <1>2, <1>3, <1>6, <2>1 DEF DataOK, Recording
  <1>9. Known(r)'
    BY <1>2, <1>3, <1>5 DEF Known, Operating
  <1>10. Alone'
    BY <1>1, <1>4, <1>5, AloneKept
  <1>11. (StreamsOK /\ MediaOfSession)'
    BY <1>1, <1>4, RowsKept DEF rows
  <1> QED
    BY <1>4, <1>5, <1>7, <1>8, <1>9, <1>10, <1>11, Assemble

LEMMA SetLiveInv ==
  ASSUME LInv, NEW r \in Req, SetLive(r)
  PROVE LInv'
  <1> DEFINE l == arg[r].live
  <1>1. /\ Update(r, "setLive", "drain", "LIVE")
        /\ stream' = IF Exists(l) THEN [stream EXCEPT ![l] = arg[r].stream] ELSE stream
        /\ UNCHANGED <<recording, simulated, streams, recordings, pending, raced, faulted>>
    BY DEF SetLive, provider, history
  <1>2. /\ ControlOK' /\ Others(r) /\ pc[r] = "setLive" /\ pc'[r] \in {"idle", "drain"} /\ l \in Live
        /\ status' \in [Live -> LiveStatus \cup {"absent", "deleted"}]
        /\ status' = IF Exists(l) THEN [status EXCEPT ![l] = "LIVE"] ELSE status
    BY <1>1, UpdateFacts DEF Operating, LiveStatus
  <1>3. /\ DataOK /\ TypeOK /\ StreamsOK /\ MediaOfSession
        /\ arg[r].stream # 0 /\ arg[r].stream \in 0 .. Len(streams) /\ streams[arg[r].stream] = l
    BY <1>2, Parts, StreamType DEF Known
  <1>4. DataOK' /\ Grows
    BY <1>1, <1>2, <1>3 DEF DataOK, Grows, Recording
  <1>5. (StreamsOK /\ MediaOfSession)'
    BY <1>1, <1>2, <1>3 DEF StreamsOK, MediaOfSession, DataOK
  <1>6. Known(r)'
    BY <1>2 DEF Known, Operating
  <1>7. Alone'
    BY <1>1, <1>2, UpdateAlone DEF Operating
  <1> QED
    BY <1>2, <1>4, <1>5, <1>6, <1>7, Assemble

\* The writes of a status alone: the session keeps its stream and recording.
LEMMA StatusInv ==
  ASSUME LInv, NEW r \in Req, NEW from \in {"setFinished", "setCanceled", "delete"},
         NEW to \in {"idle", "drain"}, NEW new \in {"FINISHED", "CANCELED", "deleted"},
         new = "FINISHED" <=> from = "setFinished",
         Update(r, from, to, new), UNCHANGED <<stream, recording, provider, history>>
  PROVE LInv'
  <1> DEFINE l == arg[r].live
  <1>1. UNCHANGED <<stream, recording, simulated, streams, recordings, pending, raced, faulted>>
    BY DEF provider, history
  <1>2. /\ ControlOK' /\ Others(r) /\ pc[r] = from /\ pc'[r] \in {"idle", "drain"} /\ l \in Live
        /\ status' \in [Live -> LiveStatus \cup {"absent", "deleted"}]
        /\ status' = IF Exists(l) THEN [status EXCEPT ![l] = new] ELSE status
    BY <1>1, UpdateFacts DEF Operating, LiveStatus
  <1>3. DataOK /\ TypeOK /\ StreamsOK /\ MediaOfSession /\ (from = "setFinished" => stream[l] # 0)
    BY <1>2, Parts DEF Known
  <1>4. DataOK' /\ Grows
    BY <1>1, <1>2, <1>3, GrowsWhenUnchanged DEF DataOK, Recording
  <1>5. (StreamsOK /\ MediaOfSession)'
    BY <1>1, <1>2, <1>3 DEF StreamsOK, MediaOfSession, DataOK
  <1>6. Known(r)'
    BY <1>2 DEF Known, Operating
  <1>7. Alone'
    BY <1>1, <1>2, UpdateAlone DEF Operating
  <1> QED
    BY <1>2, <1>4, <1>5, <1>6, <1>7, Assemble

\* The provider records a stream once, unless operations on its session overlap
\* or one is repeated after it failed half-way.
LEMMA EndLiveStreamAlone ==
  ASSUME LInv, NEW r \in Req, Others(r), pc[r] = "endStream", pc'[r] = "setFinished",
         arg'[r] = arg[r], recordings' = Append(recordings, arg[r].stream),
         UNCHANGED <<status, streams, raced, faulted>>
  PROVE Alone'
  <1>0. PICK l, n : l = arg[r].live /\ n = Len(recordings) + 1
    OBVIOUS
  <1>1. /\ TypeOK /\ Exclusive /\ RecordedOnce /\ \A q \in Req : Checked(q)
        /\ l \in Live /\ arg[r].stream \in 1 .. Len(streams) /\ streams[arg[r].stream] = l
    BY <1>0, Parts, StreamType DEF LInv, Alone, Known, Operating
  <1>2. \A q \in Req : arg'[q] = arg[q] /\ (q # r => pc'[q] = pc[q])
    BY DEF Others
  <1>3. Exclusive'
    BY <1>1, <1>2 DEF Exclusive, Operating
  <1>4. ASSUME NEW q \in Req PROVE Checked(q)'
    BY <1>1, <1>2 DEF Checked, Operating, From
  <1>5. /\ Recording' = Recording \cup {n} /\ n \notin Recording
        /\ \A k \in Recording : Of(k)' = Of(k)
        /\ Of(n)' = l
    <2>1. /\ recordings' = Append(recordings, arg[r].stream) /\ recordings \in Seq(1 .. Len(streams))
          /\ Len(recordings) \in Nat
      BY <1>1 DEF TypeOK
    <2>2. /\ Recording' = Recording \cup {n} /\ n \notin Recording
          /\ \A k \in Recording : recordings'[k] = recordings[k]
          /\ recordings'[n] = arg[r].stream
      BY <1>0, <1>1, <2>1 DEF Recording
    <2> QED
      BY <1>1, <2>2 DEF Of
  <1>6. RecordedOnce'
    <2> SUFFICES ASSUME ~faulted PROVE RecordedOnce'
      BY DEF RecordedOnce
    <2>1. \A m : Ending(m) => Ending(m)'
      BY <1>2 DEF Ending
    <2>2. Ending(l)'
      BY <1>0, <1>2 DEF Ending
    <2>3. ASSUME l \notin raced, NEW k \in Recording PROVE Of(k) # l
      <3> SUFFICES ASSUME Of(k) = l PROVE FALSE
        OBVIOUS
      <3>1. status[l] = "LIVE"
        BY <2>3, <1>0, <1>1 DEF Checked, Operating, From
      <3>2. Ending(l)
        BY <2>3, <3>1, <1>1 DEF RecordedOnce
      <3> QED
        BY <3>2, <2>3, <1>0, <1>1 DEF Ending, Exclusive, Operating
    <2>4. ASSUME NEW k \in Recording', Of(k)' \notin raced
          PROVE /\ status[Of(k)'] = "FINISHED" \/ Ending(Of(k))'
                /\ \A j \in Recording' : Of(j)' = Of(k)' => j = k
      <3>1. CASE k = n
        BY <3>1, <2>2, <2>3, <2>4, <1>5
      <3>2. CASE k # n
        <4>1. k \in Recording /\ Of(k)' = Of(k)
          BY <3>2, <1>5
        <4>2. /\ status[Of(k)] = "FINISHED" \/ Ending(Of(k))
              /\ \A j \in Recording : Of(j) = Of(k) => j = k
          BY <4>1, <2>4, <1>1 DEF RecordedOnce
        <4>3. Of(k) # l
          BY <4>1, <2>3, <2>4
        <4> QED
          BY <4>1, <4>2, <4>3, <2>1, <1>5
      <3> QED
        BY <3>1, <3>2
    <2> QED
      BY <2>4 DEF RecordedOnce
  <1> QED
    BY <1>3, <1>4, <1>6 DEF Alone

LEMMA EndLiveStreamInv ==
  ASSUME LInv, NEW r \in Req, EndLiveStream(r)
  PROVE LInv'
  <1> DEFINE n == Len(recordings) + 1
  <1>1. /\ pc[r] = "endStream" /\ pc' = [pc EXCEPT ![r] = "setFinished"]
        /\ recordings' = Append(recordings, arg[r].stream)
        /\ pending' = IF simulated THEN Append(pending, n) ELSE pending
        /\ UNCHANGED <<status, stream, recording, simulated, streams, arg, todo, raced, faulted>>
    BY DEF EndLiveStream, Goto, rows, history
  <1>2. /\ ControlOK /\ DataOK /\ TypeOK /\ Known(r) /\ arg[r].live \in Live
        /\ arg[r].stream \in 1 .. Len(streams)
    BY <1>1, Parts, StreamType DEF Known, Operating
  <1>3. /\ recordings' \in Seq(1 .. Len(streams)) /\ Len(recordings') = n /\ Len(recordings) \in Nat
        /\ \A k \in Recording : recordings'[k] = recordings[k]
        /\ Recording' = Recording \cup {n}
    BY <1>1, <1>2 DEF DataOK, Recording
  <1>4. Grows
    BY <1>1, <1>3 DEF Grows
  <1>5. Others(r) /\ pc'[r] = "setFinished" /\ arg'[r] = arg[r] /\ todo'[r] = todo[r]
    BY <1>1, <1>2 DEF Others, ControlOK
  <1>6. Seq(Recording) \subseteq Seq(Recording')
    BY <1>3, SeqMonotonic
  <1>7. ControlOK'
    BY <1>1, <1>2, <1>6 DEF ControlOK, Control
  <1>8. DataOK'
    <2>1. pending' \in Seq(Recording')
      BY <1>1, <1>2, <1>3, <1>6 DEF DataOK
    <2>2. 0 .. Len(recordings) \subseteq 0 .. Len(recordings')
      BY <1>3
    <2> QED
      BY <1>1, <1>2, <1>3, <2>1, <2>2 DEF DataOK
  <1>9. Known(r)'
    BY <1>1, <1>2, <1>5 DEF Known
  <1>10. Alone'
    BY <1>1, <1>5, EndLiveStreamAlone
  <1>11. (StreamsOK /\ MediaOfSession)'
    BY <1>1, <1>4, RowsKept DEF rows
  <1> QED
    BY <1>4, <1>5, <1>7, <1>8, <1>9, <1>10, <1>11, Assemble

LEMMA DrainInv ==
  ASSUME LInv, NEW r \in Req, Drain(r)
  PROVE LInv'
  <1>1. /\ ControlOK /\ DataOK /\ pc[r] = "drain"
        /\ UNCHANGED <<rows, simulated, streams, recordings, raced, faulted>>
    BY Parts DEF Drain, history
  <1>2. CASE /\ pending # <<>> /\ Goto(r, "drain", "find")
             /\ todo' = [todo EXCEPT ![r] = pending]
             /\ pending' = <<>> /\ UNCHANGED arg
    <2>1. /\ Others(r) /\ pc'[r] = "find" /\ todo'[r] # <<>> /\ ControlOK'
          /\ pending' \in Seq(Recording)
      BY <1>1, <1>2 DEF Goto, Others, ControlOK, DataOK, Control, Recording
    <2>2. Known(r)' /\ Alone'
      BY <1>1, <2>1, AloneKept, GrowsWhenUnchanged DEF Known, Operating, rows
    <2> QED
      BY <1>1, <2>1, <2>2, QuietInv DEF DataOK
  <1>3. CASE pending = <<>> /\ Finish(r) /\ UNCHANGED pending
    <2>1. Others(r) /\ pc'[r] = "idle" /\ ControlOK'
      BY <1>1, <1>3, FinishFacts
    <2>2. Known(r)' /\ Alone'
      BY <1>1, <2>1, AloneKept, GrowsWhenUnchanged DEF Known, Operating, rows
    <2> QED
      BY <1>1, <1>3, <2>1, <2>2, QuietInv DEF DataOK
  <1> QED
    BY <1>2, <1>3 DEF Drain

LEMMA WebhookInv ==
  ASSUME LInv, NEW r \in Req, NEW k \in Recording, Webhook(r, k)
  PROVE LInv'
  <1>1. /\ ControlOK /\ DataOK /\ pc[r] = "idle"
        /\ UNCHANGED <<rows, simulated, streams, recordings, pending, raced, faulted>>
    BY Parts DEF Webhook, Goto, provider, history
  <1>2. Others(r) /\ pc'[r] = "find" /\ todo'[r] # <<>> /\ ControlOK'
    BY <1>1 DEF Webhook, Goto, Others, ControlOK, Control, Recording
  <1>3. Known(r)' /\ Alone'
    BY <1>1, <1>2, AloneKept, GrowsWhenUnchanged DEF Known, Operating, rows
  <1> QED
    BY <1>1, <1>2, <1>3, QuietInv DEF DataOK

\* The session that is found for an event is the one the event is about.
LEMMA FindSessionInv ==
  ASSUME LInv, NEW r \in Req, FindSession(r)
  PROVE LInv'
  <1> DEFINE k == Head(todo[r])
  <1>1. /\ ControlOK /\ DataOK /\ TypeOK /\ StreamsOK /\ Known(r) /\ pc[r] = "find"
        /\ UNCHANGED <<rows, simulated, streams, recordings, pending, raced, faulted>>
    BY Parts DEF FindSession, provider, history
  <1>2. k \in Recording /\ recordings[k] \in 1 .. Len(streams) /\ todo[r] # <<>>
    BY <1>1, StreamType, RecordingType, SeqHead DEF Known
  <1>3. ASSUME NEW l \in Found(recordings[k]), Goto(r, "find", "save"),
               arg' = [arg EXCEPT ![r].live = l], UNCHANGED todo
        PROVE LInv'
    <2>1. l \in Live /\ stream[l] = recordings[k]
      BY <1>3 DEF Found
    <2>2. streams[recordings[k]] = l
      BY <1>1, <1>2, <2>1 DEF StreamsOK
    <2>3. /\ Others(r) /\ pc'[r] = "save" /\ arg'[r].live = l /\ todo'[r] = todo[r]
          /\ ControlOK'
      BY <1>1, <1>3, <2>1 DEF Goto, Others, ControlOK, Control, Recording
    <2>4. Known(r)' /\ Alone'
      BY <1>1, <1>2, <2>1, <2>2, <2>3, AloneKept, GrowsWhenUnchanged DEF Known, Operating, rows
    <2> QED
      BY <1>1, <2>3, <2>4, QuietInv DEF DataOK
  <1>4. CASE Finish(r)
    <2>1. Others(r) /\ pc'[r] = "idle" /\ ControlOK'
      BY <1>1, <1>4, FinishFacts
    <2>2. Known(r)' /\ Alone'
      BY <1>1, <2>1, AloneKept, GrowsWhenUnchanged DEF Known, Operating, rows
    <2> QED
      BY <1>1, <2>1, <2>2, QuietInv DEF DataOK
  <1> QED
    BY <1>3, <1>4 DEF FindSession

\* The loop over the events goes on, or ends.
LEMMA NextEventFacts ==
  ASSUME ControlOK, NEW r \in Req, pc[r] = "save", todo[r] # <<>>, NextEvent(r) \/ Finish(r),
         UNCHANGED <<streams, recordings>>
  PROVE /\ ControlOK' /\ Others(r) /\ pc'[r] \in {"idle", "find"}
        /\ pc'[r] = "find" => todo'[r] # <<>>
  <1>1. CASE Finish(r)
    BY <1>1, FinishFacts
  <1>2. CASE /\ Tail(todo[r]) # <<>> /\ Goto(r, "save", "find")
             /\ todo' = [todo EXCEPT ![r] = Tail(@)] /\ UNCHANGED arg
    <2>1. Tail(todo[r]) \in Seq(Recording)
      BY SeqHead DEF ControlOK
    <2> QED
      BY <1>2, <2>1 DEF ControlOK, Others, Goto, Control, Recording
  <1> QED
    BY <1>1, <1>2 DEF NextEvent

LEMMA SaveRecordingInv ==
  ASSUME LInv, NEW r \in Req, SaveRecording(r)
  PROVE LInv'
  <1> DEFINE l == arg[r].live
             k == Head(todo[r])
  <1>1. /\ ControlOK /\ DataOK /\ TypeOK /\ StreamsOK /\ MediaOfSession /\ Known(r)
        /\ pc[r] = "save"
        /\ UNCHANGED <<status, stream, simulated, streams, recordings, pending, raced, faulted>>
    BY Parts DEF SaveRecording, provider, history
  <1>2. /\ todo[r] # <<>> /\ l \in Live /\ k \in Recording /\ streams[recordings[k]] = l
    BY <1>1, StreamType, SeqHead DEF Known
  <1>3. /\ ControlOK' /\ Others(r) /\ pc'[r] \in {"idle", "find"}
        /\ pc'[r] = "find" => todo'[r] # <<>>
    BY <1>1, <1>2, NextEventFacts DEF SaveRecording
  <1>4. recording' = [recording EXCEPT ![l] = k] \/ recording' = recording
    BY DEF SaveRecording, Saved
  <1>5. Grows
    BY <1>1, GrowsWhenUnchanged
  <1>6. DataOK'
    <2>1. k \in 0 .. Len(recordings)
      BY <1>1, <1>2, StreamType DEF Recording
    <2>2. recording' \in [Live -> 0 .. Len(recordings)]
      BY <1>1, <1>4, <2>1 DEF DataOK
    <2> HIDE DEF k, l
    <2> QED
      BY <1>1, <2>2 DEF DataOK, Recording
  <1>7. (StreamsOK /\ MediaOfSession)'
    BY <1>1, <1>2, <1>4 DEF StreamsOK, MediaOfSession, DataOK
  <1>8. Known(r)'
    BY <1>3 DEF Known, Operating
  <1>9. Alone'
    BY <1>1, <1>3, <1>5, AloneKept DEF Operating
  <1> QED
    BY <1>3, <1>5, <1>6, <1>7, <1>8, <1>9, Assemble

LEMMA FailInv ==
  ASSUME LInv, NEW r \in Req, Fail(r)
  PROVE LInv'
  <1>1. /\ ControlOK /\ DataOK /\ Finish(r) /\ faulted'
        /\ UNCHANGED <<rows, simulated, streams, recordings, pending, raced>>
    BY Parts DEF Fail, provider
  <1>2. Others(r) /\ pc'[r] = "idle" /\ ControlOK'
    BY <1>1, FinishFacts
  <1>3. Known(r)' /\ Alone'
    BY <1>1, <1>2, AloneKept, GrowsWhenUnchanged DEF Known, Operating, rows
  <1> QED
    BY <1>1, <1>2, <1>3, QuietInv DEF DataOK, Fail

LEMMA RestartInv ==
  ASSUME LInv, Restart
  PROVE LInv'
  <1>1. /\ ControlOK /\ DataOK /\ faulted' = TRUE /\ pending' = <<>>
        /\ UNCHANGED <<status, stream, recording, simulated, streams, recordings, raced>>
        /\ UNCHANGED rows
        /\ pc' = [r \in Req |-> "idle"] /\ arg' = [r \in Req |-> NoArg]
        /\ todo' = [r \in Req |-> <<>>]
    BY TypeParts DEF LInv, Restart, rows
  <1>2. NoArg \in [live : Live \cup {None}, stream : 0 .. Len(streams)]
    BY <1>1 DEF NoArg, DataOK
  <1>3. ControlOK' /\ DataOK'
    BY <1>1, <1>2 DEF ControlOK, DataOK, Control, Recording
  <1>4. \A r \in Req : Known(r)'
    BY <1>1 DEF Known, Operating
  <1>5. Alone'
    BY <1>1 DEF Alone, Exclusive, Checked, RecordedOnce, Operating
  <1>6. (StreamsOK /\ MediaOfSession)'
    BY <1>1, GrowsWhenUnchanged, RowsKept
  <1>7. TypeOK'
    BY <1>3 DEF ControlOK, DataOK, TypeOK
  <1> QED
    BY <1>4, <1>5, <1>6, <1>7 DEF LInv

-----------------------------------------------------------------------------
(* Requests that begin.                                                     *)

LEMMA CreateInv ==
  ASSUME LInv, NEW r \in Req, NEW l \in Live, Create(r, l)
  PROVE LInv'
  <1>1. /\ ControlOK /\ DataOK /\ TypeOK /\ StreamsOK /\ MediaOfSession /\ Alone
        /\ \A q \in Req : Known(q)
        /\ status[l] = "absent" /\ status' = [status EXCEPT ![l] = "SCHEDULED"]
        /\ UNCHANGED <<stream, recording, simulated, streams, recordings, pending, pc, arg, todo,
                       raced, faulted>>
    BY TypeParts DEF LInv, Create, provider, request, history
  <1>2. TypeOK'
    BY <1>1 DEF TypeOK, LiveStatus, Recording
  <1>3. (StreamsOK /\ MediaOfSession)' /\ \A q \in Req : Known(q)'
    BY <1>1 DEF StreamsOK, MediaOfSession, Known, DataOK
  <1>4. Alone'
    <2>1. \A m \in Live : status[m] \in LiveStatus => status'[m] = status[m]
      BY <1>1 DEF LiveStatus, DataOK
    <2>2. Exclusive'
      BY <1>1 DEF Alone, Exclusive
    <2>3. ASSUME NEW q \in Req PROVE Checked(q)'
      <3>1. pc[q] \in Operating => arg[q].live \in Live
        BY <1>1 DEF Known
      <3>2. Checked(q)
        BY <1>1 DEF Alone
      <3> QED
        BY <1>1, <2>1, <3>1, <3>2 DEF Checked, From, LiveStatus
    <2>4. RecordedOnce'
      <3>1. \A k \in Recording : Of(k) \in Live /\ Of(k)' = Of(k)
        BY <1>1, RecordingType DEF Of
      <3>2. Recording' = Recording /\ \A m : Ending(m)' <=> Ending(m)
        BY <1>1 DEF Ending, Recording
      <3> QED
        BY <1>1, <2>1, <3>1, <3>2 DEF Alone, RecordedOnce, LiveStatus
    <2> QED
      BY <2>2, <2>3, <2>4 DEF Alone
  <1> QED
    BY <1>2, <1>3, <1>4 DEF LInv

LEMMA BeginInv ==
  ASSUME LInv, NEW r \in Req, NEW l \in Live, NEW to \in Operating \ {"setLive", "setFinished"},
         NEW ref \in 0 .. Len(streams), Begin(r, l, to, ref), status[l] \in From(to),
         to = "endStream" => stream[l] # 0 /\ ref = stream[l]
  PROVE LInv'
  <1>1. /\ ControlOK /\ DataOK /\ TypeOK /\ StreamsOK
        /\ pc[r] = "idle" /\ pc' = [pc EXCEPT ![r] = to]
        /\ arg' = [arg EXCEPT ![r] = [live |-> l, stream |-> ref]]
        /\ raced' = IF OperatingOn(l) # {} THEN raced \cup {l} ELSE raced
        /\ UNCHANGED <<rows, simulated, streams, recordings, pending, todo, faulted>>
    BY Parts DEF Begin, Goto, provider
  <1>2. /\ Others(r) /\ ControlOK' /\ pc'[r] = to
        /\ arg'[r] = [live |-> l, stream |-> ref] /\ todo'[r] = todo[r]
    BY <1>1 DEF Others, ControlOK, Control, Operating, Recording
  <1>3. Known(r)'
    BY <1>1, <1>2 DEF Known, StreamsOK, rows, Operating
  <1>4. Alone'
    BY <1>2, BeginAlone
  <1> QED
    BY <1>1, <1>2, <1>3, <1>4, QuietInv DEF DataOK

LEMMA StartInv ==
  ASSUME LInv, NEW r \in Req, Start(r)
  PROVE LInv'
  <1>1. ASSUME NEW l \in Live, BeginGoLive(r, l) PROVE LInv'
    <2>1. status[l] = "SCHEDULED" /\ 0 \in 0 .. Len(streams)
      BY <1>1, StreamType DEF BeginGoLive, Valid, Exists, LiveStatus, AllowedTransitions, LInv
    <2> QED
      BY <1>1, <2>1, BeginInv DEF BeginGoLive, From, Operating
  <1>2. ASSUME NEW l \in Live, BeginEndLive(r, l) PROVE LInv'
    <2>1. status[l] = "LIVE" /\ stream[l] \in 0 .. Len(streams) /\ stream[l] # 0
      BY <1>2, StreamType DEF BeginEndLive, Valid, Exists, LiveStatus, AllowedTransitions, LInv
    <2> QED
      BY <1>2, <2>1, BeginInv DEF BeginEndLive, From, Operating
  <1>3. ASSUME NEW l \in Live, BeginCancel(r, l) PROVE LInv'
    <2>1. status[l] = "SCHEDULED" /\ 0 \in 0 .. Len(streams)
      BY <1>3, StreamType DEF BeginCancel, Valid, Exists, LiveStatus, AllowedTransitions, LInv
    <2> QED
      BY <1>3, <2>1, BeginInv DEF BeginCancel, From, Operating
  <1>4. ASSUME NEW l \in Live, BeginRemove(r, l) PROVE LInv'
    <2>1. status[l] \in {"SCHEDULED", "CANCELED"} /\ 0 \in 0 .. Len(streams)
      BY <1>4, StreamType DEF BeginRemove, Removable, Exists, LiveStatus, LInv
    <2> QED
      BY <1>4, <2>1, BeginInv DEF BeginRemove, From, Operating
  <1> QED
    BY <1>1, <1>2, <1>3, <1>4, CreateInv, WebhookInv DEF Start

LEMMA StepInv ==
  ASSUME LInv, NEW r \in Req, Step(r)
  PROVE LInv'
  <1>1. CASE SetFinished(r) \/ SetCanceled(r) \/ Delete(r)
    BY <1>1, StatusInv DEF SetFinished, SetCanceled, Delete
  <1> QED
    BY <1>1, CreateLiveStreamInv, SetLiveInv, EndLiveStreamInv, DrainInv, FindSessionInv,
       SaveRecordingInv DEF Step

-----------------------------------------------------------------------------
(* The theorems.                                                            *)

LEMMA InitInv == Init => LInv
  <1> SUFFICES ASSUME Init PROVE LInv
    OBVIOUS
  <1>1. Len(streams) = 0 /\ Len(recordings) = 0 /\ Recording = {}
    BY DEF Init, Recording
  <1>2. TypeOK
    <2>1. /\ streams \in Seq(Live) /\ recordings \in Seq(1 .. Len(streams))
          /\ pending \in Seq(Recording) /\ todo \in [Req -> Seq(Recording)]
      BY DEF Init
    <2>2. /\ stream \in [Live -> 0 .. Len(streams)]
          /\ recording \in [Live -> 0 .. Len(recordings)]
      BY <1>1 DEF Init
    <2>3. arg \in [Req -> [live : Live \cup {None}, stream : 0 .. Len(streams)]]
      BY <1>1 DEF Init, NoArg
    <2>4. /\ simulated \in BOOLEAN /\ status \in [Live -> LiveStatus \cup {"absent", "deleted"}]
          /\ pc \in [Req -> Control] /\ raced \subseteq Live /\ faulted \in BOOLEAN
      BY DEF Init, Control
    <2> QED
      BY <2>1, <2>2, <2>3, <2>4 DEF TypeOK
  <1>3. StreamsOK /\ MediaOfSession
    BY DEF Init, StreamsOK, MediaOfSession
  <1>4. (\A r \in Req : Known(r)) /\ Alone
    BY <1>1 DEF Init, Known, Alone, Exclusive, RecordedOnce, Checked, Operating
  <1> QED
    BY <1>2, <1>3, <1>4 DEF LInv

LEMMA NextInv == LInv /\ [Next]_vars => LInv'
  <1>1. ASSUME LInv, UNCHANGED vars PROVE LInv'
    BY <1>1 DEF vars, rows, provider, request, history, LInv, TypeOK, StreamsOK, MediaOfSession,
                Known, Alone, Exclusive, RecordedOnce, Ending, Of, Checked, Recording
  <1> QED
    BY <1>1, StartInv, StepInv, FailInv, RestartInv DEF Next

THEOREM Invariant == Spec => []LInv
  BY InitInv, NextInv, PTL DEF Spec

\* The rows, the provider and the requests in flight keep their types: no request
\* of LiveSessionsService keeps the reference of a stream or a recording that the
\* provider did not make.
THEOREM TypeCorrect == Spec => []TypeOK
  <1>1. LInv => TypeOK
    BY DEF LInv
  <1> QED
    BY <1>1, Invariant, PTL

\* Whatever overlaps, fails or restarts, a session on air or finished has its
\* stream (setLive writes both in one update, and endLive and cancel read the
\* stream first), and processRecordingWebhook files a recording only under the
\* session that was recorded.
THEOREM MediaCorrect == Spec => []MediaOfSession
  <1>1. LInv => MediaOfSession
    BY DEF LInv
  <1> QED
    BY <1>1, Invariant, PTL

\* An operation that has a session to itself finds the status it has checked, so
\* its update by id is a transition of the table; no other step writes a status.
LEMMA StatusStep ==
  ASSUME LInv, [Next]_vars, NEW l \in Live \ raced, status'[l] # status[l]
  PROVE <<status[l], status'[l]>> \in Lifecycle
  <1>1. /\ \A q \in Req : Known(q) /\ Checked(q)
        /\ status \in [Live -> LiveStatus \cup {"absent", "deleted"}]
    BY DEF LInv, Alone, TypeOK
  <1>2. PICK r \in Req : Start(r) \/ Step(r)
    BY DEF Next, Restart, Fail, vars, rows
  <1>3. ASSUME NEW m \in Live, Create(r, m) PROVE <<status[l], status'[l]>> \in Lifecycle
    BY <1>1, <1>3 DEF Create, Lifecycle
  <1>4. ASSUME NEW from \in Operating, NEW to, NEW new, Update(r, from, to, new),
               \A s \in From(from) : <<s, new>> \in Lifecycle
        PROVE <<status[l], status'[l]>> \in Lifecycle
    <2>1. /\ pc[r] = from /\ arg[r].live = l /\ status'[l] = new
      BY <1>1, <1>4 DEF Update, Known
    <2> QED
      BY <1>1, <1>4, <2>1 DEF Checked
  <1>5. CASE SetLive(r)
    BY <1>4, <1>5 DEF SetLive, From, Lifecycle, Operating
  <1>6. CASE SetFinished(r)
    BY <1>4, <1>6 DEF SetFinished, From, Lifecycle, Operating
  <1>7. CASE SetCanceled(r)
    BY <1>4, <1>7 DEF SetCanceled, From, Lifecycle, Operating
  <1>8. CASE Delete(r)
    BY <1>4, <1>8 DEF Delete, From, Lifecycle, Operating
  <1>9. Start(r) => \E m \in Live : Create(r, m)
    BY DEF Start, BeginGoLive, BeginEndLive, BeginCancel, BeginRemove, Begin, Webhook, rows
  <1>10. ~CreateLiveStream(r) /\ ~EndLiveStream(r) /\ ~Drain(r) /\ ~FindSession(r)
         /\ ~SaveRecording(r)
    BY DEF CreateLiveStream, EndLiveStream, Drain, FindSession, SaveRecording, rows
  <1> QED
    BY <1>2, <1>3, <1>5, <1>6, <1>7, <1>8, <1>9, <1>10 DEF Step

\* Only overlapping operations on one session take it off the life cycle of
\* ALLOWED_TRANSITIONS; failures, restarts and other sessions never do.
THEOREM LifecycleKept == Spec => KeepsLifecycle
  <1>1. LInv /\ [Next]_vars =>
          [\A l \in Live \ raced :
             status'[l] # status[l] => <<status[l], status'[l]>> \in Lifecycle]_vars
    BY StatusStep
  <1> QED
    BY <1>1, Invariant, PTL DEF Spec, KeepsLifecycle

\* A recording is saved where there is none, or over itself: the session has only
\* one, as endLive alone makes one and finds it live once.
LEMMA RecordingStep ==
  ASSUME LInv, [Next]_vars, NEW l \in Live \ raced, recording[l] # 0, ~faulted
  PROVE recording'[l] = recording[l]
  <1>1. /\ TypeOK /\ MediaOfSession /\ RecordedOnce /\ \A q \in Req : Known(q)
    BY DEF LInv, Alone
  <1>2. recording[l] \in Recording /\ Of(recording[l]) = l
    BY <1>1, StreamType DEF Recording, MediaOfSession, Of
  <1>3. CASE \E r \in Req : SaveRecording(r)
    <2>1. PICK r \in Req : SaveRecording(r)
      BY <1>3
    <2> DEFINE k == Head(todo[r])
    <2>2. k \in Recording /\ Of(k) = arg[r].live /\ arg[r].live \in Live
      BY <1>1, <2>1, StreamType, SeqHead DEF Known, SaveRecording, Of
    <2>3. arg[r].live = l => k = recording[l]
      BY <1>1, <1>2, <2>2 DEF RecordedOnce
    <2> QED
      BY <1>1, <2>1, <2>2, <2>3 DEF SaveRecording, Saved, TypeOK
  <1>4. CASE ~\E r \in Req : SaveRecording(r)
    BY <1>4 DEF Next, Start, Step, Fail, Restart, Create, BeginGoLive, BeginEndLive, BeginCancel,
                BeginRemove, Begin, Webhook, CreateLiveStream, SetLive, EndLiveStream, SetFinished,
                SetCanceled, Delete, Drain, FindSession, rows, vars
  <1> QED
    BY <1>3, <1>4

\* A recording is not replaced by another, however often the provider announces
\* it and in whatever order, unless operations on the session overlapped or one
\* was repeated after it failed half-way.
THEOREM RecordingIsKept == Spec => RecordingKept
  <1>1. LInv /\ [Next]_vars =>
          [\A l \in Live \ raced :
             recording[l] # 0 /\ ~faulted => recording'[l] = recording[l]]_vars
    BY RecordingStep
  <1> QED
    BY <1>1, Invariant, PTL DEF Spec, RecordingKept
=============================================================================
