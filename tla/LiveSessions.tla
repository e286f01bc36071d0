---------------------------- MODULE LiveSessions ----------------------------
(***************************************************************************)
(* Live classes of apps/api: LiveSessionsService, the transition table and *)
(* the live provider.                                                      *)
(*                                                                         *)
(* As in Subscriptions, r \in Req is an HTTP request in flight, pc[r] the  *)
(* statement it waits at, and every await may let another request run:     *)
(*                                                                         *)
(*   goLive     createStream -> setLive -> drain                           *)
(*   endLive    endStream -> setFinished -> drain                          *)
(*   cancel     setCanceled                                                *)
(*   remove     delete                                                     *)
(*   webhook    find -> save, for each event of todo                       *)
(*                                                                         *)
(* Each operation reads the session and checks its status first, and       *)
(* writes later, by id, whatever the status is by then.                    *)
(*                                                                         *)
(* A stream (streamRef) is known by its position in streams, a recording   *)
(* (recordingRef) by its position in recordings; 0 is null.                *)
(***************************************************************************)
EXTENDS Integers, Sequences, FiniteSets

CONSTANTS
  Live, Req, None,   \* live sessions, request slots, null
  MayFail,           \* an awaited call may reject, and the process restart
  MaxStreams,        \* bound: streams ever created
  MaxRecordings      \* bound: recordings ever made

ASSUME LiveAssumption ==
  /\ None \notin Live /\ MayFail \in BOOLEAN
  /\ MaxStreams \in Nat /\ MaxRecordings \in Nat

VARIABLES
  simulated,    \* LIVE_PROVIDER: the provider implements drainSimulatedEvents
  status,       \* live_sessions.status, "absent" before and "deleted" after
  stream,       \* live_sessions.stream_ref
  recording,    \* live_sessions.recording_ref
  streams,      \* the provider's streams, each with the session it is for
  recordings,   \* the provider's recordings, each with its stream
  pending,      \* FakeLiveProvider.pending (in memory)
  pc, arg, todo,\* control state, locals and remaining events of a request
  raced,        \* history: sessions on which two operations overlapped
  faulted       \* history: a request failed half-way

rows     == <<status, stream, recording>>
provider == <<simulated, streams, recordings, pending>>
request  == <<pc, arg, todo>>
history  == <<raced, faulted>>
vars     == <<rows, provider, request, history>>

-----------------------------------------------------------------------------
LiveStatus == {"SCHEDULED", "LIVE", "FINISHED", "CANCELED"}
NoArg == [live |-> None, stream |-> 0]
Control == {"idle", "createStream", "setLive", "endStream", "setFinished", "setCanceled",
            "delete", "drain", "find", "save"}

\* An operation that has read its session and not yet written it.
Operating == {"createStream", "setLive", "endStream", "setFinished", "setCanceled", "delete"}
OperatingOn(l) == {r \in Req : pc[r] \in Operating /\ arg[r].live = l}

Exists(l) == status[l] \in LiveStatus
Recording == 1 .. Len(recordings)

\* The rows, what the provider knows, and the requests in flight.
TypeOK ==
  /\ simulated \in BOOLEAN
  /\ status \in [Live -> LiveStatus \cup {"absent", "deleted"}]
  /\ streams \in Seq(Live) /\ recordings \in Seq(1 .. Len(streams))
  /\ stream \in [Live -> 0 .. Len(streams)]
  /\ recording \in [Live -> 0 .. Len(recordings)]
  /\ pending \in Seq(Recording)
  /\ pc \in [Req -> Control]
  /\ arg \in [Req -> [live : Live \cup {None}, stream : 0 .. Len(streams)]]
  /\ todo \in [Req -> Seq(Recording)]
  /\ raced \subseteq Live /\ faulted \in BOOLEAN

Init ==
  /\ simulated \in BOOLEAN
  /\ status = [l \in Live |-> "absent"]
  /\ stream = [l \in Live |-> 0] /\ recording = [l \in Live |-> 0]
  /\ streams = <<>> /\ recordings = <<>> /\ pending = <<>>
  /\ pc = [r \in Req |-> "idle"]
  /\ arg = [r \in Req |-> NoArg]
  /\ todo = [r \in Req |-> <<>>]
  /\ raced = {} /\ faulted = FALSE

-----------------------------------------------------------------------------
(* Control of one request.                                                  *)

Goto(r, from, to) == pc[r] = from /\ pc' = [pc EXCEPT ![r] = to]

\* An operation on session l begins; others on it may be in flight.
Begin(r, l, to, ref) ==
  /\ Goto(r, "idle", to)
  /\ arg' = [arg EXCEPT ![r] = [live |-> l, stream |-> ref]]
  /\ raced' = IF OperatingOn(l) # {} THEN raced \cup {l} ELSE raced
  /\ UNCHANGED <<rows, provider, todo, faulted>>

Finish(r) ==
  /\ pc' = [pc EXCEPT ![r] = "idle"]
  /\ arg' = [arg EXCEPT ![r] = NoArg]
  /\ todo' = [todo EXCEPT ![r] = <<>>]

\* An update by id of the row that was read; it rejects when the row is gone.
Update(r, from, to, new) ==
  LET l == arg[r].live IN
  /\ pc[r] = from
  /\ \/ /\ Exists(l)
        /\ status' = [status EXCEPT ![l] = new]
        /\ IF to = "idle" THEN Finish(r) ELSE Goto(r, from, to) /\ UNCHANGED <<arg, todo>>
     \/ ~Exists(l) /\ Finish(r) /\ UNCHANGED status

-----------------------------------------------------------------------------
\* Faulty variant: a session that ended may be ended again.
FaultyAllowedTransitions ==
  [SCHEDULED |-> {"LIVE", "CANCELED"}, LIVE |-> {"FINISHED"}, FINISHED |-> {"FINISHED"},
   CANCELED |-> {}]
AllowedTransitions ==
  [SCHEDULED |-> {"LIVE", "CANCELED"}, LIVE |-> {"FINISHED"}, FINISHED |-> {}, CANCELED |-> {}]

Valid(l, to) == Exists(l) /\ to \in AllowedTransitions[status[l]]

Create(r, l) ==
  /\ pc[r] = "idle" /\ status[l] = "absent"
  /\ status' = [status EXCEPT ![l] = "SCHEDULED"]
  /\ UNCHANGED <<stream, recording, provider, request, history>>

(* POST /live-sessions/:id/go-live                                          *)

\* Room is kept for the streams that the requests in flight have yet to create.
BeginGoLive(r, l) ==
  /\ Valid(l, "LIVE")
  /\ Len(streams) + Cardinality({q \in Req : pc[q] = "createStream"}) < MaxStreams
  /\ Begin(r, l, "createStream", 0)

CreateLiveStream(r) ==
  /\ Goto(r, "createStream", "setLive")
  /\ streams' = Append(streams, arg[r].live)
  /\ arg' = [arg EXCEPT ![r].stream = Len(streams) + 1]
  /\ UNCHANGED <<rows, simulated, recordings, pending, todo, history>>

SetLive(r) ==
  LET l == arg[r].live IN
  /\ Update(r, "setLive", "drain", "LIVE")
  /\ stream' = IF Exists(l) THEN [stream EXCEPT ![l] = arg[r].stream] ELSE stream
  /\ UNCHANGED <<recording, provider, history>>

(* POST /live-sessions/:id/end                                              *)

BeginEndLive(r, l) ==
  /\ Valid(l, "FINISHED") /\ stream[l] # 0
  /\ Len(recordings) + Cardinality({q \in Req : pc[q] = "endStream"}) < MaxRecordings
  /\ Begin(r, l, "endStream", stream[l])

\* The provider makes a recording and announces it: in memory, or later by HTTP.
EndLiveStream(r) ==
  LET k == Len(recordings) + 1 IN
  /\ Goto(r, "endStream", "setFinished")
  /\ recordings' = Append(recordings, arg[r].stream)
  /\ pending' = IF simulated THEN Append(pending, k) ELSE pending
  /\ UNCHANGED <<rows, simulated, streams, arg, todo, history>>

\* Faulty variant: the session ends without draining the provider.
FaultySetFinished(r) ==
  /\ Update(r, "setFinished", "idle", "FINISHED")
  /\ UNCHANGED <<stream, recording, provider, history>>

SetFinished(r) ==
  /\ Update(r, "setFinished", "drain", "FINISHED")
  /\ UNCHANGED <<stream, recording, provider, history>>

(* POST /live-sessions/:id/cancel, DELETE /live-sessions/:id                *)

BeginCancel(r, l) == Valid(l, "CANCELED") /\ Begin(r, l, "setCanceled", 0)

SetCanceled(r) ==
  /\ Update(r, "setCanceled", "idle", "CANCELED")
  /\ UNCHANGED <<stream, recording, provider, history>>

\* Faulty variant: a session that ended may be removed.
FaultyRemovable(l) == Exists(l) /\ status[l] # "LIVE"
Removable(l) == Exists(l) /\ status[l] \notin {"LIVE", "FINISHED"}

BeginRemove(r, l) == Removable(l) /\ Begin(r, l, "delete", 0)

Delete(r) ==
  /\ Update(r, "delete", "idle", "deleted")
  /\ UNCHANGED <<stream, recording, provider, history>>

-----------------------------------------------------------------------------
(* drainSimulatedEvents and processRecordingWebhook                         *)

Drain(r) ==
  /\ pc[r] = "drain"
  /\ \/ /\ pending # <<>>
        /\ Goto(r, "drain", "find")
        /\ todo' = [todo EXCEPT ![r] = pending]
        /\ pending' = <<>>
        /\ UNCHANGED arg
     \/ pending = <<>> /\ Finish(r) /\ UNCHANGED pending
  /\ UNCHANGED <<rows, simulated, streams, recordings, history>>

\* POST /live-sessions/webhook/:provider, any number of times.
Webhook(r, k) ==
  /\ ~simulated
  /\ Goto(r, "idle", "find")
  /\ todo' = [todo EXCEPT ![r] = <<k>>]
  /\ UNCHANGED <<rows, provider, arg, history>>

\* Faulty variant: the session that just ended is taken for the one recorded.
FaultyFound(s) == {l \in Live : status[l] = "FINISHED"}
Found(s) == {l \in Live : Exists(l) /\ stream[l] = s}

\* Without a session for the stream the request fails, and with it the events
\* behind this one.
FindSession(r) ==
  LET found == Found(recordings[Head(todo[r])]) IN
  /\ pc[r] = "find"
  /\ \/ \E l \in found :
          Goto(r, "find", "save") /\ arg' = [arg EXCEPT ![r].live = l] /\ UNCHANGED todo
     \/ found = {} /\ Finish(r)
  /\ UNCHANGED <<rows, provider, history>>

NextEvent(r) ==
  \/ /\ Tail(todo[r]) # <<>>
     /\ Goto(r, "save", "find")
     /\ todo' = [todo EXCEPT ![r] = Tail(@)]
     /\ UNCHANGED arg
  \/ Tail(todo[r]) = <<>> /\ Finish(r)

\* Faulty variant: the wrong reference of the event is stored.
FaultySaved(k) == recordings[k]
Saved(k) == k

SaveRecording(r) ==
  LET l == arg[r].live IN
  /\ pc[r] = "save"
  /\ \/ /\ Exists(l)
        /\ recording' = [recording EXCEPT ![l] = Saved(Head(todo[r]))]
        /\ NextEvent(r)
     \/ ~Exists(l) /\ Finish(r) /\ UNCHANGED recording
  /\ UNCHANGED <<status, stream, provider, history>>

-----------------------------------------------------------------------------
Fail(r) ==
  /\ MayFail /\ pc[r] # "idle"
  /\ Finish(r)
  /\ faulted' = TRUE
  /\ UNCHANGED <<rows, provider, raced>>

\* Only the database and the provider survive a restart.
Restart ==
  /\ MayFail
  /\ pending' = <<>>
  /\ pc' = [r \in Req |-> "idle"]
  /\ arg' = [r \in Req |-> NoArg]
  /\ todo' = [r \in Req |-> <<>>]
  /\ faulted' = TRUE
  /\ UNCHANGED <<rows, simulated, streams, recordings, raced>>

Start(r) ==
  \/ \E l \in Live : Create(r, l) \/ BeginGoLive(r, l) \/ BeginEndLive(r, l)
                     \/ BeginCancel(r, l) \/ BeginRemove(r, l)
  \/ \E k \in Recording : Webhook(r, k)

\* A step of a request that has begun.
Step(r) ==
  \/ CreateLiveStream(r) \/ SetLive(r) \/ EndLiveStream(r) \/ SetFinished(r)
  \/ SetCanceled(r) \/ Delete(r) \/ Drain(r) \/ FindSession(r) \/ SaveRecording(r)

Next == (\E r \in Req : Start(r) \/ Step(r) \/ Fail(r)) \/ Restart

Spec == Init /\ [][Next]_vars

\* The event loop resumes every request whose awaited call has returned.
FairSpec == Spec /\ \A r \in Req : WF_vars(Step(r))

-----------------------------------------------------------------------------
(* Properties                                                               *)

\* The life of a session: from scheduled to live to finished, or canceled, or
\* removed before it went live.
Lifecycle ==
  {<<"absent", "SCHEDULED">>, <<"SCHEDULED", "LIVE">>, <<"LIVE", "FINISHED">>,
   <<"SCHEDULED", "CANCELED">>, <<"SCHEDULED", "deleted">>, <<"CANCELED", "deleted">>}

\* Only overlapping operations on one session take it off its life cycle; what
\* happens to other sessions, failures and restarts never do.
KeepsLifecycle ==
  [][\A l \in Live \ raced : status'[l] # status[l] => <<status[l], status'[l]>> \in Lifecycle]_vars

\* No interleaving finishes a session that never went on air, nor leaves one on
\* air without a stream to play; and a recording is only ever shown under the
\* session that was recorded.
MediaOfSession ==
  \A l \in Live :
    /\ status[l] \in {"LIVE", "FINISHED"} => stream[l] # 0
    /\ recording[l] # 0 => streams[recordings[recording[l]]] = l

\* The recording of a session is not replaced by another one, however often it
\* is announced, unless operations on the session overlapped or one was repeated
\* after it failed half-way.
RecordingKept ==
  [][\A l \in Live \ raced :
       recording[l] # 0 /\ ~faulted => recording'[l] = recording[l]]_vars

\* With the simulated provider a session that finished gets its recording,
\* unless a request failed half-way or operations overlapped.
RecordingLinked ==
  \A l \in Live :
    simulated /\ status[l] = "FINISHED" ~> recording[l] # 0 \/ raced # {} \/ faulted
=============================================================================
