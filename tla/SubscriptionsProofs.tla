------------------------ MODULE SubscriptionsProofs ------------------------
(***************************************************************************)
(* For every number of students, plans, requests, events and faults: the   *)
(* types, one handler per event, the provenance of every status, and that  *)
(* Subscriptions implements ConfirmedSubscriptions; then that what the log *)
(* of webhook events says is true, that a canceled subscription is not     *)
(* revived, and that one checkout at a time never makes what an earlier    *)
(* one made already.                                                       *)
(***************************************************************************)
EXTENDS Subscriptions, FiniteSetTheorems, SequenceTheorems, TLAPS

-----------------------------------------------------------------------------
(* The inductive invariant.                                                 *)

\* What the gateway announces: a change of status names the status.
EventsOK ==
  \A e \in Emitted :
    /\ emitted[e].type \notin InvoiceTypes => emitted[e].status # None
    /\ emitted[e].type = "invoice.payment_failed" => emitted[e].status = "PAST_DUE"

PendingOK == \A i \in DOMAIN pending : pending[i] \in Emitted

StoredOK == \A s \in Sub : Present(s) => s \in Emitted

\* An event that has taken effect was recorded before.
Recorded == \A e \in settled : e \in Emitted /\ record[e] # "none"

\* What each statement may rely on about the request's own locals.
RequestOK(r) ==
  /\ \A i \in DOMAIN todo[r] : todo[r][i] \in Emitted
  /\ pc[r] = "insertRow" => arg[r].sub \in Emitted /\ ~Present(arg[r].sub)
  /\ pc[r] = "cancelSubscription" => arg[r].sub \in Sub
  /\ pc[r] \in Applying \cup {"record"} => todo[r] # <<>>
  /\ pc[r] \in Applying => record[Head(todo[r])] = "RECEIVED"
  /\ pc[r] \in {"apply", "invoice", "pastDue"} => Head(todo[r]) \notin settled
  /\ pc[r] \in {"invoice", "pastDue"} => Present(Current(r).sub)
  /\ pc[r] = "pastDue" => Current(r).type = "invoice.payment_failed"

\* Two requests never insert the same row nor apply the same event.
Apart(r, q) ==
  r # q =>
    /\ pc[r] = "insertRow" /\ pc[q] = "insertRow" => arg[r].sub # arg[q].sub
    /\ pc[r] \in Applying /\ pc[q] \in Applying => Head(todo[r]) # Head(todo[q])

RequestsOK ==
  /\ \A r \in Req : RequestOK(r)
  /\ \A r, q \in Req : Apart(r, q)

IInv ==
  /\ TypeOK /\ EventsOK /\ PendingOK /\ StoredOK /\ Recorded
  /\ RequestsOK /\ StatusFromEvents

-----------------------------------------------------------------------------
(* What a step of request r may do to the others' facts.                    *)

Others(r) ==
  \A q \in Req : q # r => pc'[q] = pc[q] /\ arg'[q] = arg[q] /\ todo'[q] = todo[q]

Grows == /\ Emitted \subseteq Emitted'
         /\ \A e \in Emitted : emitted'[e] = emitted[e]

Frame(r) ==
  /\ Others(r) /\ Grows
  /\ \A s \in Sub : Present(s) => Present(s)'
  /\ \A s \in Sub : Present(s)' => Present(s) \/ (pc[r] = "insertRow" /\ s = arg[r].sub)
  /\ \A e \in EventId : record[e] = "RECEIVED" =>
       record'[e] = "RECEIVED" \/ (pc[r] \in Applying /\ e = Head(todo[r]))
  /\ \A e \in settled' : e \in settled \/ (pc[r] \in Applying /\ e = Head(todo[r]))
  /\ pc'[r] = "insertRow" => arg'[r].sub \notin Emitted
  /\ pc'[r] \in Applying =>
       \/ pc[r] \in Applying /\ todo'[r] = todo[r]
       \/ todo'[r] # <<>> /\ record[Head(todo'[r])] = "none"

LEMMA SeqHead ==
  ASSUME NEW S, NEW s \in Seq(S), s # <<>>
  PROVE /\ Head(s) = s[1] /\ 1 \in DOMAIN s /\ Head(s) \in S
        /\ Tail(s) \in Seq(S)
        /\ \A i \in DOMAIN Tail(s) : i + 1 \in DOMAIN s /\ Tail(s)[i] = s[i + 1]
  OBVIOUS

LEMMA EmittedType ==
  ASSUME DataTypeOK, NEW e \in Emitted
  PROVE /\ e \in EventId /\ emitted[e] \in Event /\ emitted[e].sub \in Sub
        /\ emitted[e].inv \in Invoice \cup {0}
        /\ emitted[e].status \in Status \cup {None}
  <1>1. e \in EventId
    BY SubscriptionsAssumption DEF DataTypeOK, Emitted, EventId
  <1>2. emitted[e] \in Event
    BY DEF DataTypeOK, Emitted
  <1> QED
    BY <1>1, <1>2 DEF Event

\* The event at the head of a request's queue has been announced.
LEMMA HeadOK ==
  ASSUME TypeOK, NEW r \in Req, RequestOK(r), todo[r] # <<>>
  PROVE Head(todo[r]) \in Emitted /\ Head(todo[r]) \in EventId
  <1>1. todo[r] \in Seq(EventId)
    BY DEF TypeOK, RequestTypeOK
  <1>2. QED
    BY <1>1, SeqHead DEF RequestOK

LEMMA FrameKeeps ==
  ASSUME IInv, NEW r \in Req, Frame(r), NEW q \in Req, q # r
  PROVE RequestOK(q)'
  <1>1. pc'[q] = pc[q] /\ arg'[q] = arg[q] /\ todo'[q] = todo[q]
    BY DEF Frame, Others
  <1>2. RequestOK(q) /\ RequestOK(r) /\ Apart(r, q) /\ TypeOK
    BY DEF IInv, RequestsOK
  <1>3. Emitted \subseteq Emitted' /\ \A e \in Emitted : emitted'[e] = emitted[e]
    BY DEF Frame, Grows
  <1>4. \A i \in DOMAIN todo'[q] : todo'[q][i] \in Emitted'
    BY <1>1, <1>2, <1>3 DEF RequestOK
  <1>5. pc'[q] = "insertRow" => arg'[q].sub \in Emitted' /\ ~Present(arg[q].sub)'
    <2> SUFFICES ASSUME pc'[q] = "insertRow"
                 PROVE arg'[q].sub \in Emitted' /\ ~Present(arg[q].sub)'
      OBVIOUS
    <2>1. arg[q].sub \in Emitted /\ ~Present(arg[q].sub)
      BY <1>1, <1>2 DEF RequestOK
    <2>2. arg[q].sub \in Sub
      BY <2>1, <1>2, EmittedType DEF TypeOK, Sub
    <2>3. ~Present(arg[q].sub)'
      BY <1>1, <1>2, <2>1, <2>2 DEF Frame, Apart
    <2> QED
      BY <1>1, <1>3, <2>1, <2>3 DEF Present
  <1>6. pc'[q] = "cancelSubscription" => arg'[q].sub \in Sub
    BY <1>1, <1>2 DEF RequestOK
  <1>7. pc'[q] \in Applying \cup {"record"} => todo'[q] # <<>>
    BY <1>1, <1>2 DEF RequestOK
  <1>8. pc'[q] \in Applying =>
          Head(todo[q]) \in Emitted /\ Head(todo[q]) \in EventId
    BY <1>1, <1>2, <1>7, HeadOK
  <1>9. pc'[q] \in Applying => record'[Head(todo'[q])] = "RECEIVED"
    BY <1>1, <1>2, <1>8 DEF RequestOK, Frame, Apart
  <1>10. pc'[q] \in {"apply", "invoice", "pastDue"} => Head(todo'[q]) \notin settled'
    BY <1>1, <1>2 DEF RequestOK, Frame, Apart, Applying
  <1>11. pc'[q] \in {"invoice", "pastDue"} => Present(Current(q).sub)'
    <2> SUFFICES ASSUME pc'[q] \in {"invoice", "pastDue"}
                 PROVE Present(Current(q).sub)'
      OBVIOUS
    <2>1. Head(todo[q]) \in Emitted /\ Current(q)' = Current(q)
      BY <1>1, <1>3, <1>8 DEF Current, Applying
    <2>2. Current(q).sub \in Sub /\ Present(Current(q).sub)
      BY <1>1, <1>2, <2>1, EmittedType DEF RequestOK, Current, TypeOK
    <2> QED
      BY <2>1, <2>2 DEF Frame, Present
  <1>12. pc'[q] = "pastDue" => Current(q)'.type = "invoice.payment_failed"
    BY <1>1, <1>2, <1>3, <1>8 DEF RequestOK, Current, Applying
  <1> QED
    BY <1>4, <1>5, <1>6, <1>7, <1>9, <1>10, <1>11, <1>12 DEF RequestOK, Present

LEMMA FrameApart ==
  ASSUME IInv, NEW r \in Req, Frame(r)
  PROVE \A p, q \in Req : Apart(p, q)'
  <1> SUFFICES ASSUME NEW q \in Req, q # r
               PROVE Apart(r, q)' /\ Apart(q, r)'
    BY DEF IInv, RequestsOK, Frame, Others, Apart
  <1>1. pc'[q] = pc[q] /\ arg'[q] = arg[q] /\ todo'[q] = todo[q]
    BY DEF Frame, Others
  <1>2. RequestOK(q) /\ Apart(r, q)
    BY DEF IInv, RequestsOK
  <1>3. pc'[r] = "insertRow" /\ pc'[q] = "insertRow" => arg'[r].sub # arg'[q].sub
    BY <1>1, <1>2 DEF Frame, RequestOK
  <1>4. pc'[r] \in Applying /\ pc'[q] \in Applying => Head(todo'[r]) # Head(todo'[q])
    BY <1>1, <1>2 DEF Frame, RequestOK, Apart
  <1> QED
    BY <1>3, <1>4 DEF Apart

\* A step of r keeps the facts about requests once it keeps those about r.
LEMMA FrameOK ==
  ASSUME IInv, NEW r \in Req, Frame(r), RequestOK(r)'
  PROVE RequestsOK'
  BY FrameKeeps, FrameApart DEF RequestsOK

-----------------------------------------------------------------------------
(* The control helpers.                                                     *)

LEMMA GotoFacts ==
  ASSUME RequestTypeOK, NEW r \in Req, NEW from, NEW to \in Control, Goto(r, from, to),
         UNCHANGED <<arg, todo>>
  PROVE /\ RequestTypeOK' /\ Others(r)
        /\ pc[r] = from /\ pc'[r] = to /\ arg'[r] = arg[r] /\ todo'[r] = todo[r]
  BY DEF RequestTypeOK, Goto, Others

LEMMA FinishFacts ==
  ASSUME RequestTypeOK, NEW r \in Req, Finish(r)
  PROVE /\ RequestTypeOK' /\ Others(r)
        /\ pc'[r] = "idle" /\ todo'[r] = <<>>
  BY DEF RequestTypeOK, Finish, Others, NoArg, Control

LEMMA NextEventFacts ==
  ASSUME RequestTypeOK, NEW r \in Req, NextEvent(r), todo[r] # <<>>, RequestOK(r)
  PROVE /\ RequestTypeOK' /\ Others(r)
        /\ pc'[r] \in {"idle", "record"}
        /\ pc'[r] = "record" => todo'[r] # <<>>
        /\ \A i \in DOMAIN todo'[r] : todo'[r][i] \in Emitted
  <1>1. todo[r] \in Seq(EventId)
    BY DEF RequestTypeOK
  <1>2. CASE Tail(todo[r]) = <<>> /\ Finish(r)
    BY <1>2, FinishFacts
  <1>3. CASE /\ Tail(todo[r]) # <<>>
             /\ pc' = [pc EXCEPT ![r] = "record"]
             /\ todo' = [todo EXCEPT ![r] = Tail(@)]
             /\ UNCHANGED arg
    <2>1. todo'[r] = Tail(todo[r]) /\ pc'[r] = "record"
      BY <1>3 DEF RequestTypeOK
    <2>2. RequestTypeOK' /\ Others(r)
      BY <1>1, <1>3, SeqHead DEF RequestTypeOK, Others, Control
    <2>3. \A i \in DOMAIN todo'[r] : todo'[r][i] \in Emitted
      BY <1>1, <2>1, SeqHead DEF RequestOK
    <2> QED
      BY <1>3, <2>1, <2>2, <2>3
  <1> QED
    BY <1>2, <1>3 DEF NextEvent

\* A request that has ended relies on nothing.
LEMMA EndedOK ==
  ASSUME NEW r \in Req, pc'[r] = "idle", todo'[r] = <<>>
  PROVE RequestOK(r)'
  BY DEF RequestOK, Applying

\* Steps that only move the request that takes them.
LEMMA QuietFrame ==
  ASSUME IInv, NEW r \in Req, Others(r), UNCHANGED <<row, record, emitted, settled>>,
         pc'[r] # "insertRow",
         pc'[r] \in Applying => pc[r] \in Applying /\ todo'[r] = todo[r]
  PROVE Frame(r)
  <1>1. Grows
    BY DEF Grows, Emitted
  <1>2. \A s \in Sub : Present(s)' <=> Present(s)
    BY DEF Present
  <1> QED
    BY <1>1, <1>2 DEF Frame

LEMMA QuietFacts ==
  ASSUME IInv, UNCHANGED <<row, record, emitted, settled>>
  PROVE (EventsOK /\ StoredOK /\ Recorded /\ StatusFromEvents)'
  BY DEF IInv, EventsOK, StoredOK, Recorded, StatusFromEvents, Emitted, Present

-----------------------------------------------------------------------------
(* One lemma per action, those that write no status or event first.         *)

LEMMA CheckExistingInv ==
  ASSUME IInv, NEW r \in Req, CheckExisting(r)
  PROVE IInv'
  <1>0. /\ TypeOK /\ DataTypeOK /\ RequestTypeOK /\ RequestOK(r) /\ PendingOK
        /\ UNCHANGED <<row, record, emitted, settled, pending>>
    BY DEF IInv, TypeOK, RequestsOK, CheckExisting, database, gateway
  <1>1. DataTypeOK'
    BY <1>0 DEF DataTypeOK, handled, CheckExisting, database, gateway
  <1>2. /\ RequestTypeOK' /\ Others(r)
        /\ \/ pc'[r] = "idle" /\ todo'[r] = <<>>
           \/ pc'[r] = "user" /\ todo'[r] = todo[r]
    BY <1>0, GotoFacts, FinishFacts DEF CheckExisting, Control, BeforeEmission
  <1>3. RequestOK(r)'
    BY <1>0, <1>2 DEF RequestOK, Applying, Emitted
  <1> QED
    BY <1>0, <1>1, <1>2, <1>3, QuietFrame, QuietFacts, FrameOK
    DEF IInv, TypeOK, PendingOK, Emitted, Applying, BeforeEmission

LEMMA ReadUserInv ==
  ASSUME IInv, NEW r \in Req, ReadUser(r)
  PROVE IInv'
  <1>0. /\ TypeOK /\ DataTypeOK /\ RequestTypeOK /\ RequestOK(r) /\ PendingOK
        /\ UNCHANGED <<row, record, emitted, settled, pending>>
    BY DEF IInv, TypeOK, RequestsOK, ReadUser, database, gateway
  <1>1. DataTypeOK'
    <2>1. nCustomer' \in [User -> Nat]
      BY <1>0 DEF DataTypeOK, ReadUser
    <2> QED
      BY <1>0, <2>1 DEF DataTypeOK, handled, ReadUser, database
  <1>2. /\ RequestTypeOK' /\ Others(r)
        /\ pc[r] = "user" /\ pc'[r] \in {"saveCustomer", "createSubscription"}
        /\ arg'[r] = arg[r] /\ todo'[r] = todo[r]
    BY <1>0, GotoFacts DEF ReadUser, Control, BeforeEmission, Applying
  <1>3. RequestOK(r)'
    BY <1>0, <1>2 DEF RequestOK, Applying, Emitted, Present, Current, BeforeEmission
  <1> QED
    BY <1>0, <1>1, <1>2, <1>3, QuietFrame, QuietFacts, FrameOK
    DEF IInv, TypeOK, PendingOK, Emitted, Applying, BeforeEmission

LEMMA SaveCustomerInv ==
  ASSUME IInv, NEW r \in Req, SaveCustomer(r)
  PROVE IInv'
  <1>0. /\ TypeOK /\ DataTypeOK /\ RequestTypeOK /\ RequestOK(r) /\ PendingOK
        /\ UNCHANGED <<row, record, emitted, settled, pending>>
    BY DEF IInv, TypeOK, RequestsOK, SaveCustomer, database, gateway
  <1>1. DataTypeOK'
    BY <1>0 DEF DataTypeOK, handled, SaveCustomer, database, gateway
  <1>2. /\ RequestTypeOK' /\ Others(r)
        /\ pc[r] = "saveCustomer" /\ pc'[r] \in {"createSubscription"}
        /\ arg'[r] = arg[r] /\ todo'[r] = todo[r]
    BY <1>0, GotoFacts DEF SaveCustomer, Control, BeforeEmission, Applying
  <1>3. RequestOK(r)'
    BY <1>0, <1>2 DEF RequestOK, Applying, Emitted, Present, Current, BeforeEmission
  <1> QED
    BY <1>0, <1>1, <1>2, <1>3, QuietFrame, QuietFacts, FrameOK
    DEF IInv, TypeOK, PendingOK, Emitted, Applying, BeforeEmission

LEMMA FindSubscriptionInv ==
  ASSUME IInv, NEW r \in Req, FindSubscription(r)
  PROVE IInv'
  <1>0. /\ TypeOK /\ DataTypeOK /\ RequestTypeOK /\ RequestOK(r) /\ PendingOK
        /\ UNCHANGED <<row, record, emitted, settled, pending>>
    BY DEF IInv, TypeOK, RequestsOK, FindSubscription, database, gateway
  <1>1. DataTypeOK'
    BY <1>0 DEF DataTypeOK, handled, FindSubscription, database, gateway
  <1>2. /\ RequestTypeOK' /\ Others(r)
        /\ pc[r] = "apply" /\ pc'[r] \in {"invoice"}
        /\ arg'[r] = arg[r] /\ todo'[r] = todo[r]
    BY <1>0, GotoFacts DEF FindSubscription, Control, BeforeEmission, Applying
  <1>3. RequestOK(r)'
    BY <1>0, <1>2 DEF RequestOK, Applying, Emitted, Present, Current, BeforeEmission, FindSubscription
  <1> QED
    BY <1>0, <1>1, <1>2, <1>3, QuietFrame, QuietFacts, FrameOK
    DEF IInv, TypeOK, PendingOK, Emitted, Applying, BeforeEmission

LEMMA ApplyFailsInv ==
  ASSUME IInv, NEW r \in Req, ApplyFails(r)
  PROVE IInv'
  <1>0. /\ TypeOK /\ DataTypeOK /\ RequestTypeOK /\ RequestOK(r) /\ PendingOK
        /\ UNCHANGED <<row, record, emitted, settled, pending>>
    BY DEF IInv, TypeOK, RequestsOK, ApplyFails, database, gateway
  <1>1. DataTypeOK'
    BY <1>0 DEF DataTypeOK, handled, ApplyFails, database, gateway
  <1>2. /\ RequestTypeOK' /\ Others(r)
        /\ pc[r] = "apply" /\ pc'[r] \in {"failed"}
        /\ arg'[r] = arg[r] /\ todo'[r] = todo[r]
    BY <1>0, GotoFacts DEF ApplyFails, Control, BeforeEmission, Applying
  <1>3. RequestOK(r)'
    BY <1>0, <1>2 DEF RequestOK, Applying, Emitted, Present, Current, BeforeEmission
  <1> QED
    BY <1>0, <1>1, <1>2, <1>3, QuietFrame, QuietFacts, FrameOK
    DEF IInv, TypeOK, PendingOK, Emitted, Applying, BeforeEmission

LEMMA UpsertInvoiceInv ==
  ASSUME IInv, NEW r \in Req, UpsertInvoice(r)
  PROVE IInv'
  <1>0. /\ TypeOK /\ DataTypeOK /\ RequestTypeOK /\ RequestOK(r) /\ PendingOK
        /\ UNCHANGED <<row, record, emitted, settled, pending>>
    BY DEF IInv, TypeOK, RequestsOK, UpsertInvoice, database, gateway
  <1>1. DataTypeOK'
    <2>1. Head(todo[r]) \in EventId
      BY <1>0, HeadOK DEF UpsertInvoice, Goto, RequestOK, Applying
    <2> QED
      BY <1>0, <2>1 DEF DataTypeOK, UpsertInvoice, InvoiceStatus, gateway
  <1>2. /\ RequestTypeOK' /\ Others(r)
        /\ pc[r] = "invoice" /\ pc'[r] = AfterInvoice(Current(r))
        /\ arg'[r] = arg[r] /\ todo'[r] = todo[r]
    <2>1. AfterInvoice(Current(r)) \in Control
      BY DEF AfterInvoice, Control, Applying
    <2> QED
      BY <1>0, <2>1, GotoFacts DEF UpsertInvoice
  <1>3. RequestOK(r)' /\ pc'[r] \in {"pastDue", "processed"}
    BY <1>0, <1>2 DEF RequestOK, AfterInvoice, Applying, Emitted, Present, Current
  <1> QED
    BY <1>0, <1>1, <1>2, <1>3, QuietFrame, QuietFacts, FrameOK
    DEF IInv, TypeOK, PendingOK, Emitted, Applying, BeforeEmission

LEMMA DeletePlanInv ==
  ASSUME IInv, NEW r \in Req, DeletePlan(r)
  PROVE IInv'
  <1>0. /\ TypeOK /\ DataTypeOK /\ RequestTypeOK /\ RequestOK(r) /\ PendingOK
        /\ UNCHANGED <<row, record, emitted, settled, pending>>
    BY DEF IInv, TypeOK, RequestsOK, DeletePlan, database, gateway
  <1>1. DataTypeOK'
    BY <1>0 DEF DataTypeOK, handled, DeletePlan, gateway
  <1>2. RequestTypeOK' /\ Others(r) /\ pc'[r] = "idle" /\ todo'[r] = <<>>
    BY <1>0, FinishFacts DEF DeletePlan
  <1>3. RequestOK(r)'
    BY <1>2, EndedOK
  <1> QED
    BY <1>0, <1>1, <1>2, <1>3, QuietFrame, QuietFacts, FrameOK
    DEF IInv, TypeOK, PendingOK, Emitted, Applying, BeforeEmission

-----------------------------------------------------------------------------
(* Announcing events.                                                       *)

LEMMA EmitFacts ==
  ASSUME DataTypeOK, PendingOK, NEW events \in Seq(Event), events # <<>>, Emit(events)
  PROVE /\ emitted' \in Seq(Event) /\ pending' \in Seq(EventId)
        /\ Len(emitted') = Len(emitted) + Len(events) /\ Len(emitted') <= MaxEvents
        /\ Grows /\ PendingOK'
        /\ Len(emitted) + 1 \in Emitted' /\ Len(emitted) + 1 \notin Emitted
        /\ \A e \in Emitted' : e \in Emitted \/
             \E i \in 1 .. Len(events) : e = Len(emitted) + i /\ emitted'[e] = events[i]
  <1> DEFINE ids == [i \in 1 .. Len(events) |-> Len(emitted) + i]
  <1>1. /\ emitted \in Seq(Event) /\ pending \in Seq(EventId)
        /\ Len(emitted) \in Nat /\ Len(events) \in Nat /\ Len(events) > 0
    BY DEF DataTypeOK
  <1>2. /\ emitted' = emitted \o events /\ Len(emitted) + Len(events) <= MaxEvents
        /\ pending' = IF Simulated THEN pending \o ids ELSE pending
    BY DEF Emit
  <1>3. /\ emitted' \in Seq(Event) /\ Len(emitted') = Len(emitted) + Len(events)
        /\ \A e \in 1 .. Len(emitted) : emitted'[e] = emitted[e]
        /\ \A i \in 1 .. Len(events) : emitted'[Len(emitted) + i] = events[i]
    BY <1>1, <1>2
  <1>4. \A e \in Emitted' : e \in Emitted \/
          \E i \in 1 .. Len(events) : e = Len(emitted) + i
    <2> SUFFICES ASSUME NEW e \in Emitted', e \notin Emitted
                 PROVE \E i \in 1 .. Len(events) : e = Len(emitted) + i
      OBVIOUS
    <2>1. e - Len(emitted) \in 1 .. Len(events) /\ e = Len(emitted) + (e - Len(emitted))
      BY <1>1, <1>3 DEF Emitted
    <2> QED
      BY <2>1
  <1>5. Emitted \subseteq Emitted' /\ Len(emitted) + 1 \in Emitted' /\ Len(emitted) + 1 \notin Emitted
    BY <1>1, <1>3 DEF Emitted
  <1>6. pending' \in Seq(EventId) /\ PendingOK'
    <2>1. ids \in Seq(EventId) /\ Len(ids) = Len(events)
      BY <1>1, <1>2, SubscriptionsAssumption DEF EventId
    <2>2. \A i \in 1 .. Len(ids) : ids[i] \in Emitted'
      BY <1>1, <1>3, <2>1 DEF Emitted
    <2>3. CASE Simulated
      <3> HIDE DEF ids
      <3>1. pending' = pending \o ids
        BY <1>2, <2>3
      <3>2. /\ pending' \in Seq(EventId) /\ Len(pending') = Len(pending) + Len(ids)
            /\ \A i \in 1 .. Len(pending') :
                 pending'[i] = IF i <= Len(pending) THEN pending[i] ELSE ids[i - Len(pending)]
        <4>1. /\ pending \o ids \in Seq(EventId)
              /\ Len(pending \o ids) = Len(pending) + Len(ids)
              /\ \A i \in 1 .. Len(pending) + Len(ids) : (pending \o ids)[i] =
                   IF i <= Len(pending) THEN pending[i] ELSE ids[i - Len(pending)]
          BY <1>1, <2>1, ConcatProperties
        <4> QED
          BY <3>1, <4>1, Zenon
      <3>3. \A i \in 1 .. Len(pending) : pending[i] \in Emitted'
        BY <1>1, <1>5 DEF PendingOK
      <3>4. \A i \in 1 .. Len(pending') : pending'[i] \in Emitted'
        <4> TAKE i \in 1 .. Len(pending')
        <4>1. CASE i <= Len(pending)
          BY <1>1, <3>2, <3>3, <4>1
        <4>2. CASE ~(i <= Len(pending))
          <5>1. i - Len(pending) \in 1 .. Len(ids)
            BY <1>1, <2>1, <3>2, <4>2
          <5> QED
            BY <2>2, <3>2, <4>2, <5>1
        <4> QED
          BY <4>1, <4>2
      <3> QED
        BY <3>2, <3>4 DEF PendingOK
    <2>4. CASE ~Simulated
      BY <1>1, <1>2, <1>5, <2>4 DEF PendingOK
    <2> QED
      BY <2>3, <2>4
  <1> QED
    BY <1>2, <1>3, <1>4, <1>5, <1>6, SubscriptionsAssumption DEF Grows, Emitted

\* Announcing events disturbs nothing that is stored.
LEMMA EmitKeeps ==
  ASSUME IInv, Grows, UNCHANGED <<row, record, settled>>
  PROVE (StoredOK /\ Recorded /\ StatusFromEvents)'
  <1>1. StoredOK' /\ Recorded'
    BY DEF IInv, Grows, StoredOK, Recorded, Present
  <1>2. StatusFromEvents'
    BY DEF IInv, Grows, StatusFromEvents, Recorded
  <1> QED
    BY <1>1, <1>2

LEMMA CreateSubscriptionInv ==
  ASSUME IInv, NEW r \in Req, CreateSubscription(r)
  PROVE IInv' /\ Grows /\ Len(emitted') > Len(emitted)
  <1> DEFINE events == Announced(arg[r].plan)
  <1>0. /\ TypeOK /\ DataTypeOK /\ RequestTypeOK /\ RequestOK(r) /\ PendingOK /\ EventsOK
        /\ StoredOK
        /\ UNCHANGED <<planStatus, customer, row, invoice, record, nCustomer, todo, settled, handled, faults>>
        /\ Emit(events) /\ arg' = [arg EXCEPT ![r].sub = Len(emitted) + 1]
        /\ Goto(r, "createSubscription", "insertRow")
    BY DEF IInv, TypeOK, RequestsOK, CreateSubscription, database, gateway
  <1>1. Len(emitted) \in Nat /\ MaxEvents \in Nat /\ Simulated \in BOOLEAN
    BY <1>0, SubscriptionsAssumption DEF DataTypeOK
  <1>2. events # <<>> /\ Len(events) \in 1 .. 2
    BY DEF Announced
  <1>3. Len(emitted) + Len(events) <= MaxEvents
    BY <1>0 DEF Emit
  <1> DEFINE n == Len(emitted)
  <1>4. n + 1 \in Sub /\ (Len(events) = 2 => n + 2 \in Sub)
    <2> DEFINE k == Len(events)
    <2> HIDE DEF events, n
    <2>1. n \in Nat /\ k \in 1 .. 2 /\ n + k <= MaxEvents
      BY <1>1, <1>2, <1>3 DEF n
    <2> HIDE DEF k
    <2>2. n + 1 \in 1 .. MaxEvents /\ (k = 2 => n + 2 \in 1 .. MaxEvents)
      BY <1>1, <2>1
    <2> QED
      BY <2>2 DEF Sub, EventId, k
  <1>5. events \in Seq(Event)
    <2>1. \A st \in Active :
            [type |-> "subscription.updated", sub |-> n + 1, inv |-> 0,
             http |-> ~Simulated, status |-> st] \in Event
      BY <1>1, <1>4 DEF Event, Status, OpenStatuses, InvoiceTypes
    <2>2. n + 2 \in Sub =>
            [type |-> "invoice.paid", sub |-> n + 1, inv |-> (n + 1) + 1,
             http |-> ~Simulated, status |-> None] \in Event
      <3>1. (n + 1) + 1 = n + 2
        BY <1>1
      <3> QED
        BY <1>1, <1>4, <3>1 DEF Event, InvoiceTypes, Invoice, Sub
    <2>3. CASE arg[r].plan \in Trial
      BY <2>1, <2>3 DEF Announced, Active
    <2>4. CASE arg[r].plan \notin Trial
      <3>1. Len(events) = 2
        BY <2>4 DEF Announced
      <3>2. n + 2 \in Sub
        BY <1>4, <3>1
      <3> QED
        BY <2>1, <2>2, <2>4, <3>2 DEF Announced, Active
    <2> QED
      BY <2>3, <2>4
  <1>6. \A i \in 1 .. Len(events) :
          events[i].type # "invoice.payment_failed" /\
          (events[i].type \notin InvoiceTypes => events[i].status # None)
    BY SubscriptionsAssumption DEF Announced, InvoiceTypes
  <1> HIDE DEF events
  <1>7. /\ emitted' \in Seq(Event) /\ pending' \in Seq(EventId)
        /\ Len(emitted') <= MaxEvents
        /\ Grows /\ PendingOK' /\ Len(emitted') = Len(emitted) + Len(events)
        /\ Len(emitted) + 1 \in Emitted' /\ Len(emitted) + 1 \notin Emitted
        /\ \A e \in Emitted' : e \in Emitted \/
             \E i \in 1 .. Len(events) : e = Len(emitted) + i /\ emitted'[e] = events[i]
    BY <1>0, <1>2, <1>5, EmitFacts
  <1>8. TypeOK'
    <2>1. DataTypeOK'
      BY <1>0, <1>7 DEF DataTypeOK, handled
    <2>2. RequestTypeOK'
      BY <1>0, <1>4 DEF RequestTypeOK, Goto, Control
    <2> QED
      BY <2>1, <2>2 DEF TypeOK
  <1>9. EventsOK'
    BY <1>0, <1>6, <1>7 DEF EventsOK, Grows
  <1>10. Others(r) /\ pc'[r] = "insertRow" /\ arg'[r].sub = Len(emitted) + 1 /\ todo'[r] = todo[r]
    BY <1>0 DEF RequestTypeOK, Goto, Others
  <1>11. Frame(r)
    BY <1>0, <1>7, <1>10 DEF Frame, Present, Applying
  <1>12. RequestOK(r)'
    BY <1>0, <1>4, <1>7, <1>10 DEF RequestOK, Applying, Grows, StoredOK, Present
  <1>13. Len(emitted') > Len(emitted)
    BY <1>1, <1>2, <1>7
  <1> QED
    BY <1>0, <1>7, <1>8, <1>9, <1>11, <1>12, <1>13, EmitKeeps, FrameOK DEF IInv

LEMMA CancelSubscriptionInv ==
  ASSUME IInv, NEW r \in Req, CancelSubscription(r)
  PROVE IInv' /\ Grows /\ Len(emitted') > Len(emitted)
  <1> DEFINE event == [type |-> "subscription.canceled", sub |-> arg[r].sub, inv |-> 0,
                       http |-> ~Simulated, status |-> "CANCELED"]
  <1>0. /\ TypeOK /\ DataTypeOK /\ RequestTypeOK /\ RequestOK(r) /\ PendingOK /\ EventsOK
        /\ UNCHANGED <<planStatus, customer, row, invoice, record, nCustomer, arg, todo, settled, handled, faults>>
        /\ Emit(<<event>>) /\ Goto(r, "cancelSubscription", "drain")
    BY DEF IInv, TypeOK, RequestsOK, CancelSubscription, database, gateway
  <1>1. event \in Event
    BY <1>0, SubscriptionsAssumption
    DEF RequestOK, Goto, Event, Status, OpenStatuses, Invoice
  <1>2. <<event>> \in Seq(Event) /\ <<event>> # <<>> /\ Len(<<event>>) = 1 /\ <<event>>[1] = event
    BY <1>1
  <1>3. event.type = "subscription.canceled" /\ event.status # None
    BY SubscriptionsAssumption
  <1> HIDE DEF event
  <1>4. /\ emitted' \in Seq(Event) /\ pending' \in Seq(EventId)
        /\ Len(emitted') <= MaxEvents
        /\ Grows /\ PendingOK' /\ Len(emitted') = Len(emitted) + Len(<<event>>)
        /\ \A e \in Emitted' : e \in Emitted \/
             \E i \in 1 .. Len(<<event>>) : e = Len(emitted) + i /\ emitted'[e] = <<event>>[i]
    BY <1>0, <1>2, EmitFacts
  <1>5. TypeOK' /\ Others(r) /\ pc'[r] = "drain" /\ todo'[r] = todo[r]
    <2>1. DataTypeOK'
      BY <1>0, <1>4 DEF DataTypeOK, handled
    <2>2. RequestTypeOK' /\ Others(r) /\ pc'[r] = "drain" /\ todo'[r] = todo[r]
      BY <1>0, GotoFacts DEF Control
    <2> QED
      BY <2>1, <2>2 DEF TypeOK
  <1>6. EventsOK'
    BY <1>0, <1>2, <1>3, <1>4 DEF EventsOK, Grows
  <1>7. Frame(r)
    BY <1>0, <1>4, <1>5 DEF Frame, Present, Applying
  <1>8. RequestOK(r)'
    BY <1>0, <1>4, <1>5 DEF RequestOK, Applying, Grows
  <1>9. Len(emitted') > Len(emitted)
    BY <1>0, <1>2, <1>4 DEF DataTypeOK
  <1> QED
    BY <1>0, <1>4, <1>5, <1>6, <1>7, <1>8, <1>9, EmitKeeps, FrameOK DEF IInv

\* The order of creation is a number: there are finitely many rows.
LEMMA RowsCount ==
  ASSUME TypeOK
  PROVE Cardinality(Rows) + 1 \in Nat
  <1>1. IsFiniteSet(Sub)
    BY SubscriptionsAssumption, FS_Interval DEF Sub, EventId
  <1>2. IsFiniteSet(Rows)
    BY <1>1, FS_Subset DEF Rows
  <1> QED
    BY <1>2, FS_CardinalityType

LEMMA InsertRowInv ==
  ASSUME IInv, NEW r \in Req, InsertRow(r)
  PROVE IInv'
  <1> DEFINE s == arg[r].sub
             new == [status |-> InitialStatus, user |-> arg[r].user, plan |-> arg[r].plan,
                     period |-> "none", at |-> Cardinality(Rows) + 1]
  <1>0. /\ TypeOK /\ DataTypeOK /\ RequestTypeOK /\ RequestOK(r)
        /\ EventsOK /\ PendingOK /\ StoredOK /\ Recorded /\ StatusFromEvents
        /\ UNCHANGED <<planStatus, customer, invoice, record, nCustomer, emitted, pending,
                       settled, handled, faults>>
        /\ pc[r] = "insertRow"
        /\ \/ Finish(r) /\ UNCHANGED row
           \/ /\ Goto(r, "insertRow", "drain") /\ UNCHANGED <<arg, todo>>
              /\ row' = [row EXCEPT ![s] = new]
    BY DEF IInv, TypeOK, RequestsOK, InsertRow, gateway
  <1>1. s \in Emitted /\ s \in Sub /\ ~Present(s)
    BY <1>0, EmittedType DEF RequestOK, Sub
  <1>2. new \in Row /\ new.status = "INCOMPLETE"
    <2>1. arg[r].user \in User \cup {None} /\ arg[r].plan \in Plan \cup {None}
      BY <1>0 DEF RequestTypeOK
    <2>2. Cardinality(Rows) + 1 \in Nat
      BY <1>0, RowsCount
    <2> QED
      BY <2>1, <2>2 DEF Row, InitialStatus, Status
  <1> HIDE DEF new
  <1>3. /\ RequestTypeOK' /\ Others(r)
        /\ \/ pc'[r] = "idle" /\ todo'[r] = <<>>
           \/ pc'[r] = "drain" /\ todo'[r] = todo[r]
    BY <1>0, GotoFacts, FinishFacts DEF Control
  <1>4. row' \in [Sub -> Row] /\ \A t \in Sub : row'[t] = row[t] \/ (t = s /\ row'[t] = new)
    BY <1>0, <1>1, <1>2 DEF DataTypeOK
  <1>5. TypeOK'
    BY <1>0, <1>3, <1>4 DEF TypeOK, DataTypeOK, handled
  <1>6. \A t \in Sub : (Present(t) => Present(t)') /\ (Present(t)' => Present(t) \/ t = s)
    BY <1>1, <1>2, <1>4 DEF Present
  <1>7. (EventsOK /\ PendingOK /\ StoredOK /\ Recorded)'
    BY <1>0, <1>1, <1>6 DEF EventsOK, PendingOK, StoredOK, Recorded, Emitted
  <1>8. StatusFromEvents'
    BY <1>0, <1>2, <1>4 DEF StatusFromEvents
  <1>9. Frame(r)
    BY <1>0, <1>3, <1>6 DEF Frame, Grows, Emitted, Applying
  <1>10. RequestOK(r)'
    BY <1>0, <1>3 DEF RequestOK, Applying, Emitted
  <1> QED
    BY <1>5, <1>7, <1>8, <1>9, <1>10, FrameOK DEF IInv

LEMMA DrainInv ==
  ASSUME IInv, NEW r \in Req, Drain(r)
  PROVE IInv'
  <1>0. /\ TypeOK /\ DataTypeOK /\ RequestTypeOK /\ RequestOK(r) /\ PendingOK
        /\ UNCHANGED <<planStatus, customer, row, invoice, record, nCustomer, emitted,
                       settled, handled, faults>>
        /\ \/ /\ pending # <<>> /\ Goto(r, "drain", "record") /\ UNCHANGED arg
              /\ todo' = [todo EXCEPT ![r] = pending] /\ pending' = <<>>
           \/ Finish(r) /\ UNCHANGED pending
    BY DEF IInv, TypeOK, RequestsOK, Drain, Taken, Left, database
  <1>1. DataTypeOK' /\ PendingOK'
    <2>1. pending' \in Seq(EventId) /\ (pending' = pending \/ pending' = <<>>)
      <3>1. pending \in Seq(EventId) /\ <<>> \in Seq(EventId)
        BY <1>0, EmptySeq DEF DataTypeOK
      <3>2. pending' = pending \/ pending' = <<>>
        BY <1>0, Zenon
      <3> QED
        BY <3>1, <3>2
    <2>2. DataTypeOK'
      BY <1>0, <2>1 DEF DataTypeOK, handled
    <2>3. PendingOK'
      BY <1>0, <2>1 DEF PendingOK, Emitted
    <2> QED
      BY <2>2, <2>3
  <1>2. /\ RequestTypeOK' /\ Others(r)
        /\ \/ pc'[r] = "idle" /\ todo'[r] = <<>>
           \/ pc'[r] = "record" /\ todo'[r] = pending /\ pending # <<>>
    <2>1. CASE Finish(r)
      BY <1>0, <2>1, FinishFacts
    <2>2. CASE /\ pending # <<>> /\ Goto(r, "drain", "record") /\ UNCHANGED arg
               /\ todo' = [todo EXCEPT ![r] = pending]
      BY <1>0, <2>2 DEF DataTypeOK, RequestTypeOK, Goto, Others, Control
    <2> QED
      BY <1>0, <2>1, <2>2
  <1>3. RequestOK(r)'
    BY <1>0, <1>2 DEF RequestOK, Applying, Emitted, PendingOK
  <1> QED
    BY <1>0, <1>1, <1>2, <1>3, QuietFrame, QuietFacts, FrameOK DEF IInv, TypeOK, Applying

LEMMA RecordEventInv ==
  ASSUME IInv, NEW r \in Req, RecordEvent(r)
  PROVE IInv'
  <1> DEFINE e == Head(todo[r])
  <1>0. /\ TypeOK /\ DataTypeOK /\ RequestTypeOK /\ RequestOK(r)
        /\ EventsOK /\ PendingOK /\ StoredOK /\ Recorded /\ StatusFromEvents
        /\ UNCHANGED <<planStatus, customer, row, invoice, nCustomer, emitted, pending,
                       settled, handled, faults>>
        /\ pc[r] = "record" /\ todo[r] # <<>>
    BY DEF IInv, TypeOK, RequestsOK, RecordEvent, gateway, RequestOK
  <1>1. e \in Emitted /\ e \in EventId
    BY <1>0, HeadOK
  <1>2. CASE NextEvent(r) /\ UNCHANGED record
    <2>1. /\ RequestTypeOK' /\ Others(r) /\ pc'[r] \in {"idle", "record"}
          /\ pc'[r] = "record" => todo'[r] # <<>>
          /\ \A i \in DOMAIN todo'[r] : todo'[r][i] \in Emitted
      BY <1>0, <1>2, NextEventFacts
    <2>2. DataTypeOK'
      BY <1>0, <1>2 DEF DataTypeOK, handled
    <2>3. RequestOK(r)'
      BY <1>0, <2>1 DEF RequestOK, Applying, Emitted
    <2> QED
      BY <1>0, <1>2, <2>1, <2>2, <2>3, QuietFrame, QuietFacts, FrameOK
      DEF IInv, TypeOK, PendingOK, Emitted, Applying
  <1>3. CASE /\ ~Duplicate(e) /\ Goto(r, "record", "apply") /\ UNCHANGED <<arg, todo>>
             /\ record' = [record EXCEPT ![e] = "RECEIVED"]
    <2>1. /\ RequestTypeOK' /\ Others(r) /\ pc'[r] = "apply" /\ todo'[r] = todo[r]
      BY <1>0, <1>3, GotoFacts DEF Control, Applying
    <2>2. /\ record' \in [EventId -> {"none", "RECEIVED", "PROCESSED", "FAILED"}]
          /\ record[e] = "none" /\ record'[e] = "RECEIVED"
          /\ \A f \in EventId : f # e => record'[f] = record[f]
      BY <1>0, <1>1, <1>3 DEF DataTypeOK, Duplicate
    <2>3. TypeOK'
      BY <1>0, <2>1, <2>2 DEF TypeOK, DataTypeOK, handled
    <2>4. e \notin settled
      BY <1>0, <2>2 DEF Recorded
    <2>5. (EventsOK /\ PendingOK /\ StoredOK /\ StatusFromEvents)'
      BY <1>0 DEF EventsOK, PendingOK, StoredOK, StatusFromEvents, Emitted, Present
    <2>6. Recorded'
      BY <1>0, <2>2, EmittedType DEF Recorded, Emitted
    <2>7. Frame(r)
      BY <1>0, <2>1, <2>2 DEF Frame, Grows, Emitted, Present
    <2>8. RequestOK(r)'
      BY <1>0, <2>1, <2>2, <2>4 DEF RequestOK, Emitted
    <2> QED
      BY <2>3, <2>5, <2>6, <2>7, <2>8, FrameOK DEF IInv
  <1> QED
    BY <1>2, <1>3 DEF RecordEvent

\* A write of a status is that of the event being applied.
LEMMA WriteFacts ==
  ASSUME IInv, NEW r \in Req, NEW new \in Row, WriteStatus(r, new),
         pc[r] \in {"apply", "pastDue"}, Present(Current(r).sub),
         new.status = Current(r).status, new.status # None,
         Goto(r, pc[r], "processed"),
         UNCHANGED <<planStatus, customer, invoice, record, gateway, arg, todo, handled, faults>>
  PROVE IInv'
  <1> DEFINE e == Head(todo[r])
             s == Current(r).sub
  <1>0. /\ TypeOK /\ DataTypeOK /\ RequestTypeOK /\ RequestOK(r)
        /\ EventsOK /\ PendingOK /\ StoredOK /\ Recorded /\ StatusFromEvents
        /\ UNCHANGED <<emitted, pending, nCustomer>> /\ todo[r] # <<>>
        /\ pc[r] \in Applying /\ record[e] = "RECEIVED"
    BY DEF IInv, TypeOK, RequestsOK, gateway, RequestOK, Applying
  <1>1. e \in Emitted /\ e \in EventId /\ s \in Sub /\ Current(r) = emitted[e]
    BY <1>0, HeadOK, EmittedType DEF Current
  <1>2. /\ RequestTypeOK' /\ Others(r) /\ pc'[r] = "processed" /\ todo'[r] = todo[r]
    BY <1>0, GotoFacts DEF Control, Applying
  <1>3. /\ row' \in [Sub -> Row] /\ row'[s] = new
        /\ \A t \in Sub : t # s => row'[t] = row[t]
        /\ settled' = settled \cup {e}
    BY <1>0, <1>1 DEF DataTypeOK, WriteStatus
  <1>4. TypeOK'
    BY <1>0, <1>1, <1>2, <1>3 DEF TypeOK, DataTypeOK, handled, gateway
  <1>5. new.status # "absent"
    <2>1. new.status \in Status
      BY <1>0, <1>1, EmittedType
    <2> QED
      BY <2>1 DEF Status, OpenStatuses, Active
  <1>6. \A t \in Sub : Present(t)' <=> Present(t)
    BY <1>1, <1>3, <1>5 DEF Present
  <1>7. (EventsOK /\ PendingOK /\ StoredOK)'
    BY <1>0, <1>6 DEF EventsOK, PendingOK, StoredOK, Emitted
  <1>8. Recorded'
    BY <1>0, <1>1, <1>3 DEF Recorded, Emitted
  <1>9. StatusFromEvents'
    <2> SUFFICES ASSUME NEW t \in Sub, row'[t].status \notin {"absent", "INCOMPLETE"}
                 PROVE \E f \in settled' : /\ emitted[f].sub = t
                                           /\ emitted[f].status = row'[t].status
      BY <1>0 DEF StatusFromEvents
    <2>1. CASE t = s
      BY <1>1, <1>3, <2>1
    <2>2. CASE t # s
      BY <1>0, <1>3, <2>2 DEF StatusFromEvents
    <2> QED
      BY <2>1, <2>2
  <1>10. Frame(r)
    BY <1>0, <1>2, <1>3, <1>6 DEF Frame, Grows, Emitted
  <1>11. RequestOK(r)'
    BY <1>0, <1>2 DEF RequestOK, Emitted
  <1> QED
    BY <1>4, <1>7, <1>8, <1>9, <1>10, <1>11, FrameOK DEF IInv

LEMMA ApplyStatusInv ==
  ASSUME IInv, NEW r \in Req, ApplyStatus(r)
  PROVE IInv'
  <1> DEFINE ev == Current(r)
             new == [row[ev.sub] EXCEPT
                       !.status = ev.status,
                       !.period = IF ev.type = "subscription.updated" THEN "current" ELSE @]
  <1>1. TypeOK /\ EventsOK /\ RequestOK(r) /\ pc[r] = "apply" /\ todo[r] # <<>>
    BY DEF IInv, RequestsOK, RequestOK, ApplyStatus, Applying
  <1>2. Head(todo[r]) \in Emitted
    BY <1>1, HeadOK
  <1>3. ev.sub \in Sub /\ ev.status \in Status \cup {None}
    BY <1>1, <1>2, EmittedType DEF Current, TypeOK
  <1>4. ev.status # None /\ ev.status \in Status
    BY <1>1, <1>2, <1>3 DEF EventsOK, Current, ApplyStatus
  <1>5. row[ev.sub] \in Row
    BY <1>1, <1>3 DEF TypeOK, DataTypeOK
  <1>6. new \in Row /\ new.status = ev.status
    BY <1>4, <1>5 DEF Row
  <1> QED
    BY <1>1, <1>4, <1>6, WriteFacts DEF ApplyStatus

LEMMA SetPastDueInv ==
  ASSUME IInv, NEW r \in Req, SetPastDue(r)
  PROVE IInv'
  <1> DEFINE ev == Current(r)
             new == [row[ev.sub] EXCEPT !.status = "PAST_DUE"]
  <1>1. TypeOK /\ EventsOK /\ RequestOK(r) /\ pc[r] = "pastDue" /\ todo[r] # <<>>
    BY DEF IInv, RequestsOK, RequestOK, SetPastDue, Goto, Applying
  <1>2. Head(todo[r]) \in Emitted
    BY <1>1, HeadOK
  <1>3. ev.sub \in Sub /\ ev.status = "PAST_DUE" /\ Present(ev.sub)
    BY <1>1, <1>2, EmittedType DEF Current, TypeOK, EventsOK, RequestOK
  <1>4. row[ev.sub] \in Row
    BY <1>1, <1>3 DEF TypeOK, DataTypeOK
  <1>5. new \in Row /\ new.status = ev.status /\ new.status # None
    BY <1>3, <1>4, SubscriptionsAssumption DEF Row, Status, OpenStatuses
  <1> QED
    BY <1>1, <1>3, <1>5, WriteFacts DEF SetPastDue

\* The outcome is written to the log, and the request goes on or ends.
LEMMA MarkFacts ==
  ASSUME IInv, NEW r \in Req, pc[r] \in Applying,
         NEW outcome \in {"PROCESSED", "FAILED"},
         record' = [record EXCEPT ![Head(todo[r])] = outcome],
         NextEvent(r) \/ Finish(r),
         UNCHANGED <<planStatus, customer, row, invoice, gateway, settled, handled, faults>>
  PROVE IInv'
  <1> DEFINE e == Head(todo[r])
  <1>0. /\ TypeOK /\ DataTypeOK /\ RequestTypeOK /\ RequestOK(r)
        /\ EventsOK /\ PendingOK /\ StoredOK /\ Recorded /\ StatusFromEvents
        /\ UNCHANGED <<emitted, pending, nCustomer>> /\ todo[r] # <<>>
    BY DEF IInv, TypeOK, RequestsOK, gateway, RequestOK
  <1>1. e \in Emitted /\ e \in EventId
    BY <1>0, HeadOK
  <1>2. /\ RequestTypeOK' /\ Others(r) /\ pc'[r] \in {"idle", "record"}
        /\ pc'[r] = "record" => todo'[r] # <<>>
        /\ \A i \in DOMAIN todo'[r] : todo'[r][i] \in Emitted
    BY <1>0, NextEventFacts, FinishFacts
  <1>3. /\ record' \in [EventId -> {"none", "RECEIVED", "PROCESSED", "FAILED"}]
        /\ record'[e] = outcome
        /\ \A f \in EventId : f # e => record'[f] = record[f]
    BY <1>0, <1>1 DEF DataTypeOK
  <1>4. TypeOK'
    BY <1>0, <1>2, <1>3 DEF TypeOK, DataTypeOK, handled
  <1>5. (EventsOK /\ PendingOK /\ StoredOK /\ StatusFromEvents)'
    BY <1>0 DEF EventsOK, PendingOK, StoredOK, StatusFromEvents, Emitted, Present
  <1>6. Recorded'
    BY <1>0, <1>3, EmittedType DEF Recorded, Emitted
  <1>7. Frame(r)
    BY <1>0, <1>2, <1>3 DEF Frame, Grows, Emitted, Present, Applying
  <1>8. RequestOK(r)'
    BY <1>0, <1>2 DEF RequestOK, Emitted, Applying
  <1> QED
    BY <1>4, <1>5, <1>6, <1>7, <1>8, FrameOK DEF IInv

LEMMA MarkProcessedInv ==
  ASSUME IInv, NEW r \in Req, MarkProcessed(r)
  PROVE IInv'
  BY MarkFacts DEF MarkProcessed, Applying

LEMMA MarkFailedInv ==
  ASSUME IInv, NEW r \in Req, MarkFailed(r)
  PROVE IInv'
  BY MarkFacts DEF MarkFailed, Applying

-----------------------------------------------------------------------------
(* Requests that begin, and the environment.                                *)

\* A request that only begins: it holds nothing yet.
LEMMA BeginFacts ==
  ASSUME IInv, NEW r \in Req, RequestTypeOK', Others(r), UNCHANGED <<database, gateway, settled, handled, faults>>,
         pc'[r] \in {"existing", "cancelSubscription", "record", "deletePlan"},
         pc'[r] = "record" => todo'[r] # <<>>,
         pc'[r] = "cancelSubscription" => arg'[r].sub \in Sub,
         \A i \in DOMAIN todo'[r] : todo'[r][i] \in Emitted
  PROVE IInv'
  <1>0. /\ TypeOK /\ PendingOK
        /\ UNCHANGED <<planStatus, customer, row, invoice, record, nCustomer, emitted, pending,
                       settled, handled, faults>>
    BY DEF IInv, database, gateway
  <1>1. DataTypeOK'
    BY <1>0 DEF TypeOK, DataTypeOK, handled
  <1>2. RequestOK(r)'
    BY <1>0 DEF RequestOK, Applying, Emitted
  <1> QED
    BY <1>0, <1>1, <1>2, QuietFrame, QuietFacts, FrameOK
    DEF IInv, TypeOK, PendingOK, Emitted, Applying

LEMMA StutterInv ==
  ASSUME IInv, UNCHANGED vars
  PROVE IInv'
  <1>1. UNCHANGED <<planStatus, customer, row, invoice, record, nCustomer, emitted, pending,
                    pc, arg, todo, settled, handled, faults>>
    BY DEF vars, database, gateway, request
  <1>2. TypeOK'
    BY <1>1 DEF IInv, TypeOK, DataTypeOK, handled, RequestTypeOK
  <1>3. RequestsOK'
    BY <1>1 DEF IInv, RequestsOK, RequestOK, Apart, Emitted, Present, Current
  <1> QED
    BY <1>1, <1>2, <1>3, QuietFacts DEF IInv, PendingOK, Emitted

LEMMA BeginInv ==
  ASSUME IInv, NEW r \in Req, Begin(r)
  PROVE IInv'
  <1>0. TypeOK /\ RequestTypeOK /\ RequestOK(r)
    BY DEF IInv, TypeOK, RequestsOK
  <1>1. ASSUME NEW u \in User, NEW p \in Plan, BeginCheckout(r, u, p)
        PROVE IInv'
    <2>1. /\ RequestTypeOK' /\ Others(r) /\ pc'[r] = "existing" /\ todo'[r] = todo[r]
          /\ UNCHANGED <<database, gateway, settled, handled, faults>>
      BY <1>0, <1>1
      DEF BeginCheckout, RequestTypeOK, Others, Goto, Control, BeforeEmission
    <2> QED
      BY <1>0, <2>1, BeginFacts DEF RequestOK
  <1>2. ASSUME NEW u \in User, BeginCancel(r, u)
        PROVE IInv'
    <2>1. PICK s \in Newest(RowsOf(u, OpenStatuses)) :
            arg' = [arg EXCEPT ![r].user = u, ![r].sub = s]
      BY <1>2 DEF BeginCancel
    <2>2. s \in Sub
      BY DEF Newest, RowsOf
    <2>3. /\ RequestTypeOK' /\ Others(r) /\ pc'[r] = "cancelSubscription"
          /\ arg'[r].sub = s /\ todo'[r] = todo[r]
          /\ UNCHANGED <<database, gateway, settled, handled, faults>>
      <3>1. arg' = [arg EXCEPT ![r] = [arg[r] EXCEPT !.user = u, !.sub = s]]
        BY <1>0, <2>1 DEF RequestTypeOK
      <3>2. [arg[r] EXCEPT !.user = u, !.sub = s] \in
              [user : User \cup {None}, plan : Plan \cup {None}, sub : Sub \cup {0}]
            /\ [arg[r] EXCEPT !.user = u, !.sub = s].sub = s
        BY <1>0, <2>2 DEF RequestTypeOK
      <3>3. /\ pc' = [pc EXCEPT ![r] = "cancelSubscription"] /\ UNCHANGED todo
            /\ UNCHANGED <<database, gateway, settled, handled, faults>>
        BY <1>2 DEF BeginCancel, Goto
      <3>4. "cancelSubscription" \in Control
        BY DEF Control, BeforeEmission
      <3> QED
        BY <1>0, <3>1, <3>2, <3>3, <3>4 DEF RequestTypeOK, Others
    <2> QED
      BY <1>0, <2>2, <2>3, BeginFacts DEF RequestOK
  <1>3. ASSUME NEW e \in Emitted, Webhook(r, e)
        PROVE IInv'
    <2>1. e \in EventId
      BY <1>0, EmittedType DEF TypeOK
    <2>2. /\ RequestTypeOK' /\ Others(r) /\ pc'[r] = "record" /\ todo'[r] = <<e>>
          /\ UNCHANGED <<database, gateway, settled, handled, faults>>
      BY <1>0, <1>3, <2>1 DEF Webhook, RequestTypeOK, Others, Goto, Control
    <2> QED
      BY <2>2, BeginFacts
  <1>4. ASSUME NEW p \in Edited, BeginRemovePlan(r, p)
        PROVE IInv'
    <2>1. p \in Plan
      BY SubscriptionsAssumption
    <2>2. /\ RequestTypeOK' /\ Others(r) /\ pc'[r] = "deletePlan" /\ todo'[r] = todo[r]
          /\ UNCHANGED <<database, gateway, settled, handled, faults>>
      BY <1>0, <1>4, <2>1 DEF BeginRemovePlan, RequestTypeOK, Others, Goto, Control
    <2> QED
      BY <1>0, <2>2, BeginFacts DEF RequestOK
  <1> QED
    BY <1>1, <1>2, <1>3, <1>4 DEF Begin

LEMMA StepInv ==
  ASSUME IInv, NEW r \in Req, Step(r)
  PROVE IInv'
  BY CheckExistingInv, ReadUserInv, SaveCustomerInv, CreateSubscriptionInv, InsertRowInv,
     CancelSubscriptionInv, DrainInv, RecordEventInv, ApplyStatusInv, FindSubscriptionInv,
     ApplyFailsInv, UpsertInvoiceInv, SetPastDueInv, MarkProcessedInv, MarkFailedInv,
     DeletePlanInv, Zenon
  DEF Step

LEMMA UpdatePlanInv ==
  ASSUME IInv, NEW p \in Edited, CreatePlan(p) \/ UpdatePlan(p)
  PROVE IInv'
  <1>0. /\ TypeOK /\ PendingOK
        /\ UNCHANGED <<customer, row, invoice, record, nCustomer, emitted, pending, pc, arg, todo,
                       settled, handled, faults>>
    BY DEF IInv, CreatePlan, UpdatePlan, gateway, request
  <1>1. TypeOK'
    BY <1>0 DEF TypeOK, DataTypeOK, handled, RequestTypeOK, CreatePlan, UpdatePlan
  <1>2. RequestsOK'
    BY <1>0 DEF IInv, RequestsOK, RequestOK, Apart, Emitted, Present, Current
  <1> QED
    BY <1>0, <1>1, <1>2, QuietFacts DEF IInv, PendingOK, Emitted

LEMMA PeriodEndsInv ==
  ASSUME IInv, NEW s \in Sub, PeriodEnds(s)
  PROVE IInv'
  <1>0. /\ TypeOK
        /\ UNCHANGED <<planStatus, customer, invoice, record, nCustomer, emitted, pending,
                       pc, arg, todo, settled, handled, faults>>
    BY DEF IInv, PeriodEnds, gateway, request
  <1>1. /\ row' \in [Sub -> Row]
        /\ \A t \in Sub : row'[t].status = row[t].status
    <2>1. row \in [Sub -> Row]
      BY <1>0 DEF TypeOK, DataTypeOK
    <2>2. [row[s] EXCEPT !.period = "over"] \in Row
          /\ [row[s] EXCEPT !.period = "over"].status = row[s].status
      BY <2>1 DEF Row
    <2>3. row' = [row EXCEPT ![s] = [row[s] EXCEPT !.period = "over"]]
      BY <2>1 DEF PeriodEnds
    <2> QED
      BY <2>1, <2>2, <2>3
  <1>2. \A t : t \in Sub => (Present(t)' <=> Present(t))
    BY <1>1 DEF Present
  <1>3. TypeOK'
    BY <1>0, <1>1 DEF TypeOK, DataTypeOK, handled, RequestTypeOK
  <1>4. (EventsOK /\ PendingOK /\ StoredOK /\ Recorded /\ StatusFromEvents)'
    BY <1>0, <1>1, <1>2
    DEF IInv, EventsOK, PendingOK, StoredOK, Recorded, StatusFromEvents, Emitted
  <1>5. \A r \in Req : RequestOK(r)'
    <2> TAKE r \in Req
    <2>1. RequestOK(r)
      BY DEF IInv, RequestsOK
    <2>2. pc[r] \in {"invoice", "pastDue"} => Current(r).sub \in Sub
      BY <1>0, <2>1, HeadOK, EmittedType DEF RequestOK, Applying, Current, TypeOK
    <2>3. pc[r] = "insertRow" => arg[r].sub \in Sub
      BY <1>0, <2>1, EmittedType DEF RequestOK, TypeOK, Sub
    <2>4. Current(r)' = Current(r)
      BY <1>0 DEF Current
    <2> QED
      BY <1>0, <1>2, <2>1, <2>2, <2>3, <2>4 DEF RequestOK, Emitted
  <1>6. \A p, q \in Req : Apart(p, q)'
    BY <1>0 DEF IInv, RequestsOK, Apart
  <1> QED
    BY <1>3, <1>4, <1>5, <1>6 DEF IInv, RequestsOK

\* The provider announces one event, about a subscription it knows.
LEMMA ProviderFacts ==
  ASSUME DataTypeOK, NEW s \in Sub, ProviderEmits(s)
  PROVE \E ev \in Event :
          /\ emitted' = Append(emitted, ev) /\ Len(emitted) + 1 <= MaxEvents
          /\ ev.type \notin InvoiceTypes => ev.status # None
          /\ ev.type = "invoice.payment_failed" => ev.status = "PAST_DUE"
  <1> DEFINE n == Len(emitted) + 1
             event(type, status, inv) ==
               [type |-> type, sub |-> s, status |-> status, inv |-> inv, http |-> TRUE]
             waiting == {r \in Req : pc[r] \in BeforeEmission}
  <1>1. emitted \in Seq(Event) /\ Len(emitted) \in Nat /\ MaxEvents \in Nat
    BY SubscriptionsAssumption DEF DataTypeOK
  <1>2. Len(emitted) + 1 <= MaxEvents /\ n \in Invoice
    <2>1. Cardinality(waiting) \in Nat
      <3>1. IsFiniteSet(waiting)
        BY SubscriptionsAssumption, FS_Subset
      <3> QED
        BY <3>1, FS_CardinalityType
    <2>2. Len(emitted) + 2 * Cardinality(waiting) + 1 <= MaxEvents
      BY DEF ProviderEmits, Capacity
    <2> HIDE DEF waiting
    <2> QED
      BY <1>1, <2>1, <2>2 DEF Invoice, EventId
  <1>3. \A st \in {"ACTIVE", "PAST_DUE"} : event("subscription.updated", st, 0) \in Event
    BY DEF Event, Status, OpenStatuses, Active
  <1>4. event("subscription.canceled", "CANCELED", 0) \in Event
    BY DEF Event, Status
  <1>5. \A i \in Invoice \cup {0} :
                           /\ event("invoice.paid", None, i) \in Event
                           /\ event("invoice.payment_failed", "PAST_DUE", i) \in Event
    BY DEF Event, InvoiceTypes, Status, OpenStatuses
  <1>6. {0, n} \cup {emitted[j].inv : j \in Announcements(s)} \subseteq Invoice \cup {0}
    BY <1>2, EmittedType DEF Announcements
  <1>7. PICK ev :
          /\ emitted' = Append(emitted, ev)
          /\ \/ ev = event("subscription.updated", "ACTIVE", 0)
             \/ ev = event("subscription.updated", "PAST_DUE", 0)
             \/ ev = event("subscription.canceled", "CANCELED", 0)
             \/ \E i \in Invoice \cup {0} : \/ ev = event("invoice.paid", None, i)
                                           \/ ev = event("invoice.payment_failed", "PAST_DUE", i)
    BY <1>6 DEF ProviderEmits
  <1>8. ev \in Event
    BY <1>3, <1>4, <1>5, <1>7
  <1>9. /\ ev.type \notin InvoiceTypes => ev.status # None
        /\ ev.type = "invoice.payment_failed" => ev.status = "PAST_DUE"
    BY <1>7, SubscriptionsAssumption DEF InvoiceTypes
  <1> QED
    BY <1>2, <1>7, <1>8, <1>9

LEMMA ProviderEmitsInv ==
  ASSUME IInv, NEW s \in Sub, ProviderEmits(s)
  PROVE IInv' /\ Grows /\ Len(emitted') > Len(emitted)
  <1>0. /\ TypeOK /\ DataTypeOK /\ EventsOK /\ PendingOK /\ emitted \in Seq(Event)
        /\ UNCHANGED <<planStatus, customer, row, invoice, record, nCustomer, pending,
                       pc, arg, todo, settled, handled, faults>>
    BY DEF IInv, TypeOK, DataTypeOK, ProviderEmits, database, request
  <1>1. PICK ev \in Event :
          /\ emitted' = Append(emitted, ev) /\ Len(emitted) + 1 <= MaxEvents
          /\ ev.type \notin InvoiceTypes => ev.status # None
          /\ ev.type = "invoice.payment_failed" => ev.status = "PAST_DUE"
    BY <1>0, ProviderFacts
  <1>2. /\ emitted' \in Seq(Event) /\ Len(emitted') = Len(emitted) + 1
        /\ \A e \in 1 .. Len(emitted) : emitted'[e] = emitted[e]
        /\ emitted'[Len(emitted) + 1] = ev
    BY <1>0, <1>1, AppendProperties
  <1>3. Emitted' = Emitted \cup {Len(emitted) + 1} /\ Grows
    BY <1>0, <1>2 DEF Emitted, Grows
  <1>4. TypeOK'
    BY <1>0, <1>1, <1>2 DEF TypeOK, DataTypeOK, handled, RequestTypeOK
  <1>5. EventsOK' /\ PendingOK'
    BY <1>0, <1>1, <1>2, <1>3 DEF EventsOK, PendingOK, Grows
  <1>6. (StoredOK /\ Recorded /\ StatusFromEvents)'
    BY <1>0, <1>3, EmitKeeps
  <1>7. \A r \in Req : RequestOK(r)'
    <2> TAKE r \in Req
    <2>1. RequestOK(r)
      BY DEF IInv, RequestsOK
    <2>2. pc[r] \in {"invoice", "pastDue"} => Current(r)' = Current(r)
      BY <1>0, <1>3, <2>1, HeadOK DEF RequestOK, Applying, Current, Grows
    <2> QED
      BY <1>0, <1>3, <2>1, <2>2 DEF RequestOK, Present
  <1>8. \A p, q \in Req : Apart(p, q)'
    BY <1>0 DEF IInv, RequestsOK, Apart
  <1>9. Len(emitted') > Len(emitted)
    BY <1>0, <1>2
  <1> QED
    BY <1>3, <1>4, <1>5, <1>6, <1>7, <1>8, <1>9 DEF IInv, RequestsOK

LEMMA CrashInv ==
  ASSUME IInv, Crash
  PROVE IInv'
  <1>0. /\ TypeOK
        /\ UNCHANGED <<planStatus, customer, row, invoice, record, nCustomer, emitted, settled,
                       billed, rejected>>
        /\ pending' = <<>> /\ faults' = faults + 1
        /\ \A r \in Req : pc'[r] = "idle" /\ todo'[r] = <<>>
    BY DEF IInv, Crash, database, handled
  <1>1. TypeOK'
    <2>1. RequestTypeOK'
      BY DEF Crash, RequestTypeOK, Control, NoArg
    <2> QED
      BY <1>0, <2>1 DEF TypeOK, DataTypeOK
  <1>2. PendingOK'
    BY <1>0 DEF PendingOK
  <1>3. RequestsOK'
    BY <1>0, EndedOK DEF RequestsOK, Apart, Applying
  <1> QED
    BY <1>0, <1>1, <1>2, <1>3, QuietFacts DEF IInv

\* A statement that rejects wrote nothing: the request goes to its catch or ends.
LEMMA RejectsInv ==
  ASSUME IInv, NEW r \in Req, Rejects(r)
  PROVE IInv'
  <1>0. /\ TypeOK /\ DataTypeOK /\ RequestTypeOK /\ RequestOK(r) /\ PendingOK
        /\ UNCHANGED <<planStatus, customer, row, invoice, record, nCustomer, emitted, pending,
                       settled, billed>>
        /\ faults \in Nat /\ faults' = faults + 1
    BY DEF IInv, TypeOK, DataTypeOK, RequestsOK, Rejects, HandlerRejects, RequestRejects,
           database, gateway, handled
  <1>1. CASE HandlerRejects(r)
    <2>1. /\ pc[r] \in Tried /\ pc[r] \in Applying /\ UNCHANGED <<arg, todo>>
          /\ pc' = [pc EXCEPT ![r] = "failed"]
      BY <1>1 DEF HandlerRejects, Tried, Applying
    <2>2. RequestTypeOK' /\ Others(r) /\ pc'[r] = "failed" /\ todo'[r] = todo[r]
      BY <1>0, <2>1 DEF RequestTypeOK, Others, Control, Applying
    <2>3. Head(todo[r]) \in EventId
      BY <1>0, <2>1, HeadOK DEF RequestOK
    <2>4. rejected' \subseteq EventId \X Tried
      BY <1>0, <1>1, <2>1, <2>3 DEF HandlerRejects, DataTypeOK
    <2>5. DataTypeOK'
      BY <1>0, <2>4 DEF DataTypeOK
    <2>6. RequestOK(r)'
      BY <1>0, <2>1, <2>2 DEF RequestOK, Applying, Emitted
    <2> QED
      BY <1>0, <2>1, <2>2, <2>5, <2>6, QuietFrame, QuietFacts, FrameOK
      DEF IInv, TypeOK, PendingOK, Emitted
  <1>2. CASE RequestRejects(r)
    <2>1. RequestTypeOK' /\ Others(r) /\ pc'[r] = "idle" /\ todo'[r] = <<>>
      BY <1>0, <1>2, FinishFacts DEF RequestRejects
    <2>2. DataTypeOK'
      BY <1>0, <1>2 DEF DataTypeOK, RequestRejects, handled
    <2>3. RequestOK(r)'
      BY <2>1, EndedOK
    <2> QED
      BY <1>0, <2>1, <2>2, <2>3, QuietFrame, QuietFacts, FrameOK
      DEF IInv, TypeOK, PendingOK, Emitted, Applying
  <1> QED
    BY <1>1, <1>2 DEF Rejects

LEMMA InitInv ==
  ASSUME Init
  PROVE IInv
  <1>1. TypeOK
    BY SubscriptionsAssumption
    DEF Init, TypeOK, DataTypeOK, RequestTypeOK, NoArg, NoRow, Row, Control
  <1>2. EventsOK /\ PendingOK /\ StoredOK /\ Recorded /\ StatusFromEvents
    BY DEF Init, EventsOK, PendingOK, StoredOK, Recorded, StatusFromEvents, Emitted,
           Present, NoRow
  <1>3. RequestsOK
    BY DEF Init, RequestsOK, RequestOK, Apart, Applying
  <1> QED
    BY <1>1, <1>2, <1>3 DEF IInv

LEMMA NextInv ==
  ASSUME IInv, [Next]_vars
  PROVE IInv'
  <1>1. ASSUME NEW r \in Req, Begin(r) \/ Step(r) PROVE IInv'
    BY <1>1, BeginInv, StepInv
  <1>2. CASE Environment
    BY <1>2, UpdatePlanInv, PeriodEndsInv, ProviderEmitsInv, RejectsInv, CrashInv
    DEF Environment
  <1>3. CASE UNCHANGED vars
    BY <1>3, StutterInv
  <1> QED
    BY <1>1, <1>2, <1>3 DEF Next

-----------------------------------------------------------------------------
(* The theorems.                                                            *)

\* The inductive invariant holds in every reachable state.
THEOREM Invariant == Spec => []IInv
  <1>1. Init => IInv
    BY InitInv
  <1>2. IInv /\ [Next]_vars => IInv'
    BY NextInv
  <1> QED
    BY <1>1, <1>2, PTL DEF Spec

\* The tables, the gateway's queue and the locals of every request keep their
\* types: no null, no dangling event id, whatever the interleaving.
THEOREM TypeCorrect == Spec => []TypeOK
  <1>1. IInv => TypeOK
    BY DEF IInv
  <1> QED
    BY <1>1, Invariant, PTL

\* At most one request is between the record of an event and its outcome, for
\* any number of deliveries and of requests that drain the gateway.
THEOREM OneHandlerPerEvent == Spec => []AppliedByOne
  <1>1. IInv => AppliedByOne
    BY DEF IInv, RequestsOK, Apart, AppliedByOne
  <1> QED
    BY <1>1, Invariant, PTL

\* Every status but INCOMPLETE was announced by the gateway for that very
\* subscription, and processWebhookEvent wrote it.
THEOREM Provenance == Spec => []StatusFromEvents
  <1>1. IInv => StatusFromEvents
    BY DEF IInv
  <1> QED
    BY <1>1, Invariant, PTL

\* Access is never ahead of the provider: an event that announced an active
\* subscription of the student has been applied before.
THEOREM ConfirmedAccess == Spec => []AccessConfirmed
  <1>1. StatusFromEvents => AccessConfirmed
    <2> SUFFICES ASSUME StatusFromEvents, NEW u \in User, Entitled(u)
                 PROVE \E e \in settled :
                         row[emitted[e].sub].user = u /\ emitted[e].status \in Active
      BY DEF AccessConfirmed
    <2>1. PICK s \in Sub : row[s].user = u /\ row[s].status \in Active
      BY DEF Entitled, RowsOf
    <2>2. row[s].status \notin {"absent", "INCOMPLETE"}
      BY <2>1 DEF Active
    <2>3. PICK e \in settled : emitted[e].sub = s /\ emitted[e].status = row[s].status
      BY <2>2 DEF StatusFromEvents
    <2> QED
      BY <2>1, <2>3
  <1> QED
    BY <1>1, Provenance, PTL

-----------------------------------------------------------------------------
(* The refinement of ConfirmedSubscriptions.                                *)

\* The statuses that the abstract specification sees.
Statuses == [s \in Sub |-> row[s].status]

LEMMA StutterMaps ==
  ASSUME UNCHANGED <<row, emitted, settled>>
  PROVE UNCHANGED Confirmed!vars
  BY DEF Confirmed!vars

LEMMA AnnounceMaps ==
  ASSUME Grows, Len(emitted') > Len(emitted), UNCHANGED <<row, settled>>
  PROVE Confirmed!Announce
  BY DEF Confirmed!Announce, Grows, Emitted

LEMMA InsertRowMaps ==
  ASSUME IInv, NEW r \in Req, InsertRow(r)
  PROVE [Confirmed!Next]_(Confirmed!vars)
  <1>0. /\ TypeOK /\ RequestOK(r) /\ row \in [Sub -> Row] /\ pc[r] = "insertRow"
        /\ UNCHANGED <<emitted, settled>>
    BY DEF IInv, TypeOK, DataTypeOK, RequestsOK, InsertRow, gateway
  <1>1. PICK s \in Sub : s = arg[r].sub /\ row[s].status = "absent"
    BY <1>0, EmittedType DEF RequestOK, TypeOK, Present, Sub
  <1>2. CASE UNCHANGED row
    BY <1>0, <1>2, StutterMaps
  <1>3. CASE ~UNCHANGED row
    <2>1. PICK new : row' = [row EXCEPT ![s] = new] /\ new.status = "INCOMPLETE"
      BY <1>1, <1>3 DEF InsertRow, InitialStatus
    <2>2. Statuses' = [Statuses EXCEPT ![s] = "INCOMPLETE"] /\ Statuses[s] = "absent"
      BY <1>0, <1>1, <2>1 DEF Statuses
    <2>3. Confirmed!Store(s)
      BY <1>0, <2>2 DEF Confirmed!Store, Statuses
    <2>4. \E t \in Sub : Confirmed!Store(t)
      BY <1>1, <2>3, Zenon
    <2> QED
      BY <2>4, Zenon DEF Confirmed!Next
  <1> QED
    BY <1>2, <1>3

LEMMA WriteMaps ==
  ASSUME IInv, NEW r \in Req, NEW new, WriteStatus(r, new),
         pc[r] \in {"apply", "pastDue"}, Present(Current(r).sub),
         new.status = Current(r).status, new.status # None, UNCHANGED emitted
  PROVE Confirmed!Next
  <1>0. /\ TypeOK /\ RequestOK(r) /\ row \in [Sub -> Row] /\ todo[r] # <<>>
        /\ Head(todo[r]) \notin settled
    BY DEF IInv, TypeOK, DataTypeOK, RequestsOK, RequestOK, Applying
  <1>1. PICK e \in Emitted : e = Head(todo[r])
    BY <1>0, HeadOK
  <1>2. emitted[e].sub \in Sub /\ Current(r) = emitted[e]
    BY <1>0, <1>1, EmittedType DEF Current, TypeOK
  <1>3. /\ Statuses' = [Statuses EXCEPT ![emitted[e].sub] = emitted[e].status]
        /\ Statuses[emitted[e].sub] # "absent" /\ settled' = settled \cup {e}
    BY <1>0, <1>1, <1>2 DEF WriteStatus, Statuses, Present
  <1>4. Confirmed!Take(e)
    BY <1>0, <1>1, <1>2, <1>3 DEF Confirmed!Take, Statuses
  <1>5. \E f \in Emitted : Confirmed!Take(f)
    BY <1>1, <1>4, Zenon
  <1> QED
    BY <1>5, Zenon DEF Confirmed!Next, Emitted

LEMMA StepMaps ==
  ASSUME IInv, NEW r \in Req, Step(r)
  PROVE [Confirmed!Next]_(Confirmed!vars)
  <1>1. CASE CreateSubscription(r)
    BY <1>1, CreateSubscriptionInv, AnnounceMaps
    DEF CreateSubscription, database, Confirmed!Next
  <1>2. CASE CancelSubscription(r)
    BY <1>2, CancelSubscriptionInv, AnnounceMaps
    DEF CancelSubscription, database, Confirmed!Next
  <1>3. CASE InsertRow(r)
    BY <1>3, InsertRowMaps
  <1>4. CASE ApplyStatus(r)
    <2>1. /\ TypeOK /\ EventsOK /\ RequestOK(r) /\ todo[r] # <<>> /\ pc[r] = "apply"
          /\ UNCHANGED emitted
      BY <1>4 DEF IInv, RequestsOK, RequestOK, ApplyStatus, Applying, gateway
    <2>2. Head(todo[r]) \in Emitted
      BY <2>1, HeadOK
    <2>3. Current(r).status # None /\ Current(r).sub \in Sub
      BY <1>4, <2>1, <2>2, EmittedType DEF EventsOK, Current, ApplyStatus, TypeOK
    <2>4. row[Current(r).sub] \in Row
      BY <2>1, <2>3 DEF TypeOK, DataTypeOK
    <2> QED
      BY <1>4, <2>1, <2>3, <2>4, WriteMaps DEF ApplyStatus, Row
  <1>5. CASE SetPastDue(r)
    <2>1. /\ TypeOK /\ EventsOK /\ RequestOK(r) /\ todo[r] # <<>> /\ pc[r] = "pastDue"
          /\ UNCHANGED emitted
      BY <1>5 DEF IInv, RequestsOK, RequestOK, SetPastDue, Goto, Applying, gateway
    <2>2. Head(todo[r]) \in Emitted
      BY <2>1, HeadOK
    <2>3. /\ Current(r).status = "PAST_DUE" /\ Current(r).sub \in Sub
          /\ Present(Current(r).sub)
      BY <2>1, <2>2, EmittedType DEF EventsOK, Current, RequestOK, TypeOK
    <2>4. row[Current(r).sub] \in Row
      BY <2>1, <2>3 DEF TypeOK, DataTypeOK
    <2> QED
      BY <1>5, <2>1, <2>3, <2>4, WriteMaps, SubscriptionsAssumption DEF SetPastDue, Row
  <1>6. CASE \/ CheckExisting(r) \/ ReadUser(r) \/ SaveCustomer(r) \/ Drain(r)
             \/ RecordEvent(r) \/ FindSubscription(r) \/ ApplyFails(r) \/ UpsertInvoice(r)
             \/ MarkProcessed(r) \/ MarkFailed(r) \/ DeletePlan(r)
    <2>1. UNCHANGED <<row, emitted, settled>>
      BY <1>6
      DEF CheckExisting, ReadUser, SaveCustomer, Drain, RecordEvent, FindSubscription,
          ApplyFails, UpsertInvoice, MarkProcessed, MarkFailed, DeletePlan, database, gateway
    <2> QED
      BY <2>1, StutterMaps
  <1> QED
    BY <1>1, <1>2, <1>3, <1>4, <1>5, <1>6 DEF Step

LEMMA NextMaps ==
  ASSUME IInv, [Next]_vars
  PROVE [Confirmed!Next]_(Confirmed!vars)
  <1>1. ASSUME NEW r \in Req, Begin(r)
        PROVE UNCHANGED <<row, emitted, settled>>
    BY <1>1
    DEF Begin, BeginCheckout, BeginCancel, Webhook, BeginRemovePlan, database, gateway
  <1>2. ASSUME NEW s \in Sub, ProviderEmits(s)
        PROVE Confirmed!Next
    BY <1>2, ProviderEmitsInv, AnnounceMaps DEF ProviderEmits, database, Confirmed!Next
  <1>3. ASSUME NEW s \in Sub, PeriodEnds(s)
        PROVE [Confirmed!Next]_(Confirmed!vars)
    <2>1. row \in [Sub -> Row] /\ UNCHANGED <<emitted, settled>>
      BY <1>3 DEF IInv, TypeOK, DataTypeOK, PeriodEnds, gateway
    <2>2. row[s] \in Row /\ row' = [row EXCEPT ![s] = [row[s] EXCEPT !.period = "over"]]
      BY <1>3, <2>1 DEF PeriodEnds
    <2>3. [row[s] EXCEPT !.period = "over"].status = row[s].status
      BY <2>2 DEF Row
    <2>4. Statuses' = Statuses
      BY <2>1, <2>2, <2>3 DEF Statuses
    <2> QED
      BY <2>1, <2>4 DEF Confirmed!vars, Statuses
  <1>4. ASSUME \/ \E p \in Edited : CreatePlan(p) \/ UpdatePlan(p)
               \/ \E r \in Req : Rejects(r)
               \/ Crash \/ UNCHANGED vars
        PROVE UNCHANGED <<row, emitted, settled>>
    BY <1>4
    DEF CreatePlan, UpdatePlan, Rejects, HandlerRejects, RequestRejects, Crash, vars, database,
        gateway
  <1> QED
    BY <1>1, <1>2, <1>3, <1>4, StepMaps, StutterMaps DEF Next, Environment

\* The checkout, the webhooks, their failures and the restarts implement the
\* promise of ConfirmedSubscriptions: a status changes only by taking, once, an
\* event announced for that subscription.
THEOREM Refinement == Spec => ConfirmedSpec
  <1>1. Init => Confirmed!Init
    BY DEF Init, NoRow, Confirmed!Init
  <1>2. IInv /\ [Next]_vars => [Confirmed!Next]_(Confirmed!vars)
    BY NextMaps
  <1> QED
    BY <1>1, <1>2, Invariant, PTL DEF Spec, ConfirmedSpec, Confirmed!Spec

-----------------------------------------------------------------------------
(* The log of events, the plans, and checkouts that do not overlap: each    *)
(* question has an inductive invariant of its own, and all rest on IInv.    *)

\* What an event asks for: a payment that succeeds, no status; and only what the
\* gateway announced is on record.
LoggedOK ==
  /\ \A e \in Emitted : emitted[e].type = "invoice.paid" => emitted[e].status = None
  /\ \A e \in EventId : record[e] # "none" => e \in Emitted

Untouched(e) == e \notin settled \cup billed
WritesDone(e) ==
  /\ emitted[e].type \in InvoiceTypes => e \in billed
  /\ emitted[e].status # None => e \in settled
\* What a handler that failed had written came before the statement that rejected.
CutShort(e) ==
  /\ e \in settled => <<e, "processed">> \in rejected
  /\ e \in billed => \E st \in {"pastDue", "processed"} : <<e, st>> \in rejected

\* How far the handler of an event is, by the statement it waits at.
HandlerOK(r) ==
  /\ pc[r] \in {"apply", "invoice"} => Untouched(Head(todo[r]))
  /\ pc[r] = "invoice" => Current(r).type \in InvoiceTypes
  /\ pc[r] = "pastDue" => Head(todo[r]) \in billed \ settled
  /\ pc[r] = "processed" => WritesDone(Head(todo[r]))
  /\ pc[r] = "failed" => CutShort(Head(todo[r]))

\* A payment that was billed is recorded, and none of another kind is billed.
LogInv ==
  /\ LoggedOK /\ RecordTellsTruth
  /\ \A e \in billed : e \in Emitted /\ record[e] # "none"
  /\ \A r \in Req : HandlerOK(r)

\* A checkout names a plan.
Buying == {"existing", "user", "saveCustomer", "createSubscription", "insertRow"}
BuysPlan(r) == pc[r] \in Buying => arg[r].plan \in Plan
PlanInv == \A r \in Req : BuysPlan(r)

\* The provider only answers: a subscription is activated by its first event,
\* and is canceled once that event has taken effect.
AnswersOK ==
  \A e \in Emitted :
    /\ emitted[e].status \in Active => e = emitted[e].sub
    /\ emitted[e].status = "CANCELED" => emitted[e].sub \in settled
    /\ emitted[e].status \in Active \cup {"CANCELED", None}
CancelsActive(r) == pc[r] = "cancelSubscription" => arg[r].sub \in settled
FinalInv == AnswersOK /\ \A r \in Req : CancelsActive(r)

\* One request at a time, and none is cut short: what the gateway queued, and
\* what it activated but the database does not show yet, belong to the request
\* at work, which found no active subscription of its student.
OneByOne == \A q, r \in Req : q = r
Activating(e) == emitted[e].status \in Active /\ e \notin settled
Holds(r, e) ==
  /\ e = arg[r].sub /\ pc[r] \in {"insertRow", "drain", "record", "apply"}
  /\ pc[r] # "apply" => record[e] = "none"
  /\ pc[r] \in {"insertRow", "drain"} => pending # <<>> /\ pending[1] = e
  /\ pc[r] \in {"record", "apply"} => Head(todo[r]) = e
  /\ pc[r] # "insertRow" => Present(e) /\ row[e].user = arg[r].user
Clear(r) == \A s \in Sub : row[s].user = arg[r].user => row[s].status \notin Active
Turn(r) ==
  /\ pc[r] \notin {"insertRow", "drain"} => pending = <<>>
  /\ pc[r] \in Buying => planStatus[arg[r].plan] # "deleted"
  /\ pc[r] \in {"user", "saveCustomer", "createSubscription", "insertRow"} => Clear(r)
  /\ \A e \in Emitted : Activating(e) => Holds(r, e) /\ Clear(r)

OneActive ==
  \A s, t \in Sub :
    row[s].status \in Active /\ row[t].status \in Active /\ row[s].user = row[t].user => s = t

\* The gateway made a customer: it is stored, or about to be.
CustomersOK ==
  \A u \in User :
    \/ nCustomer[u] = 0
    \/ nCustomer[u] = 1 /\ customer[u]
    \/ nCustomer[u] = 1 /\ \E r \in Req : pc[r] = "saveCustomer" /\ arg[r].user = u

SeqInv == OneActive /\ CustomersOK /\ \A r \in Req : Turn(r)

-----------------------------------------------------------------------------
(* What every step of a request leaves to the others: their locals, the     *)
(* events announced and applied, the invoices written, and what rejected.   *)

Kept(r) ==
  /\ Others(r) /\ Grows /\ settled \subseteq settled'
  /\ billed \subseteq billed' /\ rejected \subseteq rejected'

LEMMA StepKept ==
  ASSUME IInv, NEW r \in Req, Begin(r) \/ Step(r) \/ Rejects(r)
  PROVE Kept(r)
  <1>0. TypeOK /\ DataTypeOK /\ RequestTypeOK /\ RequestOK(r)
    BY DEF IInv, TypeOK, RequestsOK
  <1>1. UNCHANGED emitted => Grows
    BY DEF Grows, Emitted
  <1>3. CASE \/ CheckExisting(r) \/ ReadUser(r) \/ SaveCustomer(r) \/ InsertRow(r)
             \/ Drain(r) \/ FindSubscription(r) \/ ApplyFails(r) \/ MarkFailed(r)
             \/ DeletePlan(r) \/ Begin(r)
    <2>1. UNCHANGED <<emitted, settled, billed, rejected>>
      BY <1>3
      DEF CheckExisting, ReadUser, SaveCustomer, InsertRow, Drain, FindSubscription,
          ApplyFails, MarkFailed, DeletePlan, Begin, BeginCheckout, BeginCancel, Webhook,
          BeginRemovePlan, database, gateway, handled
    <2>2. Others(r)
      BY <1>0, <1>3
      DEF CheckExisting, ReadUser, SaveCustomer, InsertRow, Drain, FindSubscription,
          ApplyFails, MarkFailed, DeletePlan, Begin, BeginCheckout, BeginCancel, Webhook,
          BeginRemovePlan, Goto, Finish, Others, RequestTypeOK
    <2> QED
      BY <1>1, <2>1, <2>2 DEF Kept
  <1>4. CASE RecordEvent(r) \/ MarkProcessed(r)
    <2>1. UNCHANGED <<emitted, settled, billed, rejected>>
      BY <1>4 DEF RecordEvent, MarkProcessed, gateway, handled
    <2>2. Others(r)
      BY <1>0, <1>4
      DEF RecordEvent, MarkProcessed, NextEvent, Goto, Finish, Others, RequestTypeOK
    <2> QED
      BY <1>1, <2>1, <2>2 DEF Kept
  <1>5. CASE CreateSubscription(r) \/ CancelSubscription(r)
    <2>1. Grows /\ UNCHANGED <<settled, billed, rejected>>
      BY <1>5, CreateSubscriptionInv, CancelSubscriptionInv
      DEF CreateSubscription, CancelSubscription, handled
    <2>2. Others(r)
      BY <1>0, <1>5 DEF CreateSubscription, CancelSubscription, Goto, Others, RequestTypeOK
    <2> QED
      BY <2>1, <2>2 DEF Kept
  <1>6. CASE ApplyStatus(r) \/ SetPastDue(r)
    <2>1. /\ UNCHANGED <<emitted, billed, rejected>>
          /\ settled' = settled \cup {Head(todo[r])}
      BY <1>6 DEF ApplyStatus, SetPastDue, WriteStatus, gateway, handled
    <2>2. Others(r)
      BY <1>0, <1>6 DEF ApplyStatus, SetPastDue, Goto, Others, RequestTypeOK
    <2> QED
      BY <1>1, <2>1, <2>2 DEF Kept
  <1>7. CASE UpsertInvoice(r)
    <2>1. /\ UNCHANGED <<emitted, settled, rejected>>
          /\ billed' = billed \cup {Head(todo[r])}
      BY <1>7 DEF UpsertInvoice, gateway
    <2>2. Others(r)
      BY <1>0, <1>7 DEF UpsertInvoice, Goto, Others, RequestTypeOK
    <2> QED
      BY <1>1, <2>1, <2>2 DEF Kept
  <1>8. CASE Rejects(r)
    <2>1. UNCHANGED <<emitted, settled, billed>> /\ rejected \subseteq rejected'
      BY <1>8 DEF Rejects, HandlerRejects, RequestRejects, gateway, handled
    <2>2. Others(r)
      BY <1>0, <1>8
      DEF Rejects, HandlerRejects, RequestRejects, Finish, Others, RequestTypeOK
    <2> QED
      BY <1>1, <2>1, <2>2 DEF Kept
  <1> QED
    BY <1>3, <1>4, <1>5, <1>6, <1>7, <1>8, Zenon DEF Step

-----------------------------------------------------------------------------
(* The log of webhook events.                                               *)

\* What a step of r may do to the log, besides what it keeps.
LogFrame(r) ==
  /\ Kept(r)
  /\ \A e \in settled' :
       e \in settled \/ (pc[r] \in {"apply", "pastDue"} /\ e = Head(todo[r]))
  /\ \A e \in billed' : e \in billed \/ (pc[r] = "invoice" /\ e = Head(todo[r]))
  /\ \A e \in EventId :
       \/ record'[e] = record[e]
       \/ record'[e] = "RECEIVED"
       \/ pc[r] = "processed" /\ e = Head(todo[r]) /\ record'[e] = "PROCESSED"
       \/ pc[r] = "failed" /\ e = Head(todo[r]) /\ record'[e] = "FAILED"

\* Once all writes of an event are done they stay done, and what is left of a
\* handler that failed stays explained while nobody writes for it.
LEMMA WritesKept ==
  ASSUME NEW r \in Req, Kept(r), NEW e \in Emitted
  PROVE /\ WritesDone(e) => WritesDone(e)'
        /\ (e \in settled' => e \in settled) /\ (e \in billed' => e \in billed) =>
             /\ CutShort(e) => CutShort(e)'
             /\ Untouched(e) => Untouched(e)'
  <1>1. WritesDone(e) => WritesDone(e)'
    BY DEF Kept, Grows, WritesDone
  <1>2. ASSUME e \in settled' => e \in settled, e \in billed' => e \in billed
        PROVE (CutShort(e) => CutShort(e)') /\ (Untouched(e) => Untouched(e)')
    BY <1>2 DEF Kept, CutShort, Untouched
  <1> QED
    BY <1>1, <1>2

\* A step of r keeps what the log says once it keeps what r itself may rely on.
LEMMA LogKeeps ==
  ASSUME IInv, IInv', LogInv, NEW r \in Req, LogFrame(r), LoggedOK', HandlerOK(r)'
  PROVE LogInv'
  <1>0. /\ TypeOK /\ Recorded /\ Recorded' /\ LoggedOK /\ RecordTellsTruth
        /\ \A e \in billed : e \in Emitted /\ record[e] # "none"
        /\ \A q \in Req : RequestOK(q) /\ HandlerOK(q) /\ Apart(r, q)
        /\ Kept(r) /\ Others(r) /\ Grows /\ Emitted \subseteq Emitted'
        /\ Emitted \subseteq EventId
    BY EmittedType DEF IInv, LogInv, RequestsOK, LogFrame, Kept, TypeOK, Grows
  <1>1. ASSUME NEW q \in Req PROVE HandlerOK(q)'
    <2>1. CASE q = r
      BY <2>1
    <2>2. CASE q # r /\ pc'[q] \in Applying
      <3>1. pc'[q] = pc[q] /\ todo'[q] = todo[q] /\ todo[q] # <<>>
        BY <1>0, <2>2 DEF Others, RequestOK
      <3>2. PICK e \in Emitted : e = Head(todo[q])
        BY <1>0, <3>1, HeadOK
      <3>3. pc[r] \in Applying => Head(todo[r]) # e
        BY <1>0, <2>2, <3>1, <3>2 DEF Apart
      <3>4. (e \in settled' => e \in settled) /\ (e \in billed' => e \in billed)
        BY <3>3 DEF LogFrame, Applying
      <3>5. Head(todo'[q]) = e /\ HandlerOK(q)
        BY <1>0, <3>1, <3>2
      <3>6. /\ WritesDone(e) => WritesDone(e)'
            /\ CutShort(e) => CutShort(e)'
            /\ Untouched(e) => Untouched(e)'
            /\ e \in billed => e \in billed'
        BY <1>0, <3>2, <3>4, WritesKept DEF Kept
      <3>7. /\ pc[q] \in {"apply", "invoice"} => Untouched(e)
            /\ pc[q] = "invoice" => emitted[e].type \in InvoiceTypes
            /\ pc[q] = "pastDue" => e \in billed \ settled
            /\ pc[q] = "processed" => WritesDone(e)
            /\ pc[q] = "failed" => CutShort(e)
        BY <3>2, <3>5 DEF HandlerOK, Current
      <3>8. /\ pc'[q] \in {"apply", "invoice"} => Untouched(e)'
            /\ pc'[q] = "invoice" => emitted'[e].type \in InvoiceTypes
            /\ pc'[q] = "pastDue" => e \in billed' \ settled'
            /\ pc'[q] = "processed" => WritesDone(e)'
            /\ pc'[q] = "failed" => CutShort(e)'
        BY <1>0, <3>1, <3>2, <3>4, <3>6, <3>7 DEF Grows
      <3> QED
        BY <3>5, <3>8 DEF HandlerOK, WritesDone, CutShort, Untouched, Current
    <2>3. CASE pc'[q] \notin Applying
      BY <2>3 DEF HandlerOK, Applying
    <2> QED
      BY <2>1, <2>2, <2>3
  <1>2. ASSUME NEW e \in Emitted'
        PROVE /\ record'[e] = "PROCESSED" => WritesDone(e)'
              /\ record'[e] = "none" => Untouched(e)'
              /\ record'[e] = "FAILED" => CutShort(e)'
    <2>0. e \in EventId /\ (record'[e] # "none" => e \in Emitted')
      BY <1>2, SubscriptionsAssumption
      DEF IInv, TypeOK, DataTypeOK, Emitted, EventId, LoggedOK
    <2>1. CASE e \notin Emitted
      <3>1. record[e] = "none" /\ e \notin settled /\ e \notin billed
        BY <1>0, <2>0, <2>1 DEF LoggedOK, Recorded
      <3>2. pc[r] \in Applying => Head(todo[r]) # e
        BY <1>0, <2>1, HeadOK DEF RequestOK
      <3>3. e \notin settled' /\ e \notin billed' /\ record'[e] \in {"none", "RECEIVED"}
        BY <2>0, <3>1, <3>2 DEF LogFrame, Applying
      <3> QED
        BY <3>3 DEF Untouched
    <2>2. CASE e \in Emitted
      <3>1. /\ record[e] = "PROCESSED" => WritesDone(e)
            /\ record[e] = "none" => Untouched(e)
            /\ record[e] = "FAILED" => CutShort(e)
        BY <1>0, <2>2 DEF RecordTellsTruth, WritesDone, Untouched, CutShort
      <3>2. /\ pc[r] = "processed" /\ e = Head(todo[r]) => WritesDone(e)
            /\ pc[r] = "failed" /\ e = Head(todo[r]) => CutShort(e)
            /\ pc[r] \in Applying /\ e = Head(todo[r]) => record[e] = "RECEIVED"
        BY <1>0 DEF HandlerOK, RequestOK
      <3>3. /\ WritesDone(e) => WritesDone(e)'
            /\ (e \in settled' => e \in settled) /\ (e \in billed' => e \in billed) =>
                 /\ CutShort(e) => CutShort(e)'
                 /\ Untouched(e) => Untouched(e)'
        BY <1>0, <2>2, WritesKept
      <3>4. record'[e] = "PROCESSED" => WritesDone(e)'
        BY <2>0, <3>1, <3>2, <3>3 DEF LogFrame
      <3>5. ASSUME record'[e] \in {"none", "FAILED"}
            PROVE (e \in settled' => e \in settled) /\ (e \in billed' => e \in billed)
        BY <2>0, <3>2, <3>5 DEF LogFrame, Applying
      <3>6. record'[e] = "FAILED" => CutShort(e)'
        BY <2>0, <3>1, <3>2, <3>3, <3>5 DEF LogFrame
      <3>7. record'[e] = "none" => Untouched(e)'
        BY <2>0, <3>1, <3>3, <3>5 DEF LogFrame
      <3> QED
        BY <3>4, <3>6, <3>7
    <2> QED
      BY <2>1, <2>2
  <1>3. RecordTellsTruth'
    BY <1>2 DEF RecordTellsTruth, WritesDone, CutShort, Untouched
  <1>4. ASSUME NEW e \in billed' PROVE e \in Emitted' /\ record'[e] # "none"
    <2>1. CASE e \in billed
      <3>1. e \in Emitted /\ record[e] # "none" /\ e \in EventId
        BY <1>0, <2>1
      <3> QED
        BY <1>0, <3>1 DEF LogFrame
    <2>2. CASE e \notin billed
      <3>1. pc[r] = "invoice" /\ e = Head(todo[r])
        BY <1>4, <2>2 DEF LogFrame
      <3>2. e \in Emitted /\ e \in EventId /\ record[e] = "RECEIVED"
        BY <1>0, <3>1, HeadOK DEF RequestOK, Applying
      <3> QED
        BY <1>0, <3>2 DEF LogFrame
    <2> QED
      BY <2>1, <2>2
  <1> QED
    BY <1>1, <1>3, <1>4 DEF LogInv

\* Steps that leave the log, and the handler of an event, where they are.
LEMMA QuietLog ==
  ASSUME IInv, IInv', LogInv, NEW r \in Req, Kept(r),
         UNCHANGED <<emitted, record, settled, billed>>, pc'[r] \notin Applying
  PROVE LogInv'
  <1>1. LoggedOK'
    BY DEF LogInv, LoggedOK, Emitted
  <1>2. LogFrame(r)
    BY DEF LogFrame
  <1>3. HandlerOK(r)'
    BY DEF HandlerOK, Applying
  <1> QED
    BY <1>1, <1>2, <1>3, LogKeeps

\* An event that is announced asks for what LoggedOK says.
LEMMA EmitLogged ==
  ASSUME IInv, LogInv, Grows, UNCHANGED record,
         \A e \in Emitted' \ Emitted :
           emitted'[e].type = "invoice.paid" => emitted'[e].status = None
  PROVE LoggedOK'
  <1>1. /\ \A e \in Emitted : emitted[e].type = "invoice.paid" => emitted[e].status = None
        /\ \A e \in EventId : record[e] # "none" => e \in Emitted
    BY DEF LogInv, LoggedOK
  <1> QED
    BY <1>1 DEF LoggedOK, Grows

LEMMA CreateSubscriptionLog ==
  ASSUME IInv, IInv', LogInv, NEW r \in Req, CreateSubscription(r)
  PROVE LogInv'
  <1> DEFINE events == Announced(arg[r].plan)
  <1>0. /\ Kept(r) /\ Grows /\ emitted \in Seq(Event)
        /\ UNCHANGED <<record, settled, billed>> /\ pc'[r] = "insertRow"
        /\ emitted' = emitted \o events
    BY StepKept, CreateSubscriptionInv
    DEF IInv, TypeOK, DataTypeOK, RequestTypeOK, Step, CreateSubscription, Goto, Emit, database,
        handled
  <1>1. /\ Len(events) \in Nat
        /\ \A i \in 1 .. Len(events) :
             events[i].type = "invoice.paid" => events[i].status = None
    BY DEF Announced
  <1>2. \A e \in Emitted' \ Emitted :
          \E i \in 1 .. Len(events) : emitted'[e] = events[i]
    <2> HIDE DEF events
    <2> SUFFICES ASSUME NEW e \in Emitted' \ Emitted
                 PROVE \E i \in 1 .. Len(events) : emitted'[e] = events[i]
      OBVIOUS
    <2>1. /\ e = Len(emitted) + (e - Len(emitted))
          /\ e - Len(emitted) \in 1 .. Len(events)
      BY <1>0, <1>1 DEF Emitted
    <2>2. emitted'[e] = events[e - Len(emitted)]
      BY <1>0, <1>1, <2>1
    <2> QED
      BY <2>1, <2>2
  <1> HIDE DEF events
  <1>3. LoggedOK'
    BY <1>0, <1>1, <1>2, EmitLogged
  <1>4. LogFrame(r) /\ HandlerOK(r)'
    BY <1>0 DEF LogFrame, HandlerOK
  <1> QED
    BY <1>3, <1>4, LogKeeps

LEMMA CancelSubscriptionLog ==
  ASSUME IInv, IInv', LogInv, NEW r \in Req, CancelSubscription(r)
  PROVE LogInv'
  <1>0. /\ Kept(r) /\ Grows /\ emitted \in Seq(Event)
        /\ UNCHANGED <<record, settled, billed>> /\ pc'[r] = "drain"
    BY StepKept, CancelSubscriptionInv
    DEF IInv, TypeOK, DataTypeOK, RequestTypeOK, Step, CancelSubscription, Goto, database,
        handled
  <1> DEFINE ev == [type |-> "subscription.canceled", sub |-> arg[r].sub, inv |-> 0,
                    http |-> ~Simulated, status |-> "CANCELED"]
  <1>1. emitted' = emitted \o <<ev>> /\ ev.type = "subscription.canceled"
    BY DEF CancelSubscription, Emit
  <1> HIDE DEF ev
  <1>2. \A e \in Emitted' \ Emitted : emitted'[e] = ev
    BY <1>0, <1>1 DEF Emitted
  <1>3. LoggedOK'
    BY <1>0, <1>1, <1>2, EmitLogged
  <1>4. LogFrame(r) /\ HandlerOK(r)'
    BY <1>0 DEF LogFrame, HandlerOK
  <1> QED
    BY <1>3, <1>4, LogKeeps

\* The event whose handler r is, and what r may rely on.
LEMMA HeadFacts ==
  ASSUME IInv, LogInv, NEW r \in Req, pc[r] \in Applying \cup {"record"}
  PROVE /\ Head(todo[r]) \in Emitted /\ Head(todo[r]) \in EventId
        /\ Current(r) = emitted[Head(todo[r])] /\ Current(r) \in Event
        /\ RequestOK(r) /\ HandlerOK(r) /\ TypeOK
        /\ Current(r).type = "invoice.paid" => Current(r).status = None
  <1>1. RequestOK(r) /\ HandlerOK(r) /\ TypeOK /\ todo[r] # <<>>
    BY DEF IInv, LogInv, RequestsOK, RequestOK
  <1>2. Head(todo[r]) \in Emitted /\ Head(todo[r]) \in EventId
    BY <1>1, HeadOK
  <1> QED
    BY <1>1, <1>2, EmittedType DEF Current, LogInv, LoggedOK, TypeOK

\* The steps of a handler that do not touch its record.
LEMMA ApplyLog ==
  ASSUME IInv, IInv', LogInv, NEW r \in Req,
         \/ ApplyStatus(r) \/ ApplyFails(r) \/ FindSubscription(r)
         \/ UpsertInvoice(r) \/ SetPastDue(r)
  PROVE LogInv'
  <1>0. /\ Kept(r) /\ pc[r] \in {"apply", "invoice", "pastDue"}
        /\ UNCHANGED <<emitted, record, todo>> /\ pc \in [Req -> Control]
    BY StepKept
    DEF IInv, TypeOK, RequestTypeOK, Step, ApplyStatus, ApplyFails, FindSubscription,
        UpsertInvoice, SetPastDue, Goto, database, gateway
  <1>1. PICK e \in Emitted : e = Head(todo[r])
    BY <1>0, HeadFacts DEF Applying
  <1>2. /\ Current(r) = emitted[e] /\ Head(todo'[r]) = e /\ emitted'[e] = emitted[e]
        /\ pc[r] \in {"apply", "invoice"} => Untouched(e)
        /\ pc[r] = "invoice" => emitted[e].type \in InvoiceTypes
        /\ pc[r] = "pastDue" => e \in billed \ settled
        /\ emitted[e].type = "invoice.paid" => emitted[e].status = None
    BY <1>0, <1>1, HeadFacts DEF Applying, HandlerOK
  <1>3. LoggedOK'
    BY <1>0 DEF LogInv, LoggedOK, Emitted
  <1>4. LogFrame(r) /\ HandlerOK(r)'
    <2>1. CASE ApplyStatus(r)
      <3>1. /\ pc[r] = "apply" /\ pc'[r] = "processed" /\ settled' = settled \cup {e}
            /\ UNCHANGED billed /\ emitted[e].type \notin InvoiceTypes
        BY <1>0, <1>1, <1>2, <2>1 DEF ApplyStatus, Goto, WriteStatus, handled
      <3> QED
        BY <1>0, <1>1, <1>2, <3>1 DEF LogFrame, HandlerOK, WritesDone
    <2>2. CASE ApplyFails(r)
      <3>1. pc'[r] = "failed" /\ pc[r] = "apply" /\ UNCHANGED <<settled, billed>>
        BY <1>0, <2>2 DEF ApplyFails, Goto, handled
      <3> QED
        BY <1>0, <1>1, <1>2, <3>1 DEF LogFrame, HandlerOK, CutShort, Untouched
    <2>3. CASE FindSubscription(r)
      <3>1. /\ pc[r] = "apply" /\ pc'[r] = "invoice" /\ UNCHANGED <<settled, billed>>
            /\ emitted[e].type \in InvoiceTypes
        BY <1>0, <1>1, <1>2, <2>3 DEF FindSubscription, Goto, handled
      <3>2. Current(r)' = emitted[e]
        BY <1>0, <1>1 DEF Current
      <3> QED
        BY <1>0, <1>1, <1>2, <3>1, <3>2 DEF LogFrame, HandlerOK, Untouched
    <2>4. CASE UpsertInvoice(r)
      <3>1. /\ pc[r] = "invoice" /\ pc'[r] = AfterInvoice(emitted[e]) /\ UNCHANGED settled
            /\ billed' = billed \cup {e}
        BY <1>0, <1>1, <1>2, <2>4 DEF UpsertInvoice, Goto
      <3>2. pc'[r] \in {"pastDue", "processed"}
        BY <3>1 DEF AfterInvoice
      <3>3. pc'[r] = "processed" => WritesDone(e)'
        BY <1>2, <3>1 DEF AfterInvoice, WritesDone, InvoiceTypes
      <3> QED
        BY <1>0, <1>1, <1>2, <3>1, <3>2, <3>3 DEF LogFrame, HandlerOK, WritesDone, Untouched
    <2>5. CASE SetPastDue(r)
      <3>1. /\ pc[r] = "pastDue" /\ pc'[r] = "processed" /\ settled' = settled \cup {e}
            /\ UNCHANGED billed
        BY <1>0, <1>1, <2>5 DEF SetPastDue, Goto, WriteStatus, handled
      <3> QED
        BY <1>0, <1>1, <1>2, <3>1 DEF LogFrame, HandlerOK, WritesDone
    <2> QED
      BY <2>1, <2>2, <2>3, <2>4, <2>5
  <1> QED
    BY <1>3, <1>4, LogKeeps

\* The record of an event, and what its handler made of it.
LEMMA RecordLog ==
  ASSUME IInv, IInv', LogInv, NEW r \in Req,
         RecordEvent(r) \/ MarkProcessed(r) \/ MarkFailed(r)
  PROVE LogInv'
  <1>0. /\ Kept(r) /\ UNCHANGED <<emitted, settled, billed>>
        /\ pc[r] \in {"record", "processed", "failed"}
        /\ pc'[r] \in {"apply", "record", "idle"}
        /\ pc'[r] = "apply" => record[Head(todo[r])] = "none" /\ UNCHANGED todo
    BY StepKept
    DEF IInv, TypeOK, RequestTypeOK, Step, RecordEvent, Duplicate, MarkProcessed, MarkFailed,
        Goto, NextEvent, Finish, gateway, handled
  <1>1. Head(todo[r]) \in Emitted
    BY <1>0, HeadFacts DEF Applying
  <1>2. record \in [EventId -> {"none", "RECEIVED", "PROCESSED", "FAILED"}]
    BY DEF IInv, TypeOK, DataTypeOK
  <1>3. \A e \in EventId :
          \/ record'[e] = record[e]
          \/ /\ e = Head(todo[r])
             /\ \/ record'[e] = "RECEIVED"
                \/ pc[r] = "processed" /\ record'[e] = "PROCESSED"
                \/ pc[r] = "failed" /\ record'[e] = "FAILED"
    BY <1>2 DEF RecordEvent, MarkProcessed, MarkFailed
  <1>4. LoggedOK'
    BY <1>0, <1>1, <1>3 DEF LogInv, LoggedOK, Emitted
  <1>5. LogFrame(r)
    BY <1>0, <1>3 DEF LogFrame
  <1>6. HandlerOK(r)'
    BY <1>0, <1>1 DEF HandlerOK, LogInv, RecordTellsTruth, Untouched
  <1> QED
    BY <1>4, <1>5, <1>6, LogKeeps

LEMMA RejectsLog ==
  ASSUME IInv, IInv', LogInv, NEW r \in Req, Rejects(r)
  PROVE LogInv'
  <1>0. /\ Kept(r) /\ UNCHANGED <<emitted, record, settled, billed>> /\ pc \in [Req -> Control]
    BY StepKept
    DEF IInv, TypeOK, RequestTypeOK, Rejects, HandlerRejects, RequestRejects, database, gateway,
        handled
  <1>1. CASE HandlerRejects(r)
    <2>1. /\ pc[r] \in Tried /\ pc'[r] = "failed" /\ UNCHANGED todo
          /\ <<Head(todo[r]), pc[r]>> \in rejected'
      BY <1>0, <1>1 DEF HandlerRejects
    <2>2. HandlerOK(r)
      BY DEF LogInv
    <2>3. CutShort(Head(todo[r]))'
      BY <1>0, <2>1, <2>2 DEF CutShort, HandlerOK, Untouched, Tried
    <2>4. HandlerOK(r)'
      BY <2>1, <2>3 DEF HandlerOK, CutShort
    <2>5. LoggedOK' /\ LogFrame(r)
      BY <1>0 DEF LogInv, LoggedOK, Emitted, LogFrame
    <2> QED
      BY <2>4, <2>5, LogKeeps
  <1>2. CASE RequestRejects(r)
    <2>1. pc'[r] \notin Applying
      BY <1>0, <1>2 DEF RequestRejects, Finish, Applying
    <2> QED
      BY <1>0, <2>1, QuietLog
  <1> QED
    BY <1>1, <1>2 DEF Rejects

LEMMA StepLog ==
  ASSUME IInv, IInv', LogInv, NEW r \in Req, Begin(r) \/ Step(r)
  PROVE LogInv'
  <1>0. Kept(r) /\ pc \in [Req -> Control]
    BY StepKept DEF IInv, TypeOK, RequestTypeOK
  <1>1. CASE \/ Begin(r) \/ CheckExisting(r) \/ ReadUser(r) \/ SaveCustomer(r)
             \/ InsertRow(r) \/ Drain(r) \/ DeletePlan(r)
    <2>1. UNCHANGED <<emitted, record, settled, billed>>
      BY <1>1
      DEF CheckExisting, ReadUser, SaveCustomer, InsertRow, Drain, DeletePlan, Begin,
          BeginCheckout, BeginCancel, Webhook, BeginRemovePlan, database, gateway, handled
    <2>2. pc'[r] \notin Applying
      BY <1>0, <1>1
      DEF CheckExisting, ReadUser, SaveCustomer, InsertRow, Drain, DeletePlan, Begin,
          BeginCheckout, BeginCancel, Webhook, BeginRemovePlan, Goto, Finish, Applying
    <2> QED
      BY <1>0, <2>1, <2>2, QuietLog
  <1>2. CASE \/ CreateSubscription(r) \/ CancelSubscription(r) \/ RecordEvent(r)
             \/ ApplyStatus(r) \/ FindSubscription(r) \/ ApplyFails(r) \/ UpsertInvoice(r)
             \/ SetPastDue(r) \/ MarkProcessed(r) \/ MarkFailed(r)
    BY <1>2, CreateSubscriptionLog, CancelSubscriptionLog, RecordLog, ApplyLog, Zenon
  <1> QED
    BY <1>1, <1>2, Zenon DEF Step

LEMMA ProviderLog ==
  ASSUME IInv, IInv', LogInv, NEW s \in Sub, ProviderEmits(s)
  PROVE LogInv'
  <1>0. /\ Grows /\ emitted \in Seq(Event) /\ TypeOK /\ Recorded
        /\ UNCHANGED <<record, settled, billed, rejected, pc, todo>>
    BY ProviderEmitsInv DEF IInv, TypeOK, DataTypeOK, ProviderEmits, database, request, handled
  <1>1. PICK ev : emitted' = Append(emitted, ev) /\ (ev.type = "invoice.paid" => ev.status = None)
    <2> DEFINE event(type, status, inv) ==
                 [type |-> type, sub |-> s, status |-> status, inv |-> inv, http |-> TRUE]
               invoices ==
                 {0, Len(emitted) + 1} \cup {emitted[j].inv : j \in Announcements(s)}
    <2>1. PICK ev :
            /\ emitted' = Append(emitted, ev)
            /\ \/ ev = event("subscription.updated", "ACTIVE", 0)
               \/ ev = event("subscription.updated", "PAST_DUE", 0)
               \/ ev = event("subscription.canceled", "CANCELED", 0)
               \/ \E i \in invoices : \/ ev = event("invoice.paid", None, i)
                                      \/ ev = event("invoice.payment_failed", "PAST_DUE", i)
      BY DEF ProviderEmits
    <2>2. ev.type = "invoice.paid" => ev.status = None
      BY <2>1
    <2> QED
      BY <2>1, <2>2
  <1>2. \A e \in Emitted' \ Emitted : emitted'[e] = ev
    BY <1>0, <1>1 DEF Emitted
  <1>3. LoggedOK'
    BY <1>0, <1>1, <1>2, EmitLogged
  <1>4. \A e \in Emitted : emitted'[e] = emitted[e]
    BY <1>0 DEF Grows
  <1>5. RecordTellsTruth'
    <2> SUFFICES ASSUME NEW e \in Emitted'
                 PROVE /\ record[e] = "PROCESSED" => WritesDone(e)'
                       /\ record[e] = "none" => Untouched(e)
                       /\ record[e] = "FAILED" => CutShort(e)
      BY <1>0 DEF RecordTellsTruth, WritesDone, Untouched, CutShort
    <2>1. e \in EventId
      BY SubscriptionsAssumption DEF IInv, TypeOK, DataTypeOK, Emitted, EventId
    <2>2. CASE e \in Emitted
      BY <1>0, <1>4, <2>2 DEF LogInv, RecordTellsTruth, WritesDone, Untouched, CutShort
    <2>3. CASE e \notin Emitted
      BY <1>0, <2>1, <2>3 DEF LogInv, LoggedOK, Recorded, Untouched
    <2> QED
      BY <2>2, <2>3
  <1>6. ASSUME NEW r \in Req PROVE HandlerOK(r)'
    <2>1. CASE pc[r] \in Applying
      <3>1. Head(todo[r]) \in Emitted /\ HandlerOK(r)
        BY <2>1, HeadFacts
      <3> QED
        BY <1>0, <1>4, <3>1 DEF HandlerOK, Current, WritesDone, Untouched, CutShort
    <2>2. CASE pc[r] \notin Applying
      BY <1>0, <2>2 DEF HandlerOK, Applying
    <2> QED
      BY <2>1, <2>2
  <1>7. \A e \in billed' : e \in Emitted' /\ record'[e] # "none"
    BY <1>0 DEF LogInv, Grows
  <1> QED
    BY <1>3, <1>5, <1>6, <1>7 DEF LogInv

LEMMA NextLog ==
  ASSUME IInv, IInv', LogInv, [Next]_vars
  PROVE LogInv'
  <1>1. ASSUME NEW r \in Req, Begin(r) \/ Step(r) PROVE LogInv'
    BY <1>1, StepLog
  <1>2. ASSUME NEW s \in Sub, ProviderEmits(s) PROVE LogInv'
    BY <1>2, ProviderLog
  <1>3. CASE \/ \E p \in Edited : CreatePlan(p) \/ UpdatePlan(p)
             \/ \E s \in Sub : PeriodEnds(s)
             \/ UNCHANGED vars
    <2>1. UNCHANGED <<emitted, record, settled, billed, rejected, pc, todo>>
      BY <1>3
      DEF CreatePlan, UpdatePlan, PeriodEnds, vars, database, gateway, request, handled
    <2> QED
      BY <2>1
      DEF LogInv, LoggedOK, RecordTellsTruth, HandlerOK, Emitted, WritesDone, Untouched,
          CutShort, Current
  <1>4. CASE Crash
    <2>1. /\ UNCHANGED <<emitted, record, settled, billed, rejected>>
          /\ \A r \in Req : pc'[r] = "idle"
      BY <1>4 DEF Crash, database, handled
    <2> QED
      BY <2>1 DEF LogInv, LoggedOK, RecordTellsTruth, HandlerOK, Emitted
  <1>5. ASSUME NEW r \in Req, Rejects(r) PROVE LogInv'
    BY <1>5, RejectsLog
  <1> QED
    BY <1>1, <1>2, <1>3, <1>4, <1>5 DEF Next, Environment

\* The log of webhook events is believable, for any number of deliveries,
\* handlers, restarts and rejected statements: PROCESSED only once all of the
\* event's writes are in the database; FAILED with a write only when a later
\* statement of its handler rejected.
THEOREM LogIsTrue == Spec => []RecordTellsTruth
  <1>1. Init => LogInv
    BY DEF Init, LogInv, LoggedOK, RecordTellsTruth, HandlerOK, Emitted
  <1>2. IInv /\ IInv' /\ LogInv /\ [Next]_vars => LogInv'
    BY NextLog
  <1>3. LogInv => RecordTellsTruth
    BY DEF LogInv
  <1> QED
    BY <1>1, <1>2, <1>3, Invariant, PTL DEF Spec

-----------------------------------------------------------------------------
(* The plan a checkout names.                                               *)

LEMMA StepPlan ==
  ASSUME IInv, PlanInv, NEW r \in Req, Begin(r) \/ Step(r) \/ Rejects(r)
  PROVE PlanInv'
  <1>0. Others(r) /\ BuysPlan(r) /\ RequestTypeOK
    BY StepKept DEF IInv, TypeOK, Kept, PlanInv
  <1>1. ASSUME BuysPlan(r)' PROVE PlanInv'
    BY <1>0, <1>1 DEF PlanInv, BuysPlan, Others
  <1>2. ASSUME NEW u \in User, NEW p \in Plan, BeginCheckout(r, u, p) PROVE PlanInv'
    <2>1. arg' = [arg EXCEPT ![r] = [[arg[r] EXCEPT !.user = u] EXCEPT !.plan = p]]
      BY <1>0, <1>2 DEF BeginCheckout, RequestTypeOK
    <2>2. PICK a : a = arg[r]
      OBVIOUS
    <2>3. a \in [user : User \cup {None}, plan : Plan \cup {None}, sub : Sub \cup {0}]
      BY <1>0, <2>2 DEF RequestTypeOK
    <2>4. arg'[r] = [[a EXCEPT !.user = u] EXCEPT !.plan = p]
      BY <1>0, <2>1, <2>2 DEF RequestTypeOK
    <2>5. arg'[r].plan = p
      BY <2>3, <2>4
    <2> QED
      BY <1>1, <2>5 DEF BuysPlan
  <1>3. ASSUME CheckExisting(r) \/ ReadUser(r) \/ SaveCustomer(r) PROVE PlanInv'
    <2>1. pc[r] \in Buying /\ (pc'[r] = "idle" \/ arg'[r] = arg[r])
      BY <1>0, <1>3 DEF CheckExisting, ReadUser, SaveCustomer, Goto, Finish, Buying, RequestTypeOK
    <2> QED
      BY <1>0, <1>1, <2>1 DEF BuysPlan, Buying
  <1>4. ASSUME CreateSubscription(r) PROVE PlanInv'
    <2>1. /\ pc[r] = "createSubscription"
          /\ arg' = [arg EXCEPT ![r] = [arg[r] EXCEPT !.sub = Len(emitted) + 1]]
      BY <1>0, <1>4 DEF CreateSubscription, Goto, RequestTypeOK
    <2>2. PICK a : a = arg[r]
      OBVIOUS
    <2>3. a \in [user : User \cup {None}, plan : Plan \cup {None}, sub : Sub \cup {0}]
      BY <1>0, <2>2 DEF RequestTypeOK
    <2>4. arg'[r] = [a EXCEPT !.sub = Len(emitted) + 1]
      BY <1>0, <2>1, <2>2 DEF RequestTypeOK
    <2>5. arg'[r].plan = arg[r].plan
      BY <2>2, <2>3, <2>4
    <2> QED
      BY <1>0, <1>1, <2>1, <2>5 DEF BuysPlan, Buying
  <1>5. ASSUME \/ \E u \in User : BeginCancel(r, u)
               \/ \E e \in Emitted : Webhook(r, e)
               \/ \E p \in Edited : BeginRemovePlan(r, p)
               \/ InsertRow(r) \/ CancelSubscription(r) \/ Drain(r) \/ RecordEvent(r)
               \/ ApplyStatus(r) \/ FindSubscription(r) \/ ApplyFails(r) \/ UpsertInvoice(r)
               \/ SetPastDue(r) \/ MarkProcessed(r) \/ MarkFailed(r) \/ DeletePlan(r)
               \/ Rejects(r)
        PROVE PlanInv'
    <2>1. pc'[r] \notin Buying
      BY <1>0, <1>5
      DEF BeginCancel, Webhook, BeginRemovePlan, InsertRow, CancelSubscription, Drain,
          RecordEvent, ApplyStatus, FindSubscription, ApplyFails, UpsertInvoice, AfterInvoice,
          SetPastDue, MarkProcessed, MarkFailed, DeletePlan, Rejects, HandlerRejects,
          RequestRejects, NextEvent, Goto, Finish, Buying, RequestTypeOK
    <2> QED
      BY <1>1, <2>1 DEF BuysPlan
  <1> QED
    BY <1>2, <1>3, <1>4, <1>5, Zenon DEF Begin, Step

LEMMA NextPlan ==
  ASSUME IInv, PlanInv, [Next]_vars
  PROVE PlanInv'
  <1>1. ASSUME NEW r \in Req, Begin(r) \/ Step(r) \/ Rejects(r) PROVE PlanInv'
    BY <1>1, StepPlan
  <1>2. ASSUME \/ \E p \in Edited : CreatePlan(p) \/ UpdatePlan(p)
               \/ \E s \in Sub : PeriodEnds(s) \/ ProviderEmits(s)
               \/ UNCHANGED vars
        PROVE PlanInv'
    <2>1. UNCHANGED <<pc, arg>>
      BY <1>2 DEF CreatePlan, UpdatePlan, PeriodEnds, ProviderEmits, vars, request
    <2> QED
      BY <2>1 DEF PlanInv, BuysPlan
  <1>3. ASSUME Crash PROVE PlanInv'
    BY <1>3 DEF Crash, PlanInv, BuysPlan, Buying
  <1> QED
    BY <1>1, <1>2, <1>3 DEF Next, Environment

-----------------------------------------------------------------------------
(* Cancellations.                                                           *)

LEMMA StepFinal ==
  ASSUME IInv, FinalInv, NEW r \in Req, Begin(r) \/ Step(r) \/ Rejects(r)
  PROVE FinalInv'
  <1>0. /\ Kept(r) /\ Others(r) /\ Grows /\ settled \subseteq settled'
        /\ RequestTypeOK /\ StatusFromEvents /\ Recorded /\ emitted \in Seq(Event)
        /\ AnswersOK /\ \A q \in Req : CancelsActive(q)
    BY StepKept DEF IInv, TypeOK, DataTypeOK, Kept, FinalInv
  <1>1. ASSUME CancelsActive(r)',
               \A e \in Emitted' \ Emitted :
                 /\ emitted'[e].status \in Active => e = emitted'[e].sub
                 /\ emitted'[e].status = "CANCELED" => emitted'[e].sub \in settled
                 /\ emitted'[e].status \in Active \cup {"CANCELED", None}
        PROVE FinalInv'
    <2>1. AnswersOK'
      BY <1>0, <1>1 DEF AnswersOK, Grows
    <2>2. ASSUME NEW q \in Req PROVE CancelsActive(q)'
      BY <1>0, <1>1 DEF Others, CancelsActive
    <2> QED
      BY <2>1, <2>2 DEF FinalInv
  <1>2. CASE CreateSubscription(r)
    <2> DEFINE n == Len(emitted)
               events == Announced(arg[r].plan)
    <2>1. n \in Nat /\ emitted' = emitted \o events /\ pc'[r] = "insertRow"
      BY <1>0, <1>2 DEF CreateSubscription, Emit, Goto, RequestTypeOK
    <2>2. /\ Len(events) \in 1 .. 2
          /\ events[1].sub = n + 1 /\ events[1].status \in Active
          /\ Len(events) = 2 => events[2].status = None
      BY DEF Announced, Active
    <2> HIDE DEF events
    <2>3. \A e \in Emitted' \ Emitted :
            \/ e = n + 1 /\ emitted'[e] = events[1]
            \/ e = n + 2 /\ emitted'[e] = events[2] /\ Len(events) = 2
      <3> SUFFICES ASSUME NEW e \in Emitted' \ Emitted
                   PROVE \/ e = n + 1 /\ emitted'[e] = events[1]
                         \/ e = n + 2 /\ emitted'[e] = events[2] /\ Len(events) = 2
        OBVIOUS
      <3>1. e \in Int /\ e > n /\ e <= n + Len(events)
        BY <1>0, <2>1, <2>2 DEF Emitted
      <3>4. emitted'[e] = events[e - n]
        BY <1>0, <2>1, <2>2, <3>1
      <3>2. e = n + 1 \/ (e = n + 2 /\ Len(events) = 2)
        BY <2>1, <2>2, <3>1
      <3> QED
        BY <2>1, <3>1, <3>2, <3>4
    <2>4. \A st \in Active \cup {None} : st # "CANCELED"
      BY SubscriptionsAssumption DEF Active
    <2>5. None \notin Active
      BY SubscriptionsAssumption DEF Active
    <2> HIDE DEF n
    <2>6. \A e \in Emitted' \ Emitted :
                 /\ emitted'[e].status \in Active => e = emitted'[e].sub
                 /\ emitted'[e].status = "CANCELED" => emitted'[e].sub \in settled
                 /\ emitted'[e].status \in Active \cup {"CANCELED", None}
      BY <2>2, <2>3, <2>4, <2>5
    <2>7. CancelsActive(r)'
      BY <2>1 DEF CancelsActive
    <2> QED
      BY <1>1, <2>6, <2>7
  <1>3. CASE CancelSubscription(r)
    <2> DEFINE ev == [type |-> "subscription.canceled", sub |-> arg[r].sub, inv |-> 0,
                      http |-> ~Simulated, status |-> "CANCELED"]
    <2>1. /\ emitted' = emitted \o <<ev>> /\ pc'[r] = "drain"
          /\ ev.status = "CANCELED" /\ ev.sub = arg[r].sub /\ arg[r].sub \in settled
      BY <1>0, <1>3 DEF CancelSubscription, Emit, Goto, RequestTypeOK, CancelsActive
    <2> HIDE DEF ev
    <2>2. \A e \in Emitted' \ Emitted : emitted'[e] = ev
      BY <1>0, <2>1 DEF Emitted
    <2>3. "CANCELED" \notin Active
      BY DEF Active
    <2>4. CancelsActive(r)'
      BY <2>1 DEF CancelsActive
    <2> QED
      BY <1>1, <2>1, <2>2, <2>3, <2>4
  <1>4. ASSUME NEW u \in User, BeginCancel(r, u) PROVE FinalInv'
    <2>1. PICK s \in Sub : row[s].status \in OpenStatuses /\
                           arg' = [arg EXCEPT ![r] = [[arg[r] EXCEPT !.user = u] EXCEPT !.sub = s]]
      BY <1>0, <1>4 DEF BeginCancel, Newest, RowsOf, RequestTypeOK
    <2>2. PICK e \in settled : emitted[e].sub = s /\ emitted[e].status = row[s].status
      BY <1>0, <2>1 DEF StatusFromEvents, OpenStatuses, Active
    <2>3. e \in Emitted /\ emitted[e].status \in Active
      BY <1>0, <2>1, <2>2, SubscriptionsAssumption DEF Recorded, AnswersOK, OpenStatuses
    <2>4. s \in settled
      BY <1>0, <2>2, <2>3 DEF AnswersOK
    <2>5. PICK a : a = arg[r]
      OBVIOUS
    <2>6. a \in [user : User \cup {None}, plan : Plan \cup {None}, sub : Sub \cup {0}]
      BY <1>0, <2>5 DEF RequestTypeOK
    <2>7. arg'[r] = [[a EXCEPT !.user = u] EXCEPT !.sub = s]
      BY <1>0, <2>1, <2>5 DEF RequestTypeOK
    <2>8. arg'[r].sub = s
      BY <2>6, <2>7
    <2>9. UNCHANGED <<emitted, settled>>
      BY <1>4 DEF BeginCancel, gateway
    <2> QED
      BY <1>1, <2>4, <2>8, <2>9 DEF CancelsActive, Emitted
  <1>5. ASSUME \/ \E u \in User, p \in Plan : BeginCheckout(r, u, p)
               \/ \E e \in Emitted : Webhook(r, e)
               \/ \E p \in Edited : BeginRemovePlan(r, p)
               \/ CheckExisting(r) \/ ReadUser(r) \/ SaveCustomer(r) \/ InsertRow(r)
               \/ Drain(r) \/ RecordEvent(r) \/ ApplyStatus(r) \/ FindSubscription(r)
               \/ ApplyFails(r) \/ UpsertInvoice(r) \/ SetPastDue(r) \/ MarkProcessed(r)
               \/ MarkFailed(r) \/ DeletePlan(r) \/ Rejects(r)
        PROVE FinalInv'
    <2>1. UNCHANGED emitted
      BY <1>5
      DEF BeginCheckout, Webhook, BeginRemovePlan, CheckExisting, ReadUser, SaveCustomer,
          InsertRow, Drain, RecordEvent, ApplyStatus, FindSubscription, ApplyFails,
          UpsertInvoice, SetPastDue, MarkProcessed, MarkFailed, DeletePlan, Rejects,
          HandlerRejects, RequestRejects, gateway
    <2>2. pc'[r] # "cancelSubscription"
      BY <1>0, <1>5
      DEF BeginCheckout, Webhook, BeginRemovePlan, CheckExisting, ReadUser, SaveCustomer,
          InsertRow, Drain, RecordEvent, ApplyStatus, FindSubscription, ApplyFails,
          UpsertInvoice, AfterInvoice, SetPastDue, MarkProcessed, MarkFailed, DeletePlan,
          Rejects, HandlerRejects, RequestRejects, NextEvent, Goto, Finish, RequestTypeOK
    <2> QED
      BY <1>1, <2>1, <2>2 DEF CancelsActive, Emitted
  <1> QED
    BY <1>2, <1>3, <1>4, <1>5, Zenon DEF Begin, Step

LEMMA NextFinal ==
  ASSUME IInv, FinalInv, ~ProviderActs, [Next]_vars
  PROVE FinalInv'
  <1>1. ASSUME NEW r \in Req, Begin(r) \/ Step(r) \/ Rejects(r) PROVE FinalInv'
    BY <1>1, StepFinal
  <1>2. ASSUME \/ \E p \in Edited : CreatePlan(p) \/ UpdatePlan(p)
               \/ \E s \in Sub : PeriodEnds(s)
               \/ UNCHANGED vars
        PROVE FinalInv'
    <2>1. UNCHANGED <<emitted, settled, pc, arg>>
      BY <1>2 DEF CreatePlan, UpdatePlan, PeriodEnds, vars, gateway, request
    <2> QED
      BY <2>1 DEF FinalInv, AnswersOK, CancelsActive, Emitted
  <1>3. ASSUME Crash PROVE FinalInv'
    <2>1. UNCHANGED <<emitted, settled>> /\ \A r \in Req : pc'[r] = "idle"
      BY <1>3 DEF Crash
    <2> QED
      BY <2>1 DEF FinalInv, AnswersOK, CancelsActive, Emitted
  <1> QED
    BY <1>1, <1>2, <1>3 DEF Next, Environment, ProviderEmits

\* The event that would revive a subscription was applied before the
\* cancellation was even asked for.
LEMMA CanceledStays ==
  ASSUME IInv, FinalInv, [Next]_vars, NEW s \in Sub, row[s].status = "CANCELED"
  PROVE row'[s].status = "CANCELED"
  <1>0. /\ TypeOK /\ row \in [Sub -> Row] /\ StatusFromEvents /\ Recorded /\ AnswersOK
        /\ EventsOK
        /\ \A r \in Req : RequestOK(r)
    BY DEF IInv, TypeOK, DataTypeOK, RequestsOK, FinalInv
  <1>1. PICK c \in settled : emitted[c].sub = s /\ emitted[c].status = "CANCELED"
    BY <1>0 DEF StatusFromEvents
  <1>2. s \in settled /\ Present(s)
    BY <1>0, <1>1 DEF Recorded, AnswersOK, Present
  <1>3. ASSUME NEW r \in Req, InsertRow(r) PROVE row'[s].status = "CANCELED"
    <2>1. arg[r].sub # s
      BY <1>0, <1>2, <1>3 DEF InsertRow, RequestOK
    <2> QED
      BY <1>0, <1>3, <2>1 DEF InsertRow
  <1>4. ASSUME NEW r \in Req, ApplyStatus(r) PROVE row'[s].status = "CANCELED"
    <2>1. PICK e \in Emitted : e = Head(todo[r]) /\ e \notin settled
      BY <1>0, <1>4, HeadOK DEF RequestOK, ApplyStatus, Applying
    <2>2. PICK ev \in Event : ev = emitted[e] /\ ev = Current(r)
      BY <1>0, <2>1, EmittedType DEF Current, TypeOK
    <2>3. ev.sub = s => ev.status = "CANCELED"
      <3>1. ev.status \in Active \cup {"CANCELED"}
        BY <1>0, <1>4, <2>1, <2>2 DEF EventsOK, AnswersOK, ApplyStatus
      <3>2. ev.sub = s => ev.status \notin Active
        BY <1>0, <1>2, <2>1, <2>2 DEF AnswersOK
      <3> QED
        BY <3>1, <3>2
    <2>4. PICK x, per : x \in Row /\ x = row[ev.sub] /\
            row' = [row EXCEPT ![ev.sub] = [[x EXCEPT !.status = ev.status] EXCEPT !.period = per]]
      BY <1>0, <1>4, <2>2 DEF ApplyStatus, WriteStatus, Event
    <2>5. [[x EXCEPT !.status = ev.status] EXCEPT !.period = per].status = ev.status
      BY <2>4 DEF Row
    <2> QED
      BY <1>0, <2>3, <2>4, <2>5
  <1>5. ASSUME NEW r \in Req, SetPastDue(r) PROVE row'[s].status = "CANCELED"
    <2>1. PICK e \in Emitted : e = Head(todo[r])
      BY <1>0, <1>5, HeadOK DEF RequestOK, SetPastDue, Goto, Applying
    <2> QED
      BY <1>0, <1>5, <2>1, SubscriptionsAssumption
      DEF SetPastDue, Goto, RequestOK, EventsOK, AnswersOK, Current, Active
  <1>6. ASSUME NEW t \in Sub, PeriodEnds(t) PROVE row'[s].status = "CANCELED"
    <2>1. PICK x \in Row : x = row[t] /\ row' = [row EXCEPT ![t] = [x EXCEPT !.period = "over"]]
      BY <1>0, <1>6 DEF PeriodEnds
    <2>2. [x EXCEPT !.period = "over"].status = x.status
      BY <2>1 DEF Row
    <2> QED
      BY <1>0, <2>1, <2>2
  <1>7. ASSUME UNCHANGED row PROVE row'[s].status = "CANCELED"
    BY <1>7
  <1>8. ASSUME NEW r \in Req, Begin(r) PROVE UNCHANGED row
    BY <1>8
    DEF Begin, BeginCheckout, BeginCancel, Webhook, BeginRemovePlan, database
  <1>9. ASSUME NEW r \in Req, Step(r), ~InsertRow(r), ~ApplyStatus(r), ~SetPastDue(r)
        PROVE UNCHANGED row
    BY <1>9
    DEF Step, CheckExisting, ReadUser, SaveCustomer, CreateSubscription,
        CancelSubscription, Drain, RecordEvent, FindSubscription, ApplyFails,
        UpsertInvoice, MarkProcessed, MarkFailed, DeletePlan, database
  <1>10. ASSUME \/ \E p \in Edited : CreatePlan(p) \/ UpdatePlan(p)
                \/ \E t \in Sub : ProviderEmits(t)
                \/ \E r \in Req : Rejects(r)
                \/ Crash \/ UNCHANGED vars
         PROVE UNCHANGED row
    BY <1>10
    DEF CreatePlan, UpdatePlan, ProviderEmits, Rejects, HandlerRejects, RequestRejects, Crash,
        vars, database
  <1> QED
    BY <1>3, <1>4, <1>5, <1>6, <1>7, <1>8, <1>9, <1>10 DEF Next, Environment

\* Unless the provider acts on its own, a canceled subscription is never
\* revived, in whatever order the events are applied, for both gateways and
\* across restarts: only an open subscription is canceled, and the one event
\* that activates it has been applied by then.
THEOREM CanceledForGood == ~ProviderActs => (Spec => CanceledIsFinal)
  <1> SUFFICES ASSUME ~ProviderActs PROVE Spec => CanceledIsFinal
    OBVIOUS
  <1>1. Init => FinalInv
    BY DEF Init, FinalInv, AnswersOK, CancelsActive, Emitted
  <1>2. IInv /\ FinalInv /\ [Next]_vars => FinalInv'
    BY NextFinal
  <1>3. IInv /\ FinalInv /\ [Next]_vars =>
          [\A s \in Sub : row[s].status = "CANCELED" => row'[s].status = "CANCELED"]_vars
    BY CanceledStays
  <1> QED
    BY <1>1, <1>2, <1>3, Invariant, PTL DEF Spec, CanceledIsFinal

-----------------------------------------------------------------------------
(* One request at a time.                                                   *)

\* What holds already, when requests do not overlap and none is cut short.
Ground ==
  /\ IInv /\ IInv' /\ LogInv /\ PlanInv /\ AnswersOK
  /\ OneByOne /\ Simulated /\ ~ProviderActs /\ MaxFaults = 0

\* No row becomes active, and none changes hands while it is.
Calm ==
  \A s \in Sub : row'[s].status \in Active =>
    row[s].status \in Active /\ row'[s].user = row[s].user

LEMMA CalmKeeps ==
  ASSUME Calm
  PROVE /\ OneActive => OneActive'
        /\ \A r \in Req : Clear(r) /\ arg'[r].user = arg[r].user => Clear(r)'
  BY DEF Calm, OneActive, Clear

LEMMA NothingActivating ==
  ASSUME NEW r \in Req, Turn(r), pc[r] \notin {"insertRow", "drain", "record", "apply"},
         NEW e \in Emitted
  PROVE ~Activating(e)
  BY DEF Turn, Holds

\* Without a new event, what is not applied yet was not before.
LEMMA ActivatingBefore ==
  ASSUME Grows, settled \subseteq settled', NEW e \in Emitted
  PROVE Activating(e)' => Activating(e)
  BY DEF Activating, Grows

\* A step of r that makes no customer.
LEMMA SeqKeeps ==
  ASSUME Ground, SeqInv, NEW r \in Req, Turn(r)', OneActive',
         UNCHANGED <<nCustomer, customer>>, pc[r] # "saveCustomer"
  PROVE SeqInv'
  <1>1. CustomersOK'
    BY DEF Ground, OneByOne, SeqInv, CustomersOK
  <1> QED
    BY <1>1 DEF Ground, OneByOne, SeqInv

\* A step of r that announces nothing, with nothing to be activated after it.
LEMMA IdleTurn ==
  ASSUME Ground, SeqInv, NEW r \in Req, UNCHANGED <<emitted, pending>>,
         pc[r] \notin {"insertRow", "drain"}, pc'[r] \notin {"insertRow", "drain"},
         pc'[r] \in Buying => planStatus'[arg'[r].plan] # "deleted",
         pc'[r] \in {"user", "saveCustomer", "createSubscription"} => Clear(r)',
         \A e \in Emitted : ~Activating(e)'
  PROVE Turn(r)'
  <1>1. pending = <<>>
    BY DEF SeqInv, Turn
  <1> QED
    BY <1>1 DEF Turn, Emitted

LEMMA SeqBegin ==
  ASSUME Ground, SeqInv, NEW r \in Req, Begin(r)
  PROVE SeqInv'
  <1>0. /\ RequestTypeOK /\ Turn(r) /\ OneActive
        /\ UNCHANGED <<emitted, pending, row, nCustomer, customer, settled, planStatus>>
        /\ pc[r] = "idle"
    BY DEF Ground, IInv, TypeOK, SeqInv, Begin, BeginCheckout, BeginCancel, Webhook,
           BeginRemovePlan, Goto, database, gateway
  <1>1. \A e \in Emitted : ~Activating(e)'
    BY <1>0, NothingActivating DEF Activating
  <1>2. CASE \E u \in User, p \in Plan : BeginCheckout(r, u, p)
    <2>1. PICK u \in User, p \in Plan : BeginCheckout(r, u, p)
      BY <1>2
    <2>2. PICK a : a = arg[r]
      OBVIOUS
    <2>3. a \in [user : User \cup {None}, plan : Plan \cup {None}, sub : Sub \cup {0}]
      BY <1>0, <2>2 DEF RequestTypeOK
    <2>4. /\ arg'[r] = [[a EXCEPT !.user = u] EXCEPT !.plan = p]
          /\ pc'[r] = "existing" /\ planStatus[p] = "PUBLISHED"
      BY <1>0, <2>1, <2>2 DEF BeginCheckout, Goto, RequestTypeOK
    <2>5. arg'[r].plan = p
      BY <2>3, <2>4
    <2>6. Turn(r)'
      BY <1>0, <1>1, <2>4, <2>5, IdleTurn
    <2> QED
      BY <1>0, <2>6, SeqKeeps DEF OneActive
  <1>3. CASE \/ \E u \in User : BeginCancel(r, u)
             \/ \E e \in Emitted : Webhook(r, e)
             \/ \E p \in Edited : BeginRemovePlan(r, p)
    <2>1. pc'[r] \in {"cancelSubscription", "record", "deletePlan"}
      BY <1>0, <1>3 DEF BeginCancel, Webhook, BeginRemovePlan, Goto, RequestTypeOK
    <2>2. Turn(r)'
      BY <1>0, <1>1, <2>1, IdleTurn DEF Buying
    <2> QED
      BY <1>0, <2>2, SeqKeeps DEF OneActive
  <1> QED
    BY <1>2, <1>3 DEF Begin

\* The checkout up to the call of the gateway.
LEMMA SeqLookups ==
  ASSUME Ground, SeqInv, NEW r \in Req, CheckExisting(r) \/ ReadUser(r) \/ SaveCustomer(r)
  PROVE SeqInv'
  <1>0. /\ RequestTypeOK /\ DataTypeOK /\ Turn(r) /\ OneActive /\ CustomersOK
        /\ UNCHANGED <<emitted, pending, row, settled, planStatus>>
        /\ pc[r] \in {"existing", "user", "saveCustomer"}
    BY DEF Ground, IInv, TypeOK, SeqInv, CheckExisting, ReadUser, SaveCustomer, Goto,
           database, gateway
  <1>1. \A e \in Emitted : ~Activating(e)'
    BY <1>0, NothingActivating DEF Activating
  <1>2. OneActive' /\ planStatus[arg[r].plan] # "deleted"
    BY <1>0 DEF OneActive, Turn, Buying
  <1>3. CASE CheckExisting(r)
    <2>1. /\ UNCHANGED <<nCustomer, customer>> /\ pc[r] = "existing"
          /\ \/ pc'[r] = "idle"
             \/ pc'[r] = "user" /\ arg'[r] = arg[r] /\ ~BlocksCheckout(arg[r].user)
      BY <1>0, <1>3 DEF CheckExisting, Goto, Finish, RequestTypeOK, database, gateway
    <2>2. pc'[r] = "user" => Clear(r)'
      BY <1>0, <2>1 DEF BlocksCheckout, RowsOf, Clear
    <2>3. Turn(r)'
      BY <1>0, <1>1, <1>2, <2>1, <2>2, IdleTurn DEF Buying
    <2> QED
      BY <1>2, <2>1, <2>3, SeqKeeps
  <1>4. CASE ReadUser(r)
    <2>1. /\ UNCHANGED customer /\ pc[r] = "user" /\ UNCHANGED arg
          /\ \/ pc'[r] = "createSubscription" /\ UNCHANGED nCustomer
             \/ /\ pc'[r] = "saveCustomer" /\ ~customer[arg[r].user]
                /\ nCustomer' = [nCustomer EXCEPT ![arg[r].user] = @ + 1]
      BY <1>0, <1>4 DEF ReadUser, Goto, RequestTypeOK, database
    <2>2. Clear(r)'
      BY <1>0, <2>1 DEF Turn, Clear
    <2>3. Turn(r)'
      BY <1>0, <1>1, <1>2, <2>1, <2>2, IdleTurn DEF Buying
    <2>4. CustomersOK'
      <3> SUFFICES ASSUME NEW u \in User
                   PROVE \/ nCustomer'[u] = 0
                         \/ nCustomer'[u] = 1 /\ customer'[u]
                         \/ nCustomer'[u] = 1 /\ pc'[r] = "saveCustomer" /\ arg'[r].user = u
        BY DEF CustomersOK
      <3>1. \/ nCustomer[u] = 0
            \/ nCustomer[u] = 1 /\ customer[u]
        BY <1>0, <2>1 DEF CustomersOK, Ground, OneByOne
      <3> QED
        BY <1>0, <2>1, <3>1 DEF DataTypeOK
    <2> QED
      BY <1>2, <2>3, <2>4 DEF Ground, OneByOne, SeqInv
  <1>5. CASE SaveCustomer(r)
    <2>1. /\ UNCHANGED nCustomer /\ pc[r] = "saveCustomer" /\ UNCHANGED arg
          /\ pc'[r] = "createSubscription"
          /\ customer' = [customer EXCEPT ![arg[r].user] = TRUE]
      BY <1>0, <1>5 DEF SaveCustomer, Goto, RequestTypeOK, gateway
    <2>2. Clear(r)'
      BY <1>0, <2>1 DEF Turn, Clear
    <2>3. Turn(r)'
      BY <1>0, <1>1, <1>2, <2>1, <2>2, IdleTurn DEF Buying
    <2>4. CustomersOK'
      <3> SUFFICES ASSUME NEW u \in User
                   PROVE nCustomer'[u] = 0 \/ (nCustomer'[u] = 1 /\ customer'[u])
        BY DEF CustomersOK
      <3>1. \/ nCustomer[u] = 0
            \/ nCustomer[u] = 1 /\ (customer[u] \/ arg[r].user = u)
        BY <1>0, <2>1 DEF CustomersOK, Ground, OneByOne
      <3> QED
        BY <1>0, <2>1, <3>1 DEF DataTypeOK
    <2> QED
      BY <1>2, <2>3, <2>4 DEF Ground, OneByOne, SeqInv
  <1> QED
    BY <1>3, <1>4, <1>5

\* The gateway queues what it announces behind nothing.
LEMMA QueuedFirst ==
  ASSUME Ground, pending = <<>>, NEW events \in Seq(Event), events # <<>>, Emit(events)
  PROVE pending' # <<>> /\ pending'[1] = Len(emitted) + 1
  <1> DEFINE ids == [i \in 1 .. Len(events) |-> Len(emitted) + i]
  <1>1. Len(events) \in Nat /\ Len(events) > 0 /\ Len(emitted) \in Nat
    BY DEF Ground, IInv, TypeOK, DataTypeOK
  <1>2. ids \in Seq(Nat) /\ Len(ids) = Len(events) /\ ids[1] = Len(emitted) + 1
    BY <1>1
  <1>3. pending' = <<>> \o ids
    BY DEF Emit, Ground
  <1> HIDE DEF ids
  <1> QED
    BY <1>1, <1>2, <1>3

LEMMA SeqCreate ==
  ASSUME Ground, SeqInv, NEW r \in Req, CreateSubscription(r)
  PROVE SeqInv'
  <1> DEFINE n == Len(emitted)
             events == Announced(arg[r].plan)
  <1>a. events = [i \in 1 .. Len(events) |-> events[i]] /\ Len(events) \in Nat
    BY DEF Announced
  <1>0. /\ IInv /\ RequestTypeOK /\ Turn(r) /\ OneActive /\ Grows /\ emitted \in Seq(Event)
        /\ emitted' \in Seq(Event)
        /\ UNCHANGED <<row, settled, record, planStatus, nCustomer, customer>>
        /\ pc[r] = "createSubscription" /\ pc'[r] = "insertRow"
        /\ Emit(events) /\ arg' = [arg EXCEPT ![r].sub = n + 1]
    BY CreateSubscriptionInv
    DEF Ground, IInv, TypeOK, DataTypeOK, RequestTypeOK, SeqInv, CreateSubscription, Goto,
        database
  <1>1. PICK a, m : a = arg[r] /\ m = n + 1
    OBVIOUS
  <1>2. a \in [user : User \cup {None}, plan : Plan \cup {None}, sub : Sub \cup {0}]
    BY <1>0, <1>1 DEF RequestTypeOK
  <1>3. arg'[r] = [a EXCEPT !.sub = m]
    BY <1>0, <1>1 DEF RequestTypeOK
  <1>4. arg'[r].sub = m /\ arg'[r].user = arg[r].user /\ arg'[r].plan = arg[r].plan
    BY <1>1, <1>2, <1>3
  <1>5. /\ Len(events) \in 1 .. 2 /\ events # <<>>
        /\ Len(events) = 2 => events[2].status \notin Active
    BY SubscriptionsAssumption DEF Announced, Active
  <1> HIDE DEF events
  <1>6. n \in Nat /\ emitted' = emitted \o events
    BY <1>0 DEF Emit
  <1>7. \A e \in Emitted' : Activating(e)' => e = m
    <2> SUFFICES ASSUME NEW e \in Emitted', Activating(e)'
                 PROVE e = m
      OBVIOUS
    <2>1. e \notin Emitted
      BY <1>0, ActivatingBefore, NothingActivating
    <2>2. e \in Int /\ e > n /\ e <= n + Len(events)
      BY <1>0, <1>5, <1>6, <2>1 DEF Emitted
    <2>3. emitted'[e] = events[e - n]
      BY <1>0, <1>5, <1>6, <2>2
    <2>4. ~(e = n + 2 /\ Len(events) = 2)
      BY <1>5, <1>6, <2>3 DEF Activating
    <2>5. e = n + 1 \/ (e = n + 2 /\ Len(events) = 2)
      <3> HIDE DEF n
      <3> QED
        BY <1>5, <1>6, <2>2
    <2> QED
      BY <1>1, <2>4, <2>5
  <1>8. pending' # <<>> /\ pending'[1] = m
    <2>1. events \in Seq(Event)
      <3>1. \A i \in 1 .. Len(events) : events[i] = emitted'[n + i] /\ n + i \in DOMAIN emitted'
        BY <1>0, <1>5, <1>6
      <3>2. \A i \in 1 .. Len(events) : events[i] \in Event
        BY <1>0, <3>1
      <3> QED
        BY <1>a, <3>2, SeqDef
    <2> QED
      BY <1>0, <1>1, <1>5, <2>1, QueuedFirst DEF Turn
  <1>9. record[m] = "none" \/ m \notin EventId
    BY <1>1, <1>6 DEF Ground, LogInv, LoggedOK, Emitted
  <1>10. \A e \in Emitted' : e \in EventId
    BY SubscriptionsAssumption DEF Ground, IInv, TypeOK, DataTypeOK, Emitted, EventId
  <1>11. Clear(r)' /\ OneActive' /\ planStatus'[arg'[r].plan] # "deleted"
    BY <1>0, <1>4 DEF Turn, Clear, OneActive, Buying
  <1>12. \A e \in Emitted' : Activating(e)' => Holds(r, e)'
    BY <1>0, <1>4, <1>7, <1>8, <1>9, <1>10 DEF Holds
  <1>13. Turn(r)'
    BY <1>0, <1>11, <1>12 DEF Turn
  <1> QED
    BY <1>0, <1>11, <1>13, SeqKeeps

LEMMA SeqInsert ==
  ASSUME Ground, SeqInv, NEW r \in Req, InsertRow(r)
  PROVE SeqInv'
  <1>0. /\ RequestTypeOK /\ Turn(r) /\ OneActive /\ row \in [Sub -> Row] /\ RequestOK(r)
        /\ TypeOK /\ BuysPlan(r)
        /\ UNCHANGED <<emitted, pending, settled, record, planStatus, nCustomer, customer>>
        /\ pc[r] = "insertRow"
    BY DEF Ground, IInv, TypeOK, DataTypeOK, RequestsOK, SeqInv, InsertRow, PlanInv, gateway
  <1>1. PICK s \in Sub : s = arg[r].sub /\ ~Present(s)
    BY <1>0, EmittedType DEF RequestOK, TypeOK, Sub
  <1>2. planStatus[arg[r].plan] # "deleted"
    BY <1>0 DEF Turn, Buying
  <1>3. /\ pc'[r] = "drain" /\ UNCHANGED <<arg, todo>>
        /\ \E new : /\ row' = [row EXCEPT ![s] = new]
                    /\ new.status = "INCOMPLETE" /\ new.user = arg[r].user
    BY <1>0, <1>1, <1>2 DEF InsertRow, Goto, RequestTypeOK, InitialStatus
  <1>4. Calm /\ row'[s].user = arg[r].user /\ row'[s].status = "INCOMPLETE"
    BY <1>0, <1>1, <1>3 DEF Calm, Active
  <1>5. Clear(r)' /\ OneActive'
    BY <1>0, <1>3, <1>4, CalmKeeps DEF Turn
  <1>6. \A e \in Emitted' : Activating(e)' => Holds(r, e)'
    BY <1>0, <1>1, <1>3, <1>4 DEF Turn, Holds, Activating, Emitted, Present
  <1>7. Turn(r)'
    BY <1>3, <1>5, <1>6 DEF Turn, Buying
  <1> QED
    BY <1>0, <1>5, <1>7, SeqKeeps

LEMMA SeqCancel ==
  ASSUME Ground, SeqInv, NEW r \in Req, CancelSubscription(r)
  PROVE SeqInv'
  <1> DEFINE ev == [type |-> "subscription.canceled", sub |-> arg[r].sub, inv |-> 0,
                    http |-> ~Simulated, status |-> "CANCELED"]
  <1>0. /\ IInv /\ RequestTypeOK /\ Turn(r) /\ OneActive /\ Grows /\ emitted \in Seq(Event)
        /\ UNCHANGED <<row, settled, nCustomer, customer>>
        /\ pc[r] = "cancelSubscription" /\ pc'[r] = "drain"
        /\ emitted' = emitted \o <<ev>> /\ ev.status \notin Active
    BY CancelSubscriptionInv
    DEF Ground, IInv, TypeOK, DataTypeOK, RequestTypeOK, SeqInv, CancelSubscription, Goto,
        Emit, database, Active
  <1> HIDE DEF ev
  <1>1. \A e \in Emitted' \ Emitted : emitted'[e] = ev
    BY <1>0 DEF Emitted
  <1>2. \A e \in Emitted' : ~Activating(e)'
    <2> SUFFICES ASSUME NEW e \in Emitted' PROVE ~Activating(e)'
      OBVIOUS
    <2>1. CASE e \in Emitted
      BY <1>0, <2>1, ActivatingBefore, NothingActivating
    <2>2. CASE e \notin Emitted
      BY <1>0, <1>1, <2>2 DEF Activating
    <2> QED
      BY <2>1, <2>2
  <1>3. Turn(r)'
    BY <1>0, <1>2 DEF Turn, Buying
  <1>4. OneActive'
    BY <1>0 DEF OneActive
  <1> QED
    BY <1>0, <1>3, <1>4, SeqKeeps

LEMMA SeqDrain ==
  ASSUME Ground, SeqInv, NEW r \in Req, Drain(r)
  PROVE SeqInv'
  <1>0. /\ RequestTypeOK /\ Turn(r) /\ OneActive /\ pending \in Seq(EventId)
        /\ UNCHANGED <<emitted, row, settled, record, nCustomer, customer>>
        /\ pc[r] = "drain"
    BY DEF Ground, IInv, TypeOK, DataTypeOK, SeqInv, Drain, database
  <1>1. OneActive'
    BY <1>0 DEF OneActive
  <1>2. CASE pending # <<>>
    <2>1. /\ pc'[r] = "record" /\ todo'[r] = pending /\ pending' = <<>> /\ arg'[r] = arg[r]
      BY <1>0, <1>2 DEF Ground, Drain, Taken, Left, Goto, RequestTypeOK
    <2>2. Head(todo'[r]) = pending[1]
      BY <1>0, <1>2, <2>1, SeqHead
    <2>3. \A e \in Emitted' : Activating(e)' => Holds(r, e)' /\ Clear(r)'
      BY <1>0, <2>1, <2>2 DEF Turn, Activating, Holds, Clear, Emitted, Present
    <2>4. Turn(r)'
      BY <2>1, <2>3 DEF Turn, Buying
    <2> QED
      BY <1>0, <1>1, <2>4, SeqKeeps
  <1>3. CASE pending = <<>>
    <2>1. pc'[r] = "idle" /\ pending' = <<>>
      BY <1>0, <1>3 DEF Drain, Taken, Finish, RequestTypeOK
    <2>2. \A e \in Emitted' : ~Activating(e)'
      BY <1>0, <1>3 DEF Turn, Activating, Holds, Emitted
    <2>3. Turn(r)'
      BY <2>1, <2>2 DEF Turn, Buying
    <2> QED
      BY <1>0, <1>1, <2>3, SeqKeeps
  <1> QED
    BY <1>2, <1>3

LEMMA SeqRecord ==
  ASSUME Ground, SeqInv, NEW r \in Req, RecordEvent(r)
  PROVE SeqInv'
  <1>0. /\ RequestTypeOK /\ Turn(r) /\ OneActive
        /\ UNCHANGED <<emitted, pending, row, settled, nCustomer, customer>>
        /\ pc[r] = "record"
    BY DEF Ground, IInv, TypeOK, SeqInv, RecordEvent, gateway
  <1>1. OneActive' /\ pending = <<>>
    BY <1>0 DEF OneActive, Turn
  <1>2. CASE \E e \in Emitted : Activating(e)
    <2>1. PICK h \in Emitted : h = Head(todo[r]) /\ record[h] = "none"
      BY <1>0, <1>2 DEF Turn, Holds
    <2>2. pc'[r] = "apply" /\ UNCHANGED <<arg, todo>>
      BY <1>0, <2>1 DEF RecordEvent, Duplicate, Goto, RequestTypeOK
    <2>3. \A e \in Emitted' : Activating(e)' => Holds(r, e)' /\ Clear(r)'
      BY <1>0, <2>2 DEF Turn, Activating, Holds, Clear, Emitted, Present
    <2>4. Turn(r)'
      BY <1>0, <1>1, <2>2, <2>3 DEF Turn, Buying
    <2> QED
      BY <1>0, <1>1, <2>4, SeqKeeps
  <1>3. CASE \A e \in Emitted : ~Activating(e)
    <2>1. \A e \in Emitted : ~Activating(e)'
      BY <1>0, <1>3 DEF Activating
    <2>2. pc'[r] \in {"apply", "record", "idle"}
      BY <1>0 DEF RecordEvent, NextEvent, Goto, Finish, RequestTypeOK
    <2>3. Turn(r)'
      BY <1>0, <2>1, <2>2, IdleTurn DEF Buying
    <2> QED
      BY <1>0, <1>1, <2>3, SeqKeeps
  <1> QED
    BY <1>2, <1>3

\* The status of an event reaches the row: only then does a row become active.
LEMMA SeqApply ==
  ASSUME Ground, SeqInv, NEW r \in Req, ApplyStatus(r)
  PROVE SeqInv'
  <1>0. /\ TypeOK /\ RequestTypeOK /\ Turn(r) /\ OneActive /\ row \in [Sub -> Row]
        /\ UNCHANGED <<emitted, pending, record, nCustomer, customer>>
        /\ pc[r] = "apply" /\ pc'[r] = "processed" /\ RequestOK(r)
        /\ settled' = settled \cup {Head(todo[r])}
    BY DEF Ground, IInv, TypeOK, DataTypeOK, RequestTypeOK, RequestsOK, SeqInv, ApplyStatus,
           WriteStatus, Goto, gateway
  <1>1. PICK h \in Emitted : h = Head(todo[r]) /\ h \notin settled
    BY <1>0, HeadOK DEF RequestOK, Applying
  <1>2. PICK ev \in Event : ev = emitted[h] /\ ev = Current(r)
    BY <1>0, <1>1, EmittedType DEF Current, TypeOK
  <1>3. PICK x, per : x \in Row /\ x = row[ev.sub] /\
          row' = [row EXCEPT ![ev.sub] = [[x EXCEPT !.status = ev.status] EXCEPT !.period = per]]
    BY <1>0, <1>2 DEF ApplyStatus, WriteStatus, Event
  <1> DEFINE new == [[x EXCEPT !.status = ev.status] EXCEPT !.period = per]
  <1>4. new.status = ev.status /\ new.user = x.user
    BY <1>3 DEF Row
  <1>5. row' = [row EXCEPT ![ev.sub] = new]
    BY <1>3
  <1> HIDE DEF new
  <1>6. OneActive'
    <2>1. CASE ev.status \in Active
      <3>1. Holds(r, h) /\ Clear(r) /\ h = ev.sub
        BY <1>0, <1>1, <1>2, <2>1 DEF Turn, Activating, Ground, AnswersOK
      <3>2. x.user = arg[r].user
        BY <1>0, <1>3, <3>1 DEF Holds
      <3>3. \A s \in Sub : row'[s].status \in Active /\ row'[s].user = arg[r].user => s = h
        BY <1>0, <1>5, <3>1 DEF Clear
      <3>4. \A s \in Sub : s # h => row'[s] = row[s]
        BY <1>0, <1>5, <3>1
      <3>5. row'[h].user = arg[r].user
        BY <1>0, <1>2, <1>4, <1>5, <3>1, <3>2 DEF Event
      <3> QED
        BY <1>0, <3>3, <3>4, <3>5 DEF OneActive
    <2>2. CASE ev.status \notin Active
      <3>1. Calm
        BY <1>0, <1>3, <1>4, <1>5, <2>2 DEF Calm
      <3> QED
        BY <1>0, <3>1, CalmKeeps
    <2> QED
      BY <2>1, <2>2
  <1>7. \A e \in Emitted : ~Activating(e)'
    BY <1>0, <1>1 DEF Turn, Holds, Activating
  <1>8. Turn(r)'
    BY <1>0, <1>7, IdleTurn DEF Buying
  <1> QED
    BY <1>0, <1>6, <1>8, SeqKeeps

\* The other statements of the handlers have no activation before them.
LEMMA SeqHandlers ==
  ASSUME Ground, SeqInv, NEW r \in Req,
         \/ FindSubscription(r) \/ ApplyFails(r) \/ UpsertInvoice(r) \/ SetPastDue(r)
         \/ MarkProcessed(r) \/ MarkFailed(r) \/ DeletePlan(r)
  PROVE SeqInv'
  <1>0. /\ TypeOK /\ RequestTypeOK /\ Turn(r) /\ OneActive /\ row \in [Sub -> Row]
        /\ UNCHANGED <<emitted, pending, nCustomer, customer>> /\ settled \subseteq settled'
        /\ RequestOK(r)
        /\ pc[r] \in Applying \cup {"deletePlan"}
        /\ pc'[r] \in Applying \cup {"idle", "record"}
    BY DEF Ground, IInv, TypeOK, DataTypeOK, RequestTypeOK, RequestsOK, SeqInv,
           FindSubscription, ApplyFails, UpsertInvoice, AfterInvoice, SetPastDue, WriteStatus,
           MarkProcessed, MarkFailed, DeletePlan, NextEvent, Goto, Finish, Applying,
           database, gateway
  <1>1. \A e \in Emitted : ~Activating(e)
    <2>1. CASE FindSubscription(r) \/ ApplyFails(r)
      <3> SUFFICES ASSUME NEW e \in Emitted, Activating(e) PROVE FALSE
        OBVIOUS
      <3>1. pc[r] = "apply" /\ Head(todo[r]) = e /\ Present(e) /\ emitted[e].status \in Active
        BY <1>0, <2>1 DEF FindSubscription, ApplyFails, Turn, Holds, Activating
      <3>2. Current(r) = emitted[e] /\ emitted[e].sub = e
        BY <3>1 DEF Current, Ground, AnswersOK
      <3>3. emitted[e].type \in InvoiceTypes
        BY <2>1, <3>1, <3>2 DEF FindSubscription, ApplyFails
      <3>4. emitted[e].status \in {None, "PAST_DUE"}
        BY <3>3 DEF Ground, IInv, EventsOK, LogInv, LoggedOK, InvoiceTypes
      <3> QED
        BY <3>1, <3>4, SubscriptionsAssumption DEF Active
    <2>2. CASE ~(FindSubscription(r) \/ ApplyFails(r))
      <3>1. pc[r] \notin {"insertRow", "drain", "record", "apply"}
        BY <1>0, <2>2
        DEF UpsertInvoice, SetPastDue, MarkProcessed, MarkFailed, DeletePlan, Goto
      <3> QED
        BY <1>0, <3>1, NothingActivating
    <2> QED
      BY <2>1, <2>2
  <1>2. \A e \in Emitted : ~Activating(e)'
    BY <1>0, <1>1 DEF Activating
  <1>3. Turn(r)'
    BY <1>0, <1>2, IdleTurn DEF Applying, Buying
  <1>4. Calm
    <2>1. CASE SetPastDue(r)
      <3>1. PICK s \in Sub : s = Current(r).sub
        BY <1>0, <2>1, HeadOK, EmittedType
        DEF SetPastDue, Goto, RequestOK, Applying, Current, TypeOK
      <3>2. PICK x \in Row : x = row[s] /\ row' = [row EXCEPT ![s] = [x EXCEPT !.status = "PAST_DUE"]]
        BY <1>0, <2>1, <3>1 DEF SetPastDue, WriteStatus
      <3>3. [x EXCEPT !.status = "PAST_DUE"].status = "PAST_DUE"
        BY <3>2 DEF Row
      <3> QED
        BY <1>0, <3>2, <3>3 DEF Calm, Active
    <2>2. CASE ~SetPastDue(r)
      <3>1. UNCHANGED row
        BY <2>2
        DEF FindSubscription, ApplyFails, UpsertInvoice, MarkProcessed, MarkFailed,
            DeletePlan, database
      <3> QED
        BY <3>1 DEF Calm
    <2> QED
      BY <2>1, <2>2
  <1> QED
    BY <1>0, <1>3, <1>4, CalmKeeps, SeqKeeps DEF Applying

LEMMA SeqStep ==
  ASSUME Ground, SeqInv, NEW r \in Req, Step(r)
  PROVE SeqInv'
  <1>1. CASE CheckExisting(r) \/ ReadUser(r) \/ SaveCustomer(r)
    BY <1>1, SeqLookups
  <1>2. CASE CreateSubscription(r) \/ InsertRow(r) \/ CancelSubscription(r) \/ Drain(r)
    BY <1>2, SeqCreate, SeqInsert, SeqCancel, SeqDrain
  <1>3. CASE RecordEvent(r) \/ ApplyStatus(r)
    BY <1>3, SeqRecord, SeqApply
  <1>4. CASE \/ FindSubscription(r) \/ ApplyFails(r) \/ UpsertInvoice(r) \/ SetPastDue(r)
             \/ MarkProcessed(r) \/ MarkFailed(r) \/ DeletePlan(r)
    BY <1>4, SeqHandlers
  <1> QED
    BY <1>1, <1>2, <1>3, <1>4, Zenon DEF Step

\* An administrator, the clock, or nobody.
LEMMA SeqQuiet ==
  ASSUME Ground, SeqInv, Calm,
         \A s \in Sub : (Present(s) => Present(s)') /\ row'[s].user = row[s].user,
         UNCHANGED <<emitted, pending, pc, arg, todo, record, settled, nCustomer, customer>>,
         \A p \in Plan : planStatus[p] # "deleted" => planStatus'[p] # "deleted"
  PROVE SeqInv'
  <1>1. OneActive' /\ CustomersOK'
    BY CalmKeeps DEF SeqInv, CustomersOK
  <1>2. ASSUME NEW r \in Req PROVE Turn(r)'
    <2>1. Turn(r) /\ BuysPlan(r) /\ TypeOK
      BY DEF SeqInv, Ground, PlanInv, IInv
    <2>2. Clear(r) => Clear(r)'
      BY CalmKeeps
    <2>3. ASSUME NEW e \in Emitted, Activating(e) PROVE Holds(r, e)'
      <3>1. Holds(r, e) /\ e \in Sub
        BY <2>1, <2>3, EmittedType DEF Turn, TypeOK, Sub
      <3> QED
        BY <3>1 DEF Holds, Present
    <2>4. \A e \in Emitted' : Activating(e)' => e \in Emitted /\ Activating(e)
      BY DEF Emitted, Activating
    <2>5. pc'[r] \in Buying => planStatus'[arg'[r].plan] # "deleted"
      BY <2>1 DEF Turn, BuysPlan
    <2> QED
      BY <2>1, <2>2, <2>3, <2>4, <2>5 DEF Turn
  <1> QED
    BY <1>1, <1>2 DEF SeqInv

LEMMA NextSeq ==
  ASSUME Ground, SeqInv, [Next]_vars
  PROVE SeqInv'
  <1>0. /\ row \in [Sub -> Row] /\ faults \in Nat
        /\ planStatus \in [Plan -> {"absent", "DRAFT", "PUBLISHED", "deleted"}]
    BY DEF Ground, IInv, TypeOK, DataTypeOK
  <1>1. ASSUME NEW r \in Req, Begin(r) \/ Step(r) PROVE SeqInv'
    BY <1>1, SeqBegin, SeqStep
  <1>2. ASSUME NEW p \in Edited, CreatePlan(p) \/ UpdatePlan(p) PROVE SeqInv'
    <2>1. /\ UNCHANGED <<row, emitted, pending, pc, arg, todo, record, settled, nCustomer, customer>>
          /\ \E st \in {"DRAFT", "PUBLISHED"} : planStatus' = [planStatus EXCEPT ![p] = st]
      BY <1>2 DEF CreatePlan, UpdatePlan, gateway, request
    <2> QED
      BY <1>0, <2>1, SeqQuiet DEF Calm, Present
  <1>3. ASSUME NEW s \in Sub, PeriodEnds(s) PROVE SeqInv'
    <2>1. /\ UNCHANGED <<planStatus, emitted, pending, pc, arg, todo, record, settled,
                         nCustomer, customer>>
          /\ row' = [row EXCEPT ![s] = [row[s] EXCEPT !.period = "over"]]
      BY <1>0, <1>3 DEF PeriodEnds, gateway, request
    <2>2. PICK x \in Row : x = row[s]
      BY <1>0
    <2>3. /\ [x EXCEPT !.period = "over"].user = x.user
          /\ [x EXCEPT !.period = "over"].status = x.status
      BY <2>2 DEF Row
    <2>4. \A t \in Sub : row'[t].user = row[t].user /\ row'[t].status = row[t].status
      BY <1>0, <2>1, <2>2, <2>3
    <2> QED
      BY <2>1, <2>4, SeqQuiet DEF Calm, Present
  <1>4. ASSUME UNCHANGED vars PROVE SeqInv'
    <2>1. UNCHANGED <<planStatus, row, emitted, pending, pc, arg, todo, record, settled,
                      nCustomer, customer>>
      BY <1>4 DEF vars, database, gateway, request
    <2> QED
      BY <2>1, SeqQuiet DEF Calm, Present
  <1>5. ~Crash /\ (\A s \in Sub : ~ProviderEmits(s)) /\ \A r \in Req : ~Rejects(r)
    BY <1>0 DEF Crash, ProviderEmits, Rejects, HandlerRejects, RequestRejects, Ground
  <1> QED
    BY <1>1, <1>2, <1>3, <1>4, <1>5 DEF Next, Environment

LEMMA AtMostOne ==
  ASSUME OneActive, NEW u \in User
  PROVE Cardinality(RowsOf(u, Active)) <= 1
  <1>1. CASE RowsOf(u, Active) = {}
    BY <1>1, FS_EmptySet
  <1>2. CASE RowsOf(u, Active) # {}
    <2>1. PICK s \in RowsOf(u, Active) : TRUE
      BY <1>2
    <2>2. RowsOf(u, Active) = {s}
      BY <2>1 DEF RowsOf, OneActive
    <2> QED
      BY <2>2, FS_Singleton
  <1> QED
    BY <1>1, <1>2

\* When requests do not overlap and none is cut short, a checkout makes nothing
\* an earlier one already made: the student keeps one subscription that gives
\* access, and one customer at the simulated gateway, for any number of
\* students, plans and checkouts.  (Two checkouts that overlap break it.)
THEOREM SequentialCheckouts ==
  OneByOne /\ Simulated /\ ~ProviderActs /\ MaxFaults = 0 => (Spec => []OnePerUser)
  <1> SUFFICES ASSUME OneByOne, Simulated, ~ProviderActs, MaxFaults = 0
               PROVE Spec => []OnePerUser
    OBVIOUS
  <1> DEFINE All == LogInv /\ PlanInv /\ FinalInv /\ SeqInv
  <1>1. Init => All
    <2> SUFFICES ASSUME Init PROVE All
      OBVIOUS
    <2>1. LogInv
      BY DEF Init, LogInv, LoggedOK, RecordTellsTruth, HandlerOK, Emitted
    <2>2. PlanInv /\ FinalInv
      BY DEF Init, PlanInv, BuysPlan, Buying, FinalInv,
             AnswersOK, CancelsActive, Emitted
    <2>3. SeqInv
      BY DEF Init, SeqInv, OneActive, CustomersOK, Turn, Emitted, NoRow, Active, Buying
    <2> QED
      BY <2>1, <2>2, <2>3
  <1>2. IInv /\ IInv' /\ All /\ [Next]_vars => All'
    <2> SUFFICES ASSUME IInv, IInv', All, [Next]_vars PROVE All'
      OBVIOUS
    <2>1. LogInv' /\ PlanInv' /\ FinalInv'
      BY NextLog, NextPlan, NextFinal
    <2>2. SeqInv'
      BY NextSeq DEF Ground, FinalInv
    <2> QED
      BY <2>1, <2>2
  <1>3. All => OnePerUser
    <2> SUFFICES ASSUME All PROVE OnePerUser
      OBVIOUS
    <2>1. OneActivePerUser
      BY AtMostOne DEF SeqInv, OneActivePerUser
    <2>2. OneCustomerPerUser
      BY DEF SeqInv, CustomersOK, OneCustomerPerUser
    <2> QED
      BY <2>1, <2>2 DEF OnePerUser
  <1> HIDE DEF All
  <1> QED
    BY <1>1, <1>2, <1>3, Invariant, PTL DEF Spec
=============================================================================
