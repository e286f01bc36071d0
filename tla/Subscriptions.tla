--------------------------- MODULE Subscriptions ---------------------------
(***************************************************************************)
(* Checkout, cancellation and payment webhooks of apps/api.                *)
(*                                                                         *)
(* A request slot r \in Req stands for one in-flight HTTP request of the   *)
(* NestJS process.  Every await on Prisma or on the gateway ends a step,   *)
(* so the steps of different requests interleave exactly where the event   *)
(* loop may switch between them.  pc[r] names the statement r waits at:    *)
(*                                                                         *)
(*   checkout   existing -> user -> (saveCustomer) -> createSubscription   *)
(*              -> insertRow -> drain                                      *)
(*   cancel     cancelSubscription -> drain                                *)
(*   events     record -> apply -> (invoice -> pastDue) -> processed       *)
(*              or, when a statement of the try block throws, -> failed    *)
(*   plans      deletePlan                                                 *)
(*                                                                         *)
(* The position of an event in emitted is its eventId; a subscription is   *)
(* known at the gateway by the position of the event that announced it,    *)
(* an invoice by the position of the first event that mentioned it.        *)
(***************************************************************************)
EXTENDS Integers, Sequences, FiniteSets

CONSTANTS
  User, Plan, Req,     \* students, subscription plans, request slots
  Trial,               \* the plans with trialDays > 0
  Edited,              \* the plans an administrator creates, edits and removes
  None,                \* null
  Simulated,           \* the gateway implements drainSimulatedEvents
  ProviderActs,        \* the provider also acts on its own initiative
  MaxEvents,           \* bound: events the gateway ever emits
  MaxFaults            \* bound: restarts of the API process and statements that reject

ASSUME SubscriptionsAssumption ==
  /\ None \notin User \cup Plan \cup {"ACTIVE", "TRIALING", "PAST_DUE", "CANCELED"}
  /\ Trial \subseteq Plan /\ Edited \subseteq Plan
  /\ Simulated \in BOOLEAN /\ ProviderActs \in BOOLEAN
  /\ MaxEvents \in Nat /\ MaxFaults \in Nat
  /\ IsFiniteSet(Req)

VARIABLES
  planStatus,   \* subscription_plans.status, "absent" or "deleted"
  customer,     \* users.gateway_customer_id is set
  row,          \* user_subscriptions, by gateway_subscription_id
  invoice,      \* payment_invoices.status, by gateway_invoice_id
  record,       \* payment_webhook_events.status, by event_id
  nCustomer,    \* customers the gateway created for a user
  emitted,      \* every event the gateway created, in order
  pending,      \* FakePaymentGateway.pending (in memory)
  pc, arg, todo,\* control state, arguments and remaining events of a request
  settled,      \* history: events that wrote a subscription's status
  billed,       \* history: events that wrote their invoice
  rejected,     \* history: <<event, statement of its handler that rejected>>
  faults        \* history: restarts and rejected statements so far

database == <<planStatus, customer, row, invoice, record>>
gateway  == <<nCustomer, emitted, pending>>
request  == <<pc, arg, todo>>
handled  == <<billed, rejected>>
vars     == <<database, gateway, request, settled, handled, faults>>

-----------------------------------------------------------------------------
EventId == 1 .. MaxEvents
Sub     == EventId
Invoice == EventId

Active == {"ACTIVE", "TRIALING"}
\* Faulty variant: an unconfirmed subscription may be canceled too.
FaultyOpenStatuses == Active \cup {"PAST_DUE", "INCOMPLETE"}
OpenStatuses == Active \cup {"PAST_DUE"}
Status == OpenStatuses \cup {"INCOMPLETE", "CANCELED"}
InvoiceTypes == {"invoice.paid", "invoice.payment_failed"}

Event ==
  [type   : {"subscription.updated", "subscription.canceled"} \cup InvoiceTypes,
   sub    : Sub,
   status : Status \cup {None},
   inv    : Invoice \cup {0},
   http   : BOOLEAN]           \* delivered by POST /payments/webhook/:gateway

Row ==
  [status : Status \cup {"absent"}, user : User \cup {None}, plan : Plan \cup {None},
   period : {"none", "current", "over"},  \* now against currentPeriodEnd
   at     : Nat]                          \* order of createdAt
NoRow == [status |-> "absent", user |-> None, plan |-> None, period |-> "none", at |-> 0]
Present(s) == row[s].status # "absent"
Rows == {s \in Sub : Present(s)}
RowsOf(u, statuses) == {s \in Sub : row[s].user = u /\ row[s].status \in statuses}

NoArg == [user |-> None, plan |-> None, sub |-> 0]
BeforeEmission ==
  {"existing", "user", "saveCustomer", "createSubscription", "cancelSubscription"}
Tried == {"apply", "invoice", "pastDue", "processed"}   \* awaited in the try block
Applying == {"apply", "invoice", "pastDue", "processed", "failed"}
Control ==
  {"idle", "insertRow", "drain", "record", "deletePlan"} \cup BeforeEmission \cup Applying

Emitted == 1 .. Len(emitted)
Current(r) == emitted[Head(todo[r])]   \* the event request r is processing

DataTypeOK ==
  /\ planStatus \in [Plan -> {"absent", "DRAFT", "PUBLISHED", "deleted"}]
  /\ customer \in [User -> BOOLEAN]
  /\ row \in [Sub -> Row]
  /\ invoice \in [Invoice -> {"none", "PAID", "FAILED"}]
  /\ record \in [EventId -> {"none", "RECEIVED", "PROCESSED", "FAILED"}]
  /\ nCustomer \in [User -> Nat]
  /\ emitted \in Seq(Event) /\ Len(emitted) <= MaxEvents
  /\ pending \in Seq(EventId)
  /\ settled \subseteq EventId /\ billed \subseteq EventId
  /\ rejected \subseteq EventId \X Tried
  /\ faults \in Nat

RequestTypeOK ==
  /\ pc \in [Req -> Control]
  /\ arg \in [Req -> [user : User \cup {None}, plan : Plan \cup {None}, sub : Sub \cup {0}]]
  /\ todo \in [Req -> Seq(EventId)]

\* The rows of the six tables, the gateway's queue, and the requests in flight.
TypeOK == DataTypeOK /\ RequestTypeOK

Init ==
  /\ planStatus = [p \in Plan |-> IF p \in Edited THEN "absent" ELSE "PUBLISHED"]
  /\ customer = [u \in User |-> FALSE]
  /\ row = [s \in Sub |-> NoRow]
  /\ invoice = [i \in Invoice |-> "none"]
  /\ record = [e \in EventId |-> "none"]
  /\ nCustomer = [u \in User |-> 0]
  /\ emitted = <<>> /\ pending = <<>>
  /\ pc = [r \in Req |-> "idle"]
  /\ arg = [r \in Req |-> NoArg]
  /\ todo = [r \in Req |-> <<>>]
  /\ settled = {} /\ billed = {} /\ rejected = {} /\ faults = 0

-----------------------------------------------------------------------------
(* Control of one request.                                                  *)

Goto(r, from, to) == pc[r] = from /\ pc' = [pc EXCEPT ![r] = to]

Finish(r) ==
  /\ pc' = [pc EXCEPT ![r] = "idle"]
  /\ arg' = [arg EXCEPT ![r] = NoArg]
  /\ todo' = [todo EXCEPT ![r] = <<>>]

\* Faulty variant: the loop does not advance.
FaultyNextEvent(r) ==
  pc' = [pc EXCEPT ![r] = "record"] /\ UNCHANGED <<arg, todo>>

\* The next turn of the loop over the drained events, or its end.
NextEvent(r) ==
  \/ /\ Tail(todo[r]) # <<>>
     /\ pc' = [pc EXCEPT ![r] = "record"]
     /\ todo' = [todo EXCEPT ![r] = Tail(@)]
     /\ UNCHANGED arg
  \/ Tail(todo[r]) = <<>> /\ Finish(r)

\* Two events are set aside for every request that has yet to emit its own.
Capacity(n) ==
  Len(emitted) + 2 * Cardinality({r \in Req : pc[r] \in BeforeEmission}) + n <= MaxEvents

\* The gateway announces events: queued in memory by the simulated gateway,
\* otherwise to be delivered over HTTP.
Emit(events) ==
  /\ Len(emitted) + Len(events) <= MaxEvents
  /\ emitted' = emitted \o events
  /\ pending' = IF Simulated
                THEN pending \o [i \in 1 .. Len(events) |-> Len(emitted) + i]
                ELSE pending

-----------------------------------------------------------------------------
(* POST /subscriptions/checkout                                             *)

BeginCheckout(r, u, p) ==
  /\ Capacity(2)
  /\ planStatus[p] = "PUBLISHED"
  /\ Goto(r, "idle", "existing")
  /\ arg' = [arg EXCEPT ![r].user = u, ![r].plan = p]
  /\ UNCHANGED <<database, gateway, todo, settled, handled, faults>>

BlocksCheckout(u) == RowsOf(u, Active) # {}

CheckExisting(r) ==
  /\ pc[r] = "existing"
  /\ \/ BlocksCheckout(arg[r].user) /\ Finish(r)
     \/ /\ ~BlocksCheckout(arg[r].user)
        /\ Goto(r, "existing", "user")
        /\ UNCHANGED <<arg, todo>>
  /\ UNCHANGED <<database, gateway, settled, handled, faults>>

ReadUser(r) ==
  LET u == arg[r].user IN
  /\ pc[r] = "user"
  /\ \/ customer[u] /\ Goto(r, "user", "createSubscription") /\ UNCHANGED nCustomer
     \/ /\ ~customer[u]
        /\ Goto(r, "user", "saveCustomer")
        /\ nCustomer' = [nCustomer EXCEPT ![u] = @ + 1]
  /\ UNCHANGED <<database, emitted, pending, arg, todo, settled, handled, faults>>

SaveCustomer(r) ==
  /\ Goto(r, "saveCustomer", "createSubscription")
  /\ customer' = [customer EXCEPT ![arg[r].user] = TRUE]
  /\ UNCHANGED <<planStatus, row, invoice, record, gateway, arg, todo, settled, handled, faults>>

\* What createSubscription announces: a trial starts without an invoice.
Announced(p) ==
  LET s == Len(emitted) + 1
      updated == [type |-> "subscription.updated", sub |-> s, inv |-> 0, http |-> ~Simulated,
                  status |-> IF p \in Trial THEN "TRIALING" ELSE "ACTIVE"]
      paid == [type |-> "invoice.paid", sub |-> s, inv |-> s + 1, http |-> ~Simulated,
               status |-> None]
  IN IF p \in Trial THEN <<updated>> ELSE <<updated, paid>>

CreateSubscription(r) ==
  /\ Goto(r, "createSubscription", "insertRow")
  /\ Emit(Announced(arg[r].plan))
  /\ arg' = [arg EXCEPT ![r].sub = Len(emitted) + 1]
  /\ UNCHANGED <<database, nCustomer, todo, settled, handled, faults>>

\* Faulty variant: the checkout confirms the subscription itself.
FaultyInitialStatus == "ACTIVE"
InitialStatus == "INCOMPLETE"

\* The foreign key refuses the row once the plan is gone; the events stay queued.
InsertRow(r) ==
  LET a == arg[r] IN
  /\ pc[r] = "insertRow"
  /\ \/ planStatus[a.plan] = "deleted" /\ Finish(r) /\ UNCHANGED row
     \/ /\ planStatus[a.plan] # "deleted"
        /\ Goto(r, "insertRow", "drain")
        /\ row' = [row EXCEPT ![a.sub] =
                     [status |-> InitialStatus, user |-> a.user, plan |-> a.plan,
                      period |-> "none", at |-> Cardinality(Rows) + 1]]
        /\ UNCHANGED <<arg, todo>>
  /\ UNCHANGED <<planStatus, customer, invoice, record, gateway, settled, handled, faults>>

-----------------------------------------------------------------------------
(* POST /subscriptions/cancel                                               *)

Newest(subs) == {s \in subs : \A t \in subs : row[t].at <= row[s].at}

BeginCancel(r, u) ==
  /\ Capacity(2)
  /\ Goto(r, "idle", "cancelSubscription")
  /\ \E s \in Newest(RowsOf(u, OpenStatuses)) :
       arg' = [arg EXCEPT ![r].user = u, ![r].sub = s]
  /\ UNCHANGED <<database, gateway, todo, settled, handled, faults>>

CancelSubscription(r) ==
  /\ Goto(r, "cancelSubscription", "drain")
  /\ Emit(<<[type |-> "subscription.canceled", sub |-> arg[r].sub, inv |-> 0,
             http |-> ~Simulated, status |-> "CANCELED"]>>)
  /\ UNCHANGED <<database, nCustomer, arg, todo, settled, handled, faults>>

-----------------------------------------------------------------------------
(* drainSimulatedEvents takes every queued event, whoever caused it.        *)

\* Faulty variant: the newest event is taken and the queue emptied.
FaultyTaken == SelectSeq(pending, LAMBDA e : e = Len(emitted))
Taken == pending
Left  == <<>>

Drain(r) ==
  /\ pc[r] = "drain"
  /\ \/ /\ Simulated /\ Taken # <<>>
        /\ Goto(r, "drain", "record")
        /\ todo' = [todo EXCEPT ![r] = Taken]
        /\ pending' = Left
        /\ UNCHANGED arg
     \/ (~Simulated \/ Taken = <<>>) /\ Finish(r) /\ UNCHANGED pending
  /\ UNCHANGED <<database, nCustomer, emitted, settled, handled, faults>>

(* POST /payments/webhook/:gateway: any event of the provider, any number   *)
(* of times, in any order.                                                  *)
Webhook(r, e) ==
  /\ emitted[e].http
  /\ Goto(r, "idle", "record")
  /\ todo' = [todo EXCEPT ![r] = <<e>>]
  /\ UNCHANGED <<database, gateway, arg, settled, handled, faults>>

-----------------------------------------------------------------------------
(* PaymentsService.processWebhookEvent and applyEvent                       *)

\* Faulty variant: an unfinished event may be processed again.
FaultyDuplicate(e) == record[e] = "PROCESSED"
\* The unique constraint on (gateway, eventId) refuses a second record.
Duplicate(e) == record[e] # "none"

RecordEvent(r) ==
  LET e == Head(todo[r]) IN
  /\ pc[r] = "record"
  /\ \/ Duplicate(e) /\ NextEvent(r) /\ UNCHANGED record
     \/ /\ ~Duplicate(e)
        /\ Goto(r, "record", "apply")
        /\ record' = [record EXCEPT ![e] = "RECEIVED"]
        /\ UNCHANGED <<arg, todo>>
  /\ UNCHANGED <<planStatus, customer, row, invoice, gateway, settled, handled, faults>>

WriteStatus(r, new) ==
  /\ row' = [row EXCEPT ![Current(r).sub] = new]
  /\ settled' = settled \cup {Head(todo[r])}

\* subscription.updated and subscription.canceled: one update of the row.
ApplyStatus(r) ==
  LET ev == Current(r) IN
  /\ pc[r] = "apply" /\ ev.type \notin InvoiceTypes /\ Present(ev.sub)
  /\ Goto(r, "apply", "processed")
  /\ WriteStatus(r, [row[ev.sub] EXCEPT
       !.status = ev.status,
       !.period = IF ev.type = "subscription.updated" THEN "current" ELSE @])
  /\ UNCHANGED <<planStatus, customer, invoice, record, gateway, arg, todo, handled, faults>>

\* invoice.paid and invoice.payment_failed: the subscription is looked up first.
FindSubscription(r) ==
  LET ev == Current(r) IN
  /\ pc[r] = "apply" /\ ev.type \in InvoiceTypes /\ Present(ev.sub) /\ ev.inv # 0
  /\ Goto(r, "apply", "invoice")
  /\ UNCHANGED <<database, gateway, arg, todo, settled, handled, faults>>

\* P2025 or NotFoundException: no row has the gatewaySubscriptionId.
\* BadRequestException: a payment without the data of an invoice.
ApplyFails(r) ==
  LET ev == Current(r) IN
  /\ pc[r] = "apply"
  /\ ~Present(ev.sub) \/ (ev.type \in InvoiceTypes /\ ev.inv = 0)
  /\ Goto(r, "apply", "failed")
  /\ UNCHANGED <<database, gateway, arg, todo, settled, handled, faults>>

\* Faulty variant: the invoice takes the status of the subscription.
FaultyInvoiceStatus(ev) == ev.status
InvoiceStatus(ev) == IF ev.type = "invoice.paid" THEN "PAID" ELSE "FAILED"

\* Faulty variant: a failed payment does not reach the subscription.
FaultyAfterInvoice(ev) == "processed"
AfterInvoice(ev) == IF ev.type = "invoice.payment_failed" THEN "pastDue" ELSE "processed"

UpsertInvoice(r) ==
  LET ev == Current(r) IN
  /\ Goto(r, "invoice", AfterInvoice(ev))
  /\ invoice' = [invoice EXCEPT ![ev.inv] = InvoiceStatus(ev)]
  /\ billed' = billed \cup {Head(todo[r])}
  /\ UNCHANGED <<planStatus, customer, row, record, gateway, arg, todo, settled, rejected, faults>>

SetPastDue(r) ==
  /\ Goto(r, "pastDue", "processed")
  /\ WriteStatus(r, [row[Current(r).sub] EXCEPT !.status = "PAST_DUE"])
  /\ UNCHANGED <<planStatus, customer, invoice, record, gateway, arg, todo, handled, faults>>

MarkProcessed(r) ==
  /\ pc[r] = "processed"
  /\ record' = [record EXCEPT ![Head(todo[r])] = "PROCESSED"]
  /\ NextEvent(r)
  /\ UNCHANGED <<planStatus, customer, row, invoice, gateway, settled, handled, faults>>

\* The exception is rethrown: the drained events behind this one are dropped.
MarkFailed(r) ==
  /\ pc[r] = "failed"
  /\ record' = [record EXCEPT ![Head(todo[r])] = "FAILED"]
  /\ Finish(r)
  /\ UNCHANGED <<planStatus, customer, row, invoice, gateway, settled, handled, faults>>

-----------------------------------------------------------------------------
(* Statements of the database, and calls of a gateway over HTTP, that       *)
(* reject without having written.                                           *)

\* The statements of the try block: the catch follows, whatever is written.
HandlerRejects(r) ==
  /\ faults < MaxFaults /\ faults' = faults + 1
  /\ pc[r] \in Tried
  /\ pc' = [pc EXCEPT ![r] = "failed"]
  /\ rejected' = rejected \cup {<<Head(todo[r]), pc[r]>>}
  /\ UNCHANGED <<database, gateway, arg, todo, settled, billed>>

\* Anywhere else, and in the catch itself, the request ends; the simulated
\* gateway answers in memory.
Untried ==
  {"existing", "user", "saveCustomer", "insertRow", "record", "failed", "deletePlan"} \cup
  IF Simulated THEN {} ELSE {"createSubscription", "cancelSubscription"}
RequestRejects(r) ==
  /\ faults < MaxFaults /\ faults' = faults + 1
  /\ pc[r] \in Untried
  /\ Finish(r)
  /\ UNCHANGED <<database, gateway, settled, handled>>

Rejects(r) == HandlerRejects(r) \/ RequestRejects(r)

-----------------------------------------------------------------------------
(* Administration of plans                                                  *)

Stored(p) == planStatus[p] \notin {"absent", "deleted"}

CreatePlan(p) ==
  /\ planStatus[p] = "absent"
  /\ \E st \in {"DRAFT", "PUBLISHED"} : planStatus' = [planStatus EXCEPT ![p] = st]
  /\ UNCHANGED <<customer, row, invoice, record, gateway, request, settled, handled, faults>>

UpdatePlan(p) ==
  /\ Stored(p)
  /\ \E st \in {"DRAFT", "PUBLISHED"} : planStatus' = [planStatus EXCEPT ![p] = st]
  /\ UNCHANGED <<customer, row, invoice, record, gateway, request, settled, handled, faults>>

InUse(p) == \E s \in Sub : row[s].plan = p

BeginRemovePlan(r, p) ==
  /\ Stored(p) /\ ~InUse(p)
  /\ Goto(r, "idle", "deletePlan")
  /\ arg' = [arg EXCEPT ![r].plan = p]
  /\ UNCHANGED <<database, gateway, todo, settled, handled, faults>>

\* The foreign key (onDelete: Restrict) refuses a plan that got a subscription
\* since it was counted.
DeletePlan(r) ==
  LET p == arg[r].plan IN
  /\ pc[r] = "deletePlan"
  /\ Finish(r)
  /\ \/ ~InUse(p) /\ planStatus' = [planStatus EXCEPT ![p] = "deleted"]
     \/ InUse(p) /\ UNCHANGED planStatus
  /\ UNCHANGED <<customer, row, invoice, record, gateway, settled, handled, faults>>

-----------------------------------------------------------------------------
(* Reads, time, the provider, restarts                                      *)

\* AccessControlService.hasActiveEntitlement
Entitled(u) == \E s \in RowsOf(u, Active) : row[s].period # "over"

PeriodEnds(s) ==
  /\ row[s].period = "current"
  /\ row' = [row EXCEPT ![s].period = "over"]
  /\ UNCHANGED <<planStatus, customer, invoice, record, gateway, request, settled, handled, faults>>

Announcements(s) == {i \in Emitted : emitted[i].sub = s}
CanceledAtGateway(s) ==
  \E i \in Announcements(s) : emitted[i].type = "subscription.canceled"

\* Renewals, dunning and cancellations decided by the provider.  A payment
\* that failed may be retried: its invoice id is that of the first attempt.
\* The data of an invoice is optional in the event.
ProviderEmits(s) ==
  LET n == Len(emitted) + 1
      event(type, status, inv) ==
        [type |-> type, sub |-> s, status |-> status, inv |-> inv, http |-> TRUE]
  IN
  /\ ProviderActs /\ Capacity(1)
  /\ Announcements(s) # {} /\ ~CanceledAtGateway(s)
  /\ \/ \E st \in {"ACTIVE", "PAST_DUE"} :
          emitted' = Append(emitted, event("subscription.updated", st, 0))
     \/ emitted' = Append(emitted, event("subscription.canceled", "CANCELED", 0))
     \/ \E i \in {0, n} \cup {emitted[j].inv : j \in Announcements(s)} :
          \/ emitted' = Append(emitted, event("invoice.paid", None, i))
          \/ emitted' = Append(emitted, event("invoice.payment_failed", "PAST_DUE", i))
  /\ UNCHANGED <<database, nCustomer, pending, request, settled, handled, faults>>

\* Only the database survives a restart.
Crash ==
  /\ faults < MaxFaults /\ faults' = faults + 1
  /\ pending' = <<>>
  /\ pc' = [r \in Req |-> "idle"]
  /\ arg' = [r \in Req |-> NoArg]
  /\ todo' = [r \in Req |-> <<>>]
  /\ UNCHANGED <<database, nCustomer, emitted, settled, handled>>

-----------------------------------------------------------------------------
\* A step of a request that has begun.
Step(r) ==
  \/ CheckExisting(r) \/ ReadUser(r) \/ SaveCustomer(r) \/ CreateSubscription(r)
  \/ InsertRow(r) \/ CancelSubscription(r) \/ Drain(r)
  \/ RecordEvent(r) \/ ApplyStatus(r) \/ FindSubscription(r) \/ ApplyFails(r)
  \/ UpsertInvoice(r) \/ SetPastDue(r) \/ MarkProcessed(r) \/ MarkFailed(r)
  \/ DeletePlan(r)

Begin(r) ==
  \/ \E u \in User, p \in Plan : BeginCheckout(r, u, p)
  \/ \E u \in User : BeginCancel(r, u)
  \/ \E e \in Emitted : Webhook(r, e)
  \/ \E p \in Edited : BeginRemovePlan(r, p)

Environment ==
  \/ \E p \in Edited : CreatePlan(p) \/ UpdatePlan(p)
  \/ \E s \in Sub : PeriodEnds(s) \/ ProviderEmits(s)
  \/ \E r \in Req : Rejects(r)
  \/ Crash

Next == (\E r \in Req : Begin(r) \/ Step(r)) \/ Environment

Spec == Init /\ [][Next]_vars

\* The event loop resumes every request whose awaited call has returned.
FairSpec == Spec /\ \A r \in Req : WF_vars(Step(r))

\* Besides, the provider delivers every event again and again.
RetryingSpec ==
  FairSpec /\ \A e \in EventId : SF_vars(\E r \in Req : e \in Emitted /\ Webhook(r, e))

-----------------------------------------------------------------------------
(* Safety                                                                   *)

\* An event is applied by one request at a time, however often and by whomever
\* it is delivered (the unique constraint on payment_webhook_events).
AppliedByOne ==
  \A r, q \in Req :
    r # q /\ pc[r] \in Applying /\ pc[q] \in Applying => Head(todo[r]) # Head(todo[q])

\* Whatever a request does, a subscription that left INCOMPLETE has the status
\* that some event of its own gave it (processWebhookEvent is the only writer).
StatusFromEvents ==
  \A s \in Sub : row[s].status \notin {"absent", "INCOMPLETE"} =>
    \E e \in settled : emitted[e].sub = s /\ emitted[e].status = row[s].status

\* The log of webhook events tells what became of them, across restarts and
\* rejected statements: PROCESSED only with all of the event's writes done, no
\* record only with none, and a FAILED event has written only what came before
\* the statement of its handler that rejected.
RecordTellsTruth ==
  \A e \in Emitted :
    /\ record[e] = "PROCESSED" =>
         /\ emitted[e].status # None => e \in settled
         /\ emitted[e].type \in InvoiceTypes => e \in billed
    /\ record[e] = "none" => e \notin settled \cup billed
    /\ record[e] = "FAILED" =>
         /\ e \in settled => <<e, "processed">> \in rejected
         /\ e \in billed => \E st \in {"pastDue", "processed"} : <<e, st>> \in rejected

\* With the simulated gateway a canceled subscription is never revived.
CanceledIsFinal ==
  [][\A s \in Sub : row[s].status = "CANCELED" => row'[s].status = "CANCELED"]_vars

\* A student never has two subscriptions that both give access.
OneActivePerUser == \A u \in User : Cardinality(RowsOf(u, Active)) <= 1

\* The customer created at the gateway is reused by later checkouts.
OneCustomerPerUser == \A u \in User : nCustomer[u] <= 1

\* What a checkout finds of an earlier one it does not make again: the active
\* subscription, and the customer at the gateway.
OnePerUser == OneActivePerUser /\ OneCustomerPerUser

\* Nobody gets access before the provider activated a subscription of theirs:
\* no step of a checkout gives it, and no event that failed.
AccessConfirmed ==
  \A u \in User : Entitled(u) =>
    \E e \in settled : row[emitted[e].sub].user = u /\ emitted[e].status \in Active

(* Liveness                                                                 *)

\* Every request is eventually answered: the loop over the drained events ends.
RequestsEnd == \A r \in Req : pc[r] # "idle" ~> pc[r] = "idle"

\* Every status the gateway announces reaches the database.
EventsTakeEffect ==
  \A e \in EventId : (e \in Emitted /\ emitted[e].status # None) ~> e \in settled

\* What the service promises when nothing interleaves: while no two requests are
\* in flight at once and none is cut short or refused a statement, a checkout
\* makes nothing again, and every announced status takes effect.
Overlapping == \E q, r \in Req : q # r /\ pc[q] # "idle" /\ pc[r] # "idle"
SequentialService ==
  [](~Overlapping /\ faults = 0) => []OnePerUser /\ EventsTakeEffect

(* Refinement: the database as a client of the webhook log sees it.         *)
Confirmed == INSTANCE ConfirmedSubscriptions
               WITH announced <- emitted, status <- [s \in Sub |-> row[s].status]
ConfirmedSpec == Confirmed!Spec
=============================================================================
