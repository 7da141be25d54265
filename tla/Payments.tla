------------------------------ MODULE Payments ------------------------------
(***************************************************************************)
(* The payment of one order: the provider's events, their delivery to the  *)
(* webhook, the inbox that lets one delivery of an event through, the      *)
(* handlers, fulfilment, and the reconciliation job.  Orders share nothing *)
(* here.                                                                   *)
(*                                                                         *)
(* Each database statement or transaction of a handler is a step; what the *)
(* handler read before it may have changed by then.                        *)
(***************************************************************************)
EXTENDS FiniteSets

CONSTANTS
    Events,     \* provider event ids, each used for at most one event
    Workers,    \* webhook deliveries and reconciliation runs in progress
    Allow,      \* environment behaviours that may happen, see Environment
    None

\* overlap:   the provider delivers while another delivery is in progress.
\* crash:     a process stops between two of its steps.
\* reconcile: the reconciliation job runs.
\* refund:    the money is returned although no ticket has been issued yet.
Environment == {"overlap", "crash", "reconcile", "refund"}

ASSUME ConstantsAssumption == Allow \subseteq Environment /\ None \notin Events

VARIABLES
    intent,  \* the provider's PaymentIntent and what became of its charge
    event,   \* what each event id stands for, "none" when it is not used
    acked,   \* events the provider no longer delivers
    inbox,   \* webhook_inbox status per event
    order,   \* the order row, its payment row and its tickets
    heal,    \* background job reconcile.heal_order:<order>
    task     \* what each worker is doing

vars == <<intent, event, acked, inbox, order, heal, task>>

-----------------------------------------------------------------------------
EventType == {"processing", "succeeded", "failed", "canceled", "refunded", "disputed"}

Intent == [state: {"open", "processing", "succeeded", "canceled"},
           refunded: BOOLEAN, disputed: BOOLEAN]

InboxStatus == {"none", "received", "processed", "failed"}

\* row is the payment row's status; locked says that fulfillmentLockedAt is set.
Order == [status: {"pending_payment", "paid", "fulfilled", "refunded", "disputed"},
          pay: {"pending", "processing", "paid", "failed", "canceled", "refunded", "disputed"},
          row: {"pending", "processing", "paid", "failed", "canceled", "refunded"},
          locked: BOOLEAN, tickets: {"none", "active", "cancelled"}]

\* given_up: needs_attention, or dead_letter after the last attempt.
JobStatus == {"none", "pending", "succeeded", "given_up"}

\* The statement a worker executes next.
Step == {"idle", "reclaim", "read", "settle", "fulfil", "processing", "processingRow",
         "unpay", "unpayRow", "cancel", "refund", "refundTickets", "dispute", "done",
         "verified"}

Task == [step: Step, event: Events \cup {None}]

Idle == [step |-> "idle", event |-> None]

Goto(w, s) == task' = [task EXCEPT ![w].step = s]

Finish(w) == task' = [task EXCEPT ![w] = Idle]

At(w, s) == task[w].step = s

TypeOf(w) == event[task[w].event]

-----------------------------------------------------------------------------
(* The provider. *)

\* One event for every change of the intent.
Emit(type) ==
    \E e \in Events : event[e] = "none" /\ event' = [event EXCEPT ![e] = type]

Provide(type) == Emit(type) /\ UNCHANGED <<acked, inbox, order, heal, task>>

\* A debit has been submitted.
IntentProcesses ==
    /\ intent.state = "open"
    /\ intent' = [intent EXCEPT !.state = "processing"]
    /\ Provide("processing")

IntentSucceeds ==
    /\ intent.state \in {"open", "processing"}
    /\ intent' = [intent EXCEPT !.state = "succeeded"]
    /\ Provide("succeeded")

\* The buyer may try again after a failure, but not after a cancellation.
IntentFails ==
    /\ intent.state \in {"open", "processing"}
    /\ intent' = [intent EXCEPT !.state = "open"]
    /\ Provide("failed")

IntentCancels ==
    /\ intent.state = "open"
    /\ intent' = [intent EXCEPT !.state = "canceled"]
    /\ Provide("canceled")

Returnable == /\ intent.state = "succeeded"
              /\ order.tickets # "none" \/ "refund" \in Allow

ChargeRefunds ==
    /\ Returnable /\ ~intent.refunded
    /\ intent' = [intent EXCEPT !.refunded = TRUE]
    /\ Provide("refunded")

ChargeDisputed ==
    /\ Returnable /\ ~intent.disputed
    /\ intent' = [intent EXCEPT !.disputed = TRUE]
    /\ Provide("disputed")

-----------------------------------------------------------------------------
(* Delivery and the inbox. *)

MayDeliver(w, e) ==
    /\ event[e] # "none" /\ e \notin acked
    /\ task[w] = Idle
    /\ "overlap" \in Allow \/ \A v \in Workers : task[v].event = None

\* The inbox row is created: this delivery owns the event.
Claim(w, e) ==
    /\ MayDeliver(w, e) /\ inbox[e] = "none"
    /\ inbox' = [inbox EXCEPT ![e] = "received"]
    /\ task' = [task EXCEPT ![w] = [step |-> "read", event |-> e]]
    /\ UNCHANGED <<intent, event, acked, order, heal>>

\* Mutant: an event is taken up once, whatever became of it.
NeverReclaimable(status) == FALSE

\* The row exists: a processed event and one in flight are acknowledged, ...
Reclaimable(status) == status = "failed"

Duplicate(w, e) ==
    /\ MayDeliver(w, e) /\ inbox[e] # "none" /\ ~Reclaimable(inbox[e])
    /\ acked' = acked \cup {e}
    /\ UNCHANGED <<intent, event, inbox, order, heal, task>>

\* ... a failed one is taken up again.
SeeFailed(w, e) ==
    /\ MayDeliver(w, e) /\ inbox[e] # "none" /\ Reclaimable(inbox[e])
    /\ task' = [task EXCEPT ![w] = [step |-> "reclaim", event |-> e]]
    /\ UNCHANGED <<intent, event, acked, inbox, order, heal>>

Reclaim(w) ==
    /\ At(w, "reclaim")
    /\ inbox' = [inbox EXCEPT ![task[w].event] = "received"]
    /\ Goto(w, "read")
    /\ UNCHANGED <<intent, event, acked, order, heal>>

MarkProcessed(w) ==
    /\ At(w, "done")
    /\ inbox' = [inbox EXCEPT ![task[w].event] = "processed"]
    /\ acked' = acked \cup {task[w].event}
    /\ Finish(w)
    /\ UNCHANGED <<intent, event, order, heal>>

\* The handler throws: the row is marked and the provider delivers again.  The
\* update that takes up a failed event again is outside of the try.
Fail(w) ==
    /\ task[w].event # None
    /\ inbox' = [inbox EXCEPT ![task[w].event] = IF At(w, "reclaim") THEN @ ELSE "failed"]
    /\ Finish(w)
    /\ UNCHANGED <<intent, event, acked, order, heal>>

-----------------------------------------------------------------------------
(* The handlers.  Reading the order decides which statements follow. *)

\* Mutant: a late failure is not recognised.
NeverSettled == FALSE

\* A late failure or cancellation leaves a settled order alone, ...
Settled == order.pay \in {"paid", "refunded", "disputed"} \/ order.locked

\* ... and so does a late `processing`.
SettledOrPaid == Settled \/ order.status \in {"paid", "fulfilled"}

\* Mutant: a submitted debit counts as paid.
FirstStepEarly(type) ==
    CASE type \in {"succeeded", "processing"} -> "settle"
      [] type \in {"failed", "canceled"} -> IF Settled THEN "done" ELSE "unpay"
      [] type = "refunded"   -> "refund"
      [] type = "disputed"   -> "dispute"

FirstStep(type) ==
    CASE type = "succeeded"  -> IF order.pay = "paid" /\ order.locked THEN "done" ELSE "settle"
      [] type = "processing" -> IF SettledOrPaid THEN "done" ELSE "processing"
      [] type \in {"failed", "canceled"} -> IF Settled THEN "done" ELSE "unpay"
      [] type = "refunded"   -> "refund"
      [] type = "disputed"   -> "dispute"

ReadOrder(w) ==
    /\ At(w, "read")
    /\ Goto(w, FirstStep(TypeOf(w)))
    /\ UNCHANGED <<intent, event, acked, inbox, order, heal>>

\* One statement on the order, its payment row or its tickets.
Write(w, from, to, o) ==
    /\ At(w, from)
    /\ order' = o
    /\ Goto(w, to)
    /\ UNCHANGED <<intent, event, acked, inbox, heal>>

PaidOrder == [order EXCEPT !.row = "paid", !.status = "paid", !.pay = "paid"]

\* Mutant: the tickets of a refunded order are left valid.
KeepTickets(o) == o

CancelTickets(o) ==
    [o EXCEPT !.tickets = IF o.tickets = "active" THEN "cancelled" ELSE o.tickets]

Settle(w) ==
    Write(w, "settle", "fulfil", PaidOrder)

MarkProcessing(w) ==
    \/ Write(w, "processing", "processingRow",
             [order EXCEPT !.status = "pending_payment", !.pay = "processing"])
    \/ Write(w, "processingRow", "done", [order EXCEPT !.row = "processing"])

\* The order, its payment row and its tickets, then the holds (module Inventory).
MarkUnpaid(w) ==
    \/ Write(w, "unpay", "unpayRow", [order EXCEPT !.pay = TypeOf(w)])
    \/ Write(w, "unpayRow", "cancel", [order EXCEPT !.row = TypeOf(w)])
    \/ Write(w, "cancel", "done", CancelTickets(order))

Refund(w) ==
    \/ Write(w, "refund", "refundTickets",
             [order EXCEPT !.status = "refunded", !.pay = "refunded"])
    \/ Write(w, "refundTickets", "done", [CancelTickets(order) EXCEPT !.row = "refunded"])

Dispute(w) ==
    Write(w, "dispute", "done",
          [CancelTickets(order) EXCEPT !.status = "disputed", !.pay = "disputed"])

-----------------------------------------------------------------------------
(* fulfillPaidOrder: one transaction under the lock of the order row. *)

Fulfillable == order.row = "paid" /\ order.pay # "processing"

\* Mutant: minting asks for the status, not for tickets that exist.
FulfilledAnew ==
    IF order.locked /\ order.status = "fulfilled" THEN order
    ELSE [order EXCEPT !.locked = TRUE, !.status = "fulfilled", !.tickets = "active"]

Fulfilled ==
    IF order.locked /\ order.status = "fulfilled" /\ order.tickets # "none" THEN order
    ELSE [order EXCEPT !.locked = TRUE, !.status = "fulfilled",
                       !.tickets = IF order.tickets = "none" THEN "active" ELSE order.tickets]

Fulfil(w) == Fulfillable /\ Write(w, "fulfil", "done", Fulfilled)

\* PAYMENT_NOT_PAID, PAYMENT_NOT_CONFIRMED.
Refused(w) == At(w, "fulfil") /\ ~Fulfillable

FulfilRefuses(w) == Refused(w) /\ Fail(w)

\* Any statement may fail for reasons of its own.
StatementFails(w) == ~Refused(w) /\ Fail(w)

-----------------------------------------------------------------------------
(* runCommerceReconciliation and the job it enqueues. *)

\* A job that succeeded, or is still to run, is left alone.
Enqueued == IF heal \in {"none", "given_up"} THEN "pending" ELSE heal

\* Paid, but without tickets.
Unserved == /\ order.pay = "paid" \/ order.status \in {"paid", "fulfilled"}
            /\ order.tickets = "none"

ReconcilePaid(w) ==
    /\ "reconcile" \in Allow
    /\ task[w] = Idle /\ Unserved
    /\ \/ order.row = "paid" /\ heal' = Enqueued /\ UNCHANGED task
       \/ /\ order.row # "paid" /\ intent.state = "succeeded"
          /\ Goto(w, "verified") /\ UNCHANGED heal
    /\ UNCHANGED <<intent, event, acked, inbox, order>>

\* The provider has confirmed the payment.
ReconcileRow(w) ==
    /\ At(w, "verified")
    /\ order' = PaidOrder
    /\ heal' = Enqueued
    /\ Finish(w)
    /\ UNCHANGED <<intent, event, acked, inbox>>

\* A failed `succeeded` event is handed to the job and its inbox row reset.
ReconcileInbox(e) ==
    /\ "reconcile" \in Allow
    /\ inbox[e] = "failed" /\ event[e] = "succeeded"
    /\ heal' = Enqueued
    /\ inbox' = [inbox EXCEPT ![e] = "received"]
    /\ UNCHANGED <<intent, event, acked, order, task>>

\* Paid by any account; without tickets, payable to the rules of fulfilment.
Healable == /\ order.pay = "paid" \/ order.status \in {"paid", "fulfilled"} \/ order.row = "paid"
            /\ order.tickets = "none" => Fulfillable

\* healPaidOrder; fulfilment decides in its own transaction.
RunHeal ==
    /\ heal = "pending"
    /\ \/ /\ Healable /\ order.tickets = "none"
          /\ order' = Fulfilled /\ heal' = "succeeded"
       \/ /\ Healable /\ order.tickets # "none"
          /\ heal' = "succeeded" /\ UNCHANGED order
       \/ /\ ~Healable
          /\ heal' = "given_up" /\ UNCHANGED order
    /\ UNCHANGED <<intent, event, acked, inbox, task>>

-----------------------------------------------------------------------------
Crash(w) ==
    /\ "crash" \in Allow
    /\ task[w] # Idle
    /\ Finish(w)
    /\ UNCHANGED <<intent, event, acked, inbox, order, heal>>

Init ==
    /\ intent = [state |-> "open", refunded |-> FALSE, disputed |-> FALSE]
    /\ event = [e \in Events |-> "none"]
    /\ acked = {}
    /\ inbox = [e \in Events |-> "none"]
    /\ order = [status |-> "pending_payment", pay |-> "pending", row |-> "pending",
                locked |-> FALSE, tickets |-> "none"]
    /\ heal = "none"
    /\ task = [w \in Workers |-> Idle]

Provider ==
    \/ IntentProcesses
    \/ IntentSucceeds
    \/ IntentFails
    \/ IntentCancels
    \/ ChargeRefunds
    \/ ChargeDisputed

Deliver(w) ==
    \E e \in Events : \/ Claim(w, e)
                      \/ Duplicate(w, e)
                      \/ SeeFailed(w, e)

Handle(w) ==
    \/ Reclaim(w)
    \/ ReadOrder(w)
    \/ Settle(w)
    \/ Fulfil(w)
    \/ FulfilRefuses(w)
    \/ MarkProcessing(w)
    \/ MarkUnpaid(w)
    \/ Refund(w)
    \/ Dispute(w)
    \/ MarkProcessed(w)

Reconcile(w) == ReconcilePaid(w) \/ ReconcileRow(w)

Next ==
    \/ Provider
    \/ \E w \in Workers : Deliver(w) \/ Handle(w) \/ StatementFails(w) \/ Reconcile(w) \/ Crash(w)
    \/ \E e \in Events : ReconcileInbox(e)
    \/ RunHeal

Spec == Init /\ [][Next]_vars

\* The provider delivers an unacknowledged event again and again; a handler
\* that is never interrupted for good takes its steps, and outages end, so that
\* statements fail finitely often.  Nothing makes a buyer pay, a process crash,
\* or an operator refund.
Fairness ==
    /\ \A w \in Workers, e \in Events : SF_vars(Claim(w, e) \/ SeeFailed(w, e))
    /\ \A w \in Workers : WF_vars(Handle(w)) /\ WF_vars(Reconcile(w))
    /\ WF_vars(RunHeal)
    /\ <>[][\A w \in Workers : ~StatementFails(w)]_vars

FairSpec == Spec /\ Fairness
=============================================================================
