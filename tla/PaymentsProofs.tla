--------------------------- MODULE PaymentsProofs ---------------------------
(* Type correctness, money before tickets, minting once, no ticket after a    *)
(* refund, and, when deliveries do not overlap, the refinement of             *)
(* TicketPromise, proved for any number of events and workers.                *)
EXTENDS PaymentsProps, TLAPS

\* The types of event whose handler contains a step.
TypesAt(s) ==
    CASE s \in {"settle", "fulfil"}              -> {"succeeded"}
      [] s \in {"processing", "processingRow"}   -> {"processing"}
      [] s \in {"unpay", "unpayRow", "cancel"}   -> {"failed", "canceled"}
      [] s \in {"refund", "refundTickets"}       -> {"refunded"}
      [] s = "dispute"                           -> {"disputed"}
      [] OTHER                                   -> EventType

\* A worker is in a handler exactly while it has an event, and in the handler
\* of the event's type.
HandlerFits(t) ==
    /\ t.event = None <=> t.step \in {"idle", "verified"}
    /\ t.event # None => event[t.event] \in TypesAt(t.step)

InItsHandler == \A w \in Workers : HandlerFits(task[w])

-----------------------------------------------------------------------------
(* Updates of one worker's task and of the order. *)

LEMMA SetTask ==
    ASSUME task \in [Workers -> Task], NEW w \in Workers, NEW t \in Task,
           task' = [task EXCEPT ![w] = t]
    PROVE  /\ task' \in [Workers -> Task]
           /\ task'[w] = t
           /\ \A v \in Workers \ {w} : task'[v] = task[v]
OBVIOUS

LEMMA GotoTask ==
    ASSUME task \in [Workers -> Task], NEW w \in Workers, NEW s \in Step, Goto(w, s)
    PROVE  /\ task' \in [Workers -> Task]
           /\ task'[w].step = s /\ task'[w].event = task[w].event
           /\ \A v \in Workers \ {w} : task'[v] = task[v]
<1>1. [task[w] EXCEPT !.step = s] \in Task
  BY DEF Task
<1>2. task' = [task EXCEPT ![w] = [task[w] EXCEPT !.step = s]]
  BY DEF Goto
<1>3. /\ [task[w] EXCEPT !.step = s].step = s
      /\ [task[w] EXCEPT !.step = s].event = task[w].event
  BY DEF Task
<1>. QED  BY <1>1, <1>2, <1>3, SetTask

LEMMA FinishTask ==
    ASSUME task \in [Workers -> Task], NEW w \in Workers, Finish(w)
    PROVE  /\ task' \in [Workers -> Task]
           /\ task'[w].step = "idle" /\ task'[w].event = None
           /\ \A v \in Workers \ {w} : task'[v] = task[v]
<1>1. Idle \in Task /\ Idle.step = "idle" /\ Idle.event = None
  BY DEF Idle, Task, Step
<1>. QED  BY <1>1, SetTask DEF Finish

\* Every order row a statement writes.
LEMMA OrderTyped ==
    ASSUME order \in Order
    PROVE  /\ PaidOrder \in Order
           /\ [order EXCEPT !.status = "pending_payment", !.pay = "processing"] \in Order
           /\ [order EXCEPT !.row = "processing"] \in Order
           /\ \A type \in {"failed", "canceled"} :
                 /\ [order EXCEPT !.pay = type] \in Order
                 /\ [order EXCEPT !.row = type] \in Order
           /\ CancelTickets(order) \in Order
           /\ [order EXCEPT !.status = "refunded", !.pay = "refunded"] \in Order
           /\ [CancelTickets(order) EXCEPT !.row = "refunded"] \in Order
           /\ [CancelTickets(order) EXCEPT !.status = "disputed", !.pay = "disputed"] \in Order
           /\ Fulfilled \in Order
BY DEF Order, PaidOrder, CancelTickets, Fulfilled

-----------------------------------------------------------------------------
(* Types: a handler writes its event's type into the order, so that types rest *)
(* on each worker being in the right handler.                                  *)

HandlerInv == TypeOK /\ InItsHandler

LEMMA SomeTypes ==
    ASSUME NEW s \in Step
    PROVE  TypesAt(s) \subseteq EventType /\ "none" \notin TypesAt(s)
BY DEF TypesAt, EventType, Step

LEMMA HandlerGoes ==
    ASSUME HandlerInv, UNCHANGED event, NEW w \in Workers, NEW s \in Step,
           s \notin {"idle", "verified"}, task[w].event # None,
           event[task[w].event] \in TypesAt(s), Goto(w, s)
    PROVE  task' \in [Workers -> Task] /\ InItsHandler'
<1>1. task \in [Workers -> Task]
  BY DEF HandlerInv, TypeOK
<1>2. HandlerFits(task[w])'
  BY <1>1, GotoTask DEF HandlerFits
<1>3. ASSUME NEW v \in Workers \ {w} PROVE HandlerFits(task[v])'
  BY <1>1, GotoTask DEF HandlerInv, InItsHandler, HandlerFits
<1>. QED  BY <1>1, <1>2, <1>3, GotoTask DEF InItsHandler

LEMMA HandlerEnds ==
    ASSUME HandlerInv, UNCHANGED event, NEW w \in Workers, Finish(w)
    PROVE  task' \in [Workers -> Task] /\ InItsHandler'
<1>1. task \in [Workers -> Task]
  BY DEF HandlerInv, TypeOK
<1>2. HandlerFits(task[w])'
  BY <1>1, FinishTask DEF HandlerFits
<1>3. ASSUME NEW v \in Workers \ {w} PROVE HandlerFits(task[v])'
  BY <1>1, FinishTask DEF HandlerInv, InItsHandler, HandlerFits
<1>. QED  BY <1>1, <1>2, <1>3, FinishTask DEF InItsHandler

LEMMA ProviderTypes ==
    ASSUME HandlerInv, NEW type \in EventType, Provide(type), intent' \in Intent
    PROVE  HandlerInv'
<1>. USE DEF HandlerInv
<1>1. PICK e \in Events : event[e] = "none" /\ event' = [event EXCEPT ![e] = type]
  BY DEF Provide, Emit
<1>2. event' \in [Events -> EventType \cup {"none"}]
  BY <1>1 DEF TypeOK
<1>3. ASSUME NEW w \in Workers PROVE HandlerFits(task[w])'
  <2>1. task[w] \in Task
    BY DEF TypeOK
  <2>2. CASE task[w].event = None
    BY <2>2 DEF Provide, InItsHandler, HandlerFits
  <2>3. CASE task[w].event # None
    <3>1. event[task[w].event] \in TypesAt(task[w].step)
      BY <2>3 DEF InItsHandler, HandlerFits
    <3>2. task[w].event # e
      BY <1>1, <2>1, <3>1, SomeTypes DEF Task
    <3>3. event'[task[w].event] = event[task[w].event]
      BY <1>1, <2>1, <2>3, <3>2 DEF TypeOK, Task
    <3>. QED  BY <3>1, <3>3 DEF Provide, InItsHandler, HandlerFits
  <2>. QED  BY <2>2, <2>3
<1>. QED  BY <1>2, <1>3 DEF TypeOK, Provide, InItsHandler

LEMMA HandlerInit == Init => HandlerInv
<1>. SUFFICES ASSUME Init PROVE HandlerInv
  OBVIOUS
<1>1. Idle \in Task
  BY DEF Idle, Task, Step
<1>2. TypeOK
  BY <1>1 DEF Init, TypeOK, Intent, Order, InboxStatus, JobStatus
<1>3. InItsHandler
  BY DEF Init, Idle, InItsHandler, HandlerFits
<1>. QED  BY <1>2, <1>3 DEF HandlerInv

LEMMA ProviderStep == HandlerInv /\ Provider => HandlerInv'
<1>. SUFFICES ASSUME HandlerInv, Provider PROVE HandlerInv'
  OBVIOUS
<1>0. intent \in Intent
  BY DEF HandlerInv, TypeOK
<1>1. CASE IntentProcesses
  <2>1. intent' \in Intent
    BY <1>0, <1>1 DEF IntentProcesses, Intent
  <2>. QED  BY <1>1, <2>1, ProviderTypes DEF IntentProcesses, EventType
<1>2. CASE IntentSucceeds
  <2>1. intent' \in Intent
    BY <1>0, <1>2 DEF IntentSucceeds, Intent
  <2>. QED  BY <1>2, <2>1, ProviderTypes DEF IntentSucceeds, EventType
<1>3. CASE IntentFails
  <2>1. intent' \in Intent
    BY <1>0, <1>3 DEF IntentFails, Intent
  <2>. QED  BY <1>3, <2>1, ProviderTypes DEF IntentFails, EventType
<1>4. CASE IntentCancels
  <2>1. intent' \in Intent
    BY <1>0, <1>4 DEF IntentCancels, Intent
  <2>. QED  BY <1>4, <2>1, ProviderTypes DEF IntentCancels, EventType
<1>5. CASE ChargeRefunds
  <2>1. intent' \in Intent
    BY <1>0, <1>5 DEF ChargeRefunds, Intent
  <2>. QED  BY <1>5, <2>1, ProviderTypes DEF ChargeRefunds, EventType
<1>6. CASE ChargeDisputed
  <2>1. intent' \in Intent
    BY <1>0, <1>6 DEF ChargeDisputed, Intent
  <2>. QED  BY <1>6, <2>1, ProviderTypes DEF ChargeDisputed, EventType
<1>. QED  BY <1>1, <1>2, <1>3, <1>4, <1>5, <1>6 DEF Provider

LEMMA DeliverStep ==
    ASSUME HandlerInv, NEW w \in Workers, NEW e \in Events,
           Claim(w, e) \/ Duplicate(w, e) \/ SeeFailed(w, e)
    PROVE  HandlerInv'
<1>. USE ConstantsAssumption DEF HandlerInv
<1>1. ASSUME NEW s \in {"read", "reclaim"}, event[e] # "none", UNCHANGED event,
             task' = [task EXCEPT ![w] = [step |-> s, event |-> e]]
      PROVE  task' \in [Workers -> Task] /\ InItsHandler'
  <2>. DEFINE t == [step |-> s, event |-> e]
  <2>1. t \in Task /\ t.step = s /\ t.event = e
    BY <1>1 DEF Task, Step
  <2>2. task' \in [Workers -> Task] /\ task'[w] = t /\ \A v \in Workers \ {w} : task'[v] = task[v]
    BY <1>1, <2>1, SetTask DEF TypeOK
  <2>3. event[e] \in TypesAt(s)
    BY <1>1 DEF TypesAt, TypeOK
  <2>4. HandlerFits(task[w])'
    BY <1>1, <2>1, <2>2, <2>3 DEF HandlerFits
  <2>5. ASSUME NEW v \in Workers \ {w} PROVE HandlerFits(task[v])'
    BY <1>1, <2>2 DEF InItsHandler, HandlerFits
  <2>. QED  BY <2>2, <2>4, <2>5 DEF InItsHandler
<1>2. CASE Claim(w, e)
  <2>1. inbox' \in [Events -> InboxStatus]
    BY <1>2 DEF Claim, TypeOK, InboxStatus
  <2>. QED  BY <1>1, <1>2, <2>1 DEF Claim, MayDeliver, TypeOK
<1>3. CASE Duplicate(w, e)
  BY <1>3 DEF Duplicate, TypeOK, InItsHandler, HandlerFits
<1>4. CASE SeeFailed(w, e)
  BY <1>1, <1>4 DEF SeeFailed, MayDeliver, TypeOK
<1>. QED  BY <1>2, <1>3, <1>4

\* From one step of a handler to a step of the same handler, or its end.
Move(from, to) == {from, to} \subseteq Step \ {"idle", "verified"} /\ TypesAt(from) \subseteq TypesAt(to)

LEMMA Moves ==
    /\ Move("settle", "fulfil") /\ Move("fulfil", "done")
    /\ Move("processing", "processingRow") /\ Move("processingRow", "done")
    /\ Move("unpay", "unpayRow") /\ Move("unpayRow", "cancel") /\ Move("cancel", "done")
    /\ Move("refund", "refundTickets") /\ Move("refundTickets", "done")
    /\ Move("dispute", "done")
BY DEF Move, Step, TypesAt, EventType

\* A statement on the order, in the right handler.
LEMMA WriteTypes ==
    ASSUME HandlerInv, NEW w \in Workers, NEW from, NEW to, NEW o \in Order, Move(from, to),
           Write(w, from, to, o)
    PROVE  HandlerInv'
<1>1. task[w].event # None /\ event[task[w].event] \in TypesAt(from)
  BY DEF Write, At, HandlerInv, InItsHandler, HandlerFits, Move
<1>2. task' \in [Workers -> Task] /\ InItsHandler'
  BY <1>1, HandlerGoes DEF Write, Move
<1>. QED  BY <1>2 DEF HandlerInv, TypeOK, Write

\* A worker in a step has an event of that step's types.
LEMMA AtStep ==
    ASSUME HandlerInv, NEW w \in Workers, NEW s \in Step, At(w, s), s \notin {"idle", "verified"}
    PROVE  task[w].event \in Events /\ TypeOf(w) \in TypesAt(s)
BY DEF HandlerInv, TypeOK, InItsHandler, HandlerFits, At, TypeOf, Task

LEMMA HandleStep ==
    ASSUME HandlerInv, NEW w \in Workers, Handle(w)
    PROVE  HandlerInv'
<1>. USE DEF HandlerInv
<1>0. order \in Order
  BY DEF TypeOK
<1>1. CASE Reclaim(w)
  <2>1. task[w].event \in Events /\ TypeOf(w) \in TypesAt("reclaim")
    BY <1>1, AtStep DEF Reclaim, Step
  <2>2. inbox' \in [Events -> InboxStatus]
    BY <1>1 DEF Reclaim, TypeOK, InboxStatus
  <2>3. task' \in [Workers -> Task] /\ InItsHandler'
    BY <1>1, <2>1, ConstantsAssumption, HandlerGoes DEF Reclaim, TypeOf, TypesAt, Step
  <2>. QED  BY <1>1, <2>2, <2>3 DEF Reclaim, TypeOK
<1>2. CASE ReadOrder(w)
  <2>1. task[w].event \in Events /\ TypeOf(w) \in EventType
    BY <1>2, AtStep DEF ReadOrder, TypesAt, Step
  <2>. DEFINE s == FirstStep(TypeOf(w))
  <2>2. s \in Step \ {"idle", "verified"} /\ TypeOf(w) \in TypesAt(s)
    BY <2>1 DEF FirstStep, TypesAt, Step, EventType
  <2>3. task' \in [Workers -> Task] /\ InItsHandler'
    <3>. HIDE DEF s
    <3>1. Goto(w, s) /\ UNCHANGED event
      BY <1>2 DEF ReadOrder, s
    <3>. QED  BY <2>1, <2>2, <3>1, ConstantsAssumption, HandlerGoes DEF TypeOf
  <2>. QED  BY <1>2, <2>3 DEF ReadOrder, TypeOK
<1>3. CASE Settle(w)
  BY <1>0, <1>3, OrderTyped, Moves, WriteTypes DEF Settle
<1>4. CASE Fulfil(w)
  BY <1>0, <1>4, OrderTyped, Moves, WriteTypes DEF Fulfil
<1>5. CASE FulfilRefuses(w)
  <2>1. task[w].event \in Events
    BY <1>5, AtStep DEF FulfilRefuses, Refused, Step
  <2>2. inbox' \in [Events -> InboxStatus]
    BY <1>5, <2>1 DEF FulfilRefuses, Fail, TypeOK, InboxStatus
  <2>. QED  BY <1>5, <2>2, HandlerEnds DEF FulfilRefuses, Fail, TypeOK
<1>6. CASE MarkProcessing(w)
  BY <1>0, <1>6, OrderTyped, Moves, WriteTypes DEF MarkProcessing
<1>7. CASE MarkUnpaid(w)
  <2>1. TypeOf(w) \in {"failed", "canceled"}
    BY <1>7, AtStep DEF MarkUnpaid, Write, TypesAt, Step
  <2>. QED  BY <1>0, <1>7, <2>1, OrderTyped, Moves, WriteTypes DEF MarkUnpaid
<1>8. CASE Refund(w)
  BY <1>0, <1>8, OrderTyped, Moves, WriteTypes DEF Refund
<1>9. CASE Dispute(w)
  BY <1>0, <1>9, OrderTyped, Moves, WriteTypes DEF Dispute
<1>10. CASE MarkProcessed(w)
  <2>1. task[w].event \in Events
    BY <1>10, AtStep DEF MarkProcessed, Step
  <2>2. inbox' \in [Events -> InboxStatus]
    BY <1>10, <2>1 DEF MarkProcessed, TypeOK, InboxStatus
  <2>. QED  BY <1>10, <2>1, <2>2, HandlerEnds DEF MarkProcessed, TypeOK
<1>. QED  BY <1>1, <1>2, <1>3, <1>4, <1>5, <1>6, <1>7, <1>8, <1>9, <1>10 DEF Handle

LEMMA ReconcileStep == ASSUME HandlerInv, NEW w \in Workers, Reconcile(w) PROVE HandlerInv'
<1>. USE DEF HandlerInv
<1>1. Enqueued \in JobStatus
  BY DEF Enqueued, JobStatus, TypeOK
<1>2. CASE ReconcilePaid(w)
  <2>1. CASE UNCHANGED task /\ heal' = Enqueued
    BY <1>1, <1>2, <2>1 DEF ReconcilePaid, TypeOK, InItsHandler, HandlerFits
  <2>2. CASE Goto(w, "verified") /\ UNCHANGED heal
    <3>1. /\ task' \in [Workers -> Task]
          /\ task'[w].step = "verified" /\ task'[w].event = None
          /\ \A v \in Workers \ {w} : task'[v] = task[v]
      BY <1>2, <2>2, GotoTask DEF ReconcilePaid, TypeOK, Idle, Step
    <3>2. \A v \in Workers : HandlerFits(task[v])'
      BY <1>2, <3>1 DEF ReconcilePaid, InItsHandler, HandlerFits
    <3>. QED  BY <1>2, <2>2, <3>1, <3>2 DEF ReconcilePaid, TypeOK, InItsHandler
  <2>. QED  BY <1>2, <2>1, <2>2 DEF ReconcilePaid
<1>3. CASE ReconcileRow(w)
  <2>1. order' \in Order
    BY <1>3, OrderTyped DEF ReconcileRow, TypeOK, PaidOrder
  <2>. QED  BY <1>1, <1>3, <2>1, HandlerEnds DEF ReconcileRow, TypeOK
<1>. QED  BY <1>2, <1>3 DEF Reconcile

LEMMA HandlerStep == HandlerInv /\ [Next]_vars => HandlerInv'
<1>. SUFFICES ASSUME HandlerInv, [Next]_vars PROVE HandlerInv'
  OBVIOUS
<1>1. CASE Provider
  BY <1>1, ProviderStep
<1>2. ASSUME NEW w \in Workers, Deliver(w) PROVE HandlerInv'
  BY <1>2, DeliverStep DEF Deliver
<1>3. ASSUME NEW w \in Workers, Handle(w) PROVE HandlerInv'
  BY <1>3, HandleStep
<1>4. ASSUME NEW w \in Workers, StatementFails(w) PROVE HandlerInv'
  <2>1. inbox' \in [Events -> InboxStatus]
    BY <1>4 DEF StatementFails, Fail, HandlerInv, TypeOK, InboxStatus
  <2>. QED  BY <1>4, <2>1, HandlerEnds DEF StatementFails, Fail, HandlerInv, TypeOK
<1>5. ASSUME NEW w \in Workers, Reconcile(w) PROVE HandlerInv'
  BY <1>5, ReconcileStep
<1>6. ASSUME NEW w \in Workers, Crash(w) PROVE HandlerInv'
  BY <1>6, HandlerEnds DEF Crash, HandlerInv, TypeOK
<1>7. ASSUME NEW e \in Events, ReconcileInbox(e) PROVE HandlerInv'
  <2>1. inbox' \in [Events -> InboxStatus] /\ heal' \in JobStatus
    BY <1>7 DEF ReconcileInbox, Enqueued, HandlerInv, TypeOK, InboxStatus, JobStatus
  <2>. QED  BY <1>7, <2>1 DEF ReconcileInbox, HandlerInv, TypeOK, InItsHandler, HandlerFits
<1>8. CASE RunHeal
  <2>1. order' \in Order /\ heal' \in JobStatus
    BY <1>8, OrderTyped DEF RunHeal, HandlerInv, TypeOK, JobStatus
  <2>. QED  BY <1>8, <2>1 DEF RunHeal, HandlerInv, TypeOK, InItsHandler, HandlerFits
<1>9. CASE UNCHANGED vars
  BY <1>9 DEF vars, HandlerInv, TypeOK, InItsHandler, HandlerFits
<1>. QED  BY <1>1, <1>2, <1>3, <1>4, <1>5, <1>6, <1>7, <1>8, <1>9 DEF Next

LEMMA HandlerAlways == Spec => []HandlerInv
BY HandlerInit, HandlerStep, PTL DEF Spec

\* Every variable keeps its type, however many events and workers there are:
\* the rows written by processStripeWebhookEvent, fulfillPaidOrder, the
\* reconciliation and the job.
THEOREM TypeCorrect == Spec => []TypeOK
<1>1. HandlerInv => TypeOK
  BY DEF HandlerInv
<1>. QED  BY <1>1, HandlerAlways, PTL

-----------------------------------------------------------------------------
(* Money before tickets. *)

\* An event tells the truth about the intent.
Backs(e) == /\ event[e] = "succeeded" => intent.state = "succeeded"
            /\ event[e] = "refunded" => intent.refunded
            /\ event[e] = "disputed" => intent.disputed

IntentSound == intent.refunded \/ intent.disputed => intent.state = "succeeded"

\* What the database takes for paid has been paid.
PaidIsTrue ==
    /\ order.row = "paid" => intent.state = "succeeded"
    /\ \A w \in Workers : At(w, "verified") => intent.state = "succeeded"

MoneyFacts == /\ \A e \in Events : Backs(e)
              /\ IntentSound
              /\ PaidIsTrue
              /\ TicketsNeedMoney

LEMMA ProviderMoney ==
    ASSUME HandlerInv, MoneyFacts, NEW type \in EventType, Provide(type), intent' \in Intent,
           intent.state = "succeeded" => intent'.state = "succeeded",
           intent.refunded => intent'.refunded, intent.disputed => intent'.disputed,
           type = "succeeded" => intent'.state = "succeeded",
           type = "refunded" => intent'.refunded, type = "disputed" => intent'.disputed,
           IntentSound'
    PROVE  MoneyFacts'
<1>1. PICK e \in Events : event[e] = "none" /\ event' = [event EXCEPT ![e] = type]
  BY DEF Provide, Emit
<1>2. ASSUME NEW f \in Events PROVE Backs(f)'
  <2>1. event'[f] = IF f = e THEN type ELSE event[f]
    BY <1>1 DEF HandlerInv, TypeOK
  <2>. QED  BY <2>1 DEF MoneyFacts, Backs
<1>3. PaidIsTrue' /\ TicketsNeedMoney'
  BY DEF MoneyFacts, PaidIsTrue, TicketsNeedMoney, Provide, At
<1>. QED  BY <1>2, <1>3 DEF MoneyFacts

LEMMA IntentMoney == HandlerInv /\ MoneyFacts /\ Provider => MoneyFacts'
<1>. SUFFICES ASSUME HandlerInv, MoneyFacts, Provider PROVE MoneyFacts'
  OBVIOUS
<1>0. intent \in Intent /\ IntentSound
  BY DEF HandlerInv, TypeOK, MoneyFacts
<1>1. CASE IntentProcesses
  <2>1. /\ intent' \in Intent /\ intent'.state = "processing"
        /\ intent'.refunded = intent.refunded /\ intent'.disputed = intent.disputed
    BY <1>0, <1>1 DEF IntentProcesses, Intent
  <2>. QED  BY <1>0, <1>1, <2>1, ProviderMoney DEF IntentProcesses, EventType, IntentSound
<1>2. CASE IntentSucceeds
  <2>1. /\ intent' \in Intent /\ intent'.state = "succeeded"
        /\ intent'.refunded = intent.refunded /\ intent'.disputed = intent.disputed
    BY <1>0, <1>2 DEF IntentSucceeds, Intent
  <2>. QED  BY <1>0, <1>2, <2>1, ProviderMoney DEF IntentSucceeds, EventType, IntentSound
<1>3. CASE IntentFails
  <2>1. /\ intent' \in Intent /\ intent.state # "succeeded"
        /\ intent'.refunded = intent.refunded /\ intent'.disputed = intent.disputed
    BY <1>0, <1>3 DEF IntentFails, Intent
  <2>. QED  BY <1>0, <1>3, <2>1, ProviderMoney DEF IntentFails, EventType, IntentSound
<1>4. CASE IntentCancels
  <2>1. /\ intent' \in Intent /\ intent.state # "succeeded"
        /\ intent'.refunded = intent.refunded /\ intent'.disputed = intent.disputed
    BY <1>0, <1>4 DEF IntentCancels, Intent
  <2>. QED  BY <1>0, <1>4, <2>1, ProviderMoney DEF IntentCancels, EventType, IntentSound
<1>5. CASE ChargeRefunds
  <2>1. /\ intent' \in Intent /\ intent.state = "succeeded" /\ intent'.state = "succeeded"
        /\ intent'.refunded = TRUE /\ intent'.disputed = intent.disputed
    BY <1>0, <1>5 DEF ChargeRefunds, Returnable, Intent
  <2>. QED  BY <1>0, <1>5, <2>1, ProviderMoney DEF ChargeRefunds, EventType, IntentSound
<1>6. CASE ChargeDisputed
  <2>1. /\ intent' \in Intent /\ intent.state = "succeeded" /\ intent'.state = "succeeded"
        /\ intent'.refunded = intent.refunded /\ intent'.disputed = TRUE
    BY <1>0, <1>6 DEF ChargeDisputed, Returnable, Intent
  <2>. QED  BY <1>0, <1>6, <2>1, ProviderMoney DEF ChargeDisputed, EventType, IntentSound
<1>. QED  BY <1>1, <1>2, <1>3, <1>4, <1>5, <1>6 DEF Provider

\* Any other step leaves intent and events alone; it has to account for the
\* payment row, the tickets and the workers that have verified the payment.
LEMMA OtherMoney ==
    ASSUME MoneyFacts, UNCHANGED <<intent, event>>,
           order'.row = "paid" => order.row = "paid" \/ intent.state = "succeeded",
           order'.tickets = "active" =>
               order.tickets = "active" \/ order.row = "paid",
           \A w \in Workers : task'[w].step = "verified" =>
               task[w].step = "verified" \/ intent.state = "succeeded"
    PROVE  MoneyFacts'
BY DEF MoneyFacts, Backs, IntentSound, PaidIsTrue, TicketsNeedMoney, At

LEMMA OrderFields ==
    ASSUME order \in Order
    PROVE  /\ PaidOrder.row = "paid" /\ PaidOrder.tickets = order.tickets
           /\ PaidOrder.pay = "paid" /\ PaidOrder.locked = order.locked
           /\ Fulfilled.row = order.row /\ Fulfilled.pay = order.pay
           /\ CancelTickets(order).row = order.row /\ CancelTickets(order).pay = order.pay
           /\ CancelTickets(order).status = order.status
           /\ CancelTickets(order).locked = order.locked
           /\ CancelTickets(order).tickets =
                 IF order.tickets = "active" THEN "cancelled" ELSE order.tickets
           /\ Fulfilled.tickets = IF order.tickets = "none" THEN "active" ELSE order.tickets
           /\ Fulfilled.locked /\ Fulfilled.status = "fulfilled"
BY DEF Order, PaidOrder, CancelTickets, Fulfilled

LEMMA HandleMoney ==
    ASSUME HandlerInv, MoneyFacts, NEW w \in Workers, Handle(w)
    PROVE  MoneyFacts'
<1>0. order \in Order /\ task \in [Workers -> Task]
  BY DEF HandlerInv, TypeOK
<1>. DEFINE RowStays == order'.row = "paid" => order.row = "paid" \/ intent.state = "succeeded"
            TicketsStay == order'.tickets = "active" => order.tickets = "active" \/ order.row = "paid"
<1>1. \A v \in Workers : task'[v].step = "verified" => task[v].step = "verified"
  <2>1. CASE \E s \in Step \ {"verified"} : Goto(w, s)
    BY <1>0, <2>1, GotoTask
  <2>2. CASE Finish(w)
    BY <1>0, <2>2, FinishTask
  <2>3. CASE ReadOrder(w)
    <3>1. TypeOf(w) \in EventType
      BY <2>3, AtStep DEF ReadOrder, TypesAt, Step
    <3>2. FirstStep(TypeOf(w)) \in Step \ {"verified"}
      BY <3>1 DEF FirstStep, Step, EventType
    <3>. QED  BY <2>1, <2>3, <3>2 DEF ReadOrder
  <2>. QED  BY <2>1, <2>2, <2>3 DEF Handle, Reclaim, Settle, Fulfil, FulfilRefuses, Fail,
              MarkProcessing, MarkUnpaid, Refund, Dispute, MarkProcessed, Write, Step
<1>2. RowStays /\ TicketsStay
  <2>1. CASE UNCHANGED order
    BY <2>1
  <2>2. CASE Settle(w)
    <3>1. TypeOf(w) = "succeeded" /\ task[w].event \in Events
      BY <2>2, AtStep DEF Settle, Write, TypesAt, Step
    <3>2. intent.state = "succeeded"
      BY <3>1 DEF TypeOf, MoneyFacts, Backs
    <3>. QED  BY <1>0, <2>2, <3>2, OrderFields DEF Settle, Write
  <2>3. CASE Fulfil(w)
    BY <1>0, <2>3, OrderFields DEF Fulfil, Fulfillable, Write
  <2>4. CASE MarkProcessing(w)
    BY <1>0, <2>4 DEF MarkProcessing, Write, Order
  <2>5. CASE MarkUnpaid(w)
    <3>1. TypeOf(w) \in {"failed", "canceled"}
      BY <2>5, AtStep DEF MarkUnpaid, Write, TypesAt, Step
    <3>2. CASE order' = CancelTickets(order)
      BY <1>0, <3>2, OrderFields
    <3>3. CASE order' = [order EXCEPT !.pay = TypeOf(w)] \/ order' = [order EXCEPT !.row = TypeOf(w)]
      BY <1>0, <3>1, <3>3 DEF Order
    <3>. QED  BY <2>5, <3>2, <3>3 DEF MarkUnpaid, Write
  <2>6. CASE Refund(w)
    <3>1. CASE order' = [order EXCEPT !.status = "refunded", !.pay = "refunded"]
      BY <1>0, <3>1 DEF Order
    <3>2. CASE order' = [CancelTickets(order) EXCEPT !.row = "refunded"]
      BY <1>0, <3>2, OrderTyped, OrderFields DEF Order
    <3>. QED  BY <2>6, <3>1, <3>2 DEF Refund, Write
  <2>7. CASE Dispute(w)
    BY <1>0, <2>7, OrderTyped, OrderFields DEF Dispute, Write, Order
  <2>. QED  BY <2>1, <2>2, <2>3, <2>4, <2>5, <2>6, <2>7
          DEF Handle, Reclaim, ReadOrder, FulfilRefuses, Fail, MarkProcessed
<1>3. UNCHANGED <<intent, event>>
  BY DEF Handle, Reclaim, ReadOrder, Settle, Fulfil, FulfilRefuses, Fail, MarkProcessing,
         MarkUnpaid, Refund, Dispute, MarkProcessed, Write
<1>. QED  BY <1>1, <1>2, <1>3, OtherMoney

LEMMA MoneyStep == HandlerInv /\ MoneyFacts /\ [Next]_vars => MoneyFacts'
<1>. SUFFICES ASSUME HandlerInv, MoneyFacts, [Next]_vars PROVE MoneyFacts'
  OBVIOUS
<1>0. order \in Order /\ task \in [Workers -> Task]
  BY DEF HandlerInv, TypeOK
<1>1. CASE Provider
  BY <1>1, IntentMoney
<1>2. ASSUME NEW w \in Workers, Deliver(w) PROVE MoneyFacts'
  <2>1. \A v \in Workers : task'[v].step = "verified" => task[v].step = "verified"
    BY <1>0, <1>2 DEF Deliver, Claim, Duplicate, SeeFailed
  <2>. QED  BY <1>2, <2>1, OtherMoney DEF Deliver, Claim, Duplicate, SeeFailed
<1>3. ASSUME NEW w \in Workers, Handle(w) PROVE MoneyFacts'
  BY <1>3, HandleMoney
<1>4. ASSUME NEW w \in Workers, StatementFails(w) \/ Crash(w) PROVE MoneyFacts'
  <2>1. \A v \in Workers : task'[v].step = "verified" => task[v].step = "verified"
    BY <1>0, <1>4, FinishTask DEF StatementFails, Fail, Crash
  <2>. QED  BY <1>4, <2>1, OtherMoney DEF StatementFails, Fail, Crash
<1>5. ASSUME NEW w \in Workers, ReconcilePaid(w) PROVE MoneyFacts'
  <2>1. CASE UNCHANGED task
    BY <1>5, <2>1, OtherMoney DEF ReconcilePaid
  <2>2. CASE intent.state = "succeeded"
    BY <1>5, <2>2, OtherMoney DEF ReconcilePaid
  <2>. QED  BY <1>5, <2>1, <2>2 DEF ReconcilePaid
<1>6. ASSUME NEW w \in Workers, ReconcileRow(w) PROVE MoneyFacts'
  <2>1. intent.state = "succeeded"
    BY <1>6 DEF ReconcileRow, MoneyFacts, PaidIsTrue
  <2>2. order'.tickets = order.tickets
    BY <1>0, <1>6, OrderFields DEF ReconcileRow
  <2>. QED  BY <1>6, <2>1, <2>2, OtherMoney DEF ReconcileRow
<1>7. ASSUME NEW e \in Events, ReconcileInbox(e) PROVE MoneyFacts'
  BY <1>7, OtherMoney DEF ReconcileInbox
<1>8. CASE RunHeal
  BY <1>0, <1>8, OrderFields, OtherMoney DEF RunHeal, Healable, Fulfillable
<1>9. CASE UNCHANGED vars
  BY <1>9, OtherMoney DEF vars
<1>. QED  BY <1>1, <1>2, <1>3, <1>4, <1>5, <1>6, <1>7, <1>8, <1>9 DEF Next, Reconcile

LEMMA MoneyAlways == Spec => [](HandlerInv /\ MoneyFacts)
<1>1. Init => MoneyFacts
  BY DEF Init, Idle, MoneyFacts, Backs, IntentSound, PaidIsTrue, TicketsNeedMoney, At
<1>. QED  BY <1>1, HandlerInit, HandlerStep, MoneyStep, PTL DEF Spec

\* Tickets are valid only if the provider has collected the money, whatever
\* deliveries overlap, fail or crash and whoever fulfils the order.
THEOREM NoTicketsUnpaid == Spec => []TicketsNeedMoney
<1>1. MoneyFacts => TicketsNeedMoney
  BY DEF MoneyFacts
<1>. QED  BY <1>1, MoneyAlways, PTL

-----------------------------------------------------------------------------
(* Tickets are minted once. *)

LEMMA MintedStep ==
    HandlerInv /\ [Next]_vars =>
        /\ order.tickets # "none" => order'.tickets # "none"
        /\ order.tickets = "cancelled" => order'.tickets = "cancelled"
<1>. SUFFICES ASSUME HandlerInv, [Next]_vars
              PROVE  /\ order.tickets # "none" => order'.tickets # "none"
                     /\ order.tickets = "cancelled" => order'.tickets = "cancelled"
  OBVIOUS
<1>0. order \in Order
  BY DEF HandlerInv, TypeOK
<1>1. CASE UNCHANGED order
  BY <1>1
<1>2. ASSUME NEW w \in Workers, Settle(w) \/ Fulfil(w)
      PROVE  /\ order.tickets # "none" => order'.tickets # "none"
             /\ order.tickets = "cancelled" => order'.tickets = "cancelled"
  BY <1>0, <1>2, OrderFields DEF Settle, Fulfil, Write
<1>3. ASSUME NEW w \in Workers, MarkProcessing(w)
      PROVE  order'.tickets = order.tickets
  BY <1>0, <1>3 DEF MarkProcessing, Write, Order
<1>4. ASSUME NEW w \in Workers, MarkUnpaid(w) \/ Refund(w) \/ Dispute(w)
      PROVE  order'.tickets \in {order.tickets, CancelTickets(order).tickets}
  <2>1. \A type : /\ [order EXCEPT !.pay = type].tickets = order.tickets
                  /\ [order EXCEPT !.row = type].tickets = order.tickets
    BY <1>0 DEF Order
  <2>2. [order EXCEPT !.status = "refunded", !.pay = "refunded"].tickets = order.tickets
    BY <1>0 DEF Order
  <2>3. /\ [CancelTickets(order) EXCEPT !.row = "refunded"].tickets = CancelTickets(order).tickets
        /\ [CancelTickets(order) EXCEPT !.status = "disputed", !.pay = "disputed"].tickets
              = CancelTickets(order).tickets
    BY <1>0, OrderTyped DEF Order
  <2>. QED  BY <1>4, <2>1, <2>2, <2>3 DEF MarkUnpaid, Refund, Dispute, Write
<1>5. ASSUME NEW w \in Workers, ReconcileRow(w)
      PROVE  order'.tickets = order.tickets
  BY <1>0, <1>5, OrderFields DEF ReconcileRow
<1>6. CASE RunHeal
  BY <1>0, <1>6, OrderFields DEF RunHeal
<1>. QED  BY <1>0, <1>1, <1>2, <1>3, <1>4, <1>5, <1>6, OrderFields
     DEF Next, Provider, IntentProcesses, IntentSucceeds, IntentFails, IntentCancels,
         ChargeRefunds, ChargeDisputed, Provide, Deliver, Claim, Duplicate, SeeFailed,
         Handle, Reclaim, ReadOrder, FulfilRefuses, StatementFails, Fail, MarkProcessed,
         Reconcile, ReconcilePaid, ReconcileInbox, Crash, vars

\* Tickets are minted once and cancelled ones stay cancelled: isOrderAlreadyFulfilled
\* and the mint condition of fulfillPaidOrder, whoever calls it and how often.
THEOREM MintedOnce == Spec => IssuedOnce
<1>1. HandlerInv /\ [Next]_vars =>
        [/\ order.tickets # "none" => order'.tickets # "none"
         /\ order.tickets = "cancelled" => order'.tickets = "cancelled"]_vars
  BY MintedStep
<1>. QED  BY <1>1, HandlerAlways, PTL DEF Spec, IssuedOnce

-----------------------------------------------------------------------------
(* One delivery at a time: the refinement of TicketPromise. *)

OneHandler ==
    \A v, w \in Workers : task[v].event # None /\ task[w].event # None => v = w

\* An order is locked exactly while it has tickets.  A paid payment row belongs
\* to a settled order, and a paid order without tickets has a paid row.
OrderFits ==
    /\ order.locked <=> order.tickets # "none"
    /\ order.row = "paid" => Settled
    /\ order.tickets = "none" /\ (order.pay = "paid" \/ order.status \in {"paid", "fulfilled"})
          => order.row = "paid" /\ order.pay = "paid"

\* What a handler has read is still true when it writes.
StillTrue(s) ==
    /\ s \in {"unpay", "unpayRow", "cancel"} => ~Settled
    /\ s \in {"processing", "processingRow"} => ~SettledOrPaid
    /\ s = "refundTickets" => order.pay = "refunded"
    /\ s # "verified"

ReadHolds == \A w \in Workers : StillTrue(task[w].step)

SerialInv == OneHandler /\ OrderFits /\ ReadHolds

LEMMA SerialInit == Init => SerialInv
BY DEF Init, Idle, SerialInv, OneHandler, OrderFits, ReadHolds, StillTrue, Settled, SettledOrPaid

\* While one worker is in a handler every other worker is idle.
LEMMA OthersIdle ==
    ASSUME HandlerInv, SerialInv, NEW w \in Workers, task[w].event # None,
           NEW v \in Workers \ {w}
    PROVE  task[v].step = "idle" /\ task[v].event = None
BY DEF HandlerInv, InItsHandler, HandlerFits, SerialInv, OneHandler, ReadHolds, StillTrue

\* Steps that leave the order alone.
LEMMA SameOrder ==
    ASSUME SerialInv, UNCHANGED order, OneHandler',
           \A w \in Workers : StillTrue(task[w].step) => StillTrue(task'[w].step)
    PROVE  SerialInv'
<1>1. OrderFits'
  BY DEF SerialInv, OrderFits, Settled
<1>2. ReadHolds'
  BY DEF SerialInv, ReadHolds, StillTrue, Settled, SettledOrPaid
<1>. QED  BY <1>1, <1>2 DEF SerialInv

\* A statement of a handler.
LEMMA SerialWrite ==
    ASSUME HandlerInv, SerialInv, NEW w \in Workers, NEW from, NEW to, NEW o \in Order,
           Move(from, to), Write(w, from, to, o), OrderFits', StillTrue(to)'
    PROVE  SerialInv'
<1>1. task[w].event # None /\ task \in [Workers -> Task]
  BY DEF Write, At, HandlerInv, TypeOK, InItsHandler, HandlerFits, Move
<1>2. /\ task'[w].step = to /\ task'[w].event = task[w].event
      /\ \A v \in Workers \ {w} : task'[v] = task[v]
  BY <1>1, GotoTask DEF Write, Move
<1>3. OneHandler'
  BY <1>2 DEF SerialInv, OneHandler
<1>4. ASSUME NEW v \in Workers PROVE StillTrue(task[v].step)'
  <2>1. CASE v = w
    BY <1>2, <2>1 DEF StillTrue
  <2>2. CASE v # w
    BY <1>1, <1>2, <2>2, OthersIdle DEF StillTrue
  <2>. QED  BY <2>1, <2>2
<1>. QED  BY <1>3, <1>4 DEF SerialInv, ReadHolds

LEMMA SerialHandle ==
    ASSUME HandlerInv, SerialInv, NEW w \in Workers, Handle(w)
    PROVE  SerialInv'
<1>0. order \in Order /\ task \in [Workers -> Task] /\ OrderFits /\ StillTrue(task[w].step)
  BY DEF HandlerInv, TypeOK, SerialInv, ReadHolds
<1>1. CASE Reclaim(w)
  <2>1. OneHandler'
    BY <1>0, <1>1, GotoTask DEF Reclaim, SerialInv, OneHandler, Step
  <2>. QED  BY <1>0, <1>1, <2>1, GotoTask, SameOrder DEF Reclaim, StillTrue, Step
<1>2. CASE ReadOrder(w)
  <2>1. TypeOf(w) \in EventType
    BY <1>2, AtStep DEF ReadOrder, TypesAt, Step
  <2>2. FirstStep(TypeOf(w)) \in Step /\ StillTrue(FirstStep(TypeOf(w)))
    BY <2>1 DEF FirstStep, Step, EventType, StillTrue
  <2>. DEFINE s == FirstStep(TypeOf(w))
  <2>3. /\ task'[w].step = s /\ task'[w].event = task[w].event
        /\ \A v \in Workers \ {w} : task'[v] = task[v]
    BY <1>0, <1>2, <2>2, GotoTask DEF ReadOrder
  <2>. HIDE DEF s
  <2>4. OneHandler'
    BY <2>3 DEF SerialInv, OneHandler
  <2>5. StillTrue(s)
    BY <2>2 DEF s
  <2>6. \A v \in Workers : StillTrue(task[v].step) => StillTrue(task'[v].step)
    BY <2>3, <2>5
  <2>. QED  BY <1>2, <2>4, <2>6, SameOrder DEF ReadOrder
<1>3. CASE Settle(w)
  <2>1. order' = PaidOrder /\ Write(w, "settle", "fulfil", PaidOrder)
    BY <1>3 DEF Settle, Write
  <2>2. OrderFits' /\ StillTrue("fulfil")'
    BY <1>0, <2>1 DEF PaidOrder, Order, OrderFits, StillTrue, Settled
  <2>. QED  BY <1>0, <2>1, <2>2, OrderTyped, Moves, SerialWrite
<1>4. CASE Fulfil(w)
  <2>1. order' = Fulfilled /\ Write(w, "fulfil", "done", Fulfilled) /\ order.row = "paid"
    BY <1>4 DEF Fulfil, Write, Fulfillable
  <2>2. OrderFits' /\ StillTrue("done")'
    BY <1>0, <2>1, OrderFields DEF OrderFits, StillTrue, Settled
  <2>. QED  BY <1>0, <2>1, <2>2, OrderTyped, Moves, SerialWrite
<1>5. CASE FulfilRefuses(w)
  <2>1. OneHandler'
    BY <1>0, <1>5, FinishTask DEF FulfilRefuses, Fail, SerialInv, OneHandler
  <2>. QED  BY <1>0, <1>5, <2>1, FinishTask, SameOrder DEF FulfilRefuses, Fail, StillTrue
<1>6. CASE MarkProcessing(w)
  <2>. DEFINE o1 == [order EXCEPT !.status = "pending_payment", !.pay = "processing"]
              o2 == [order EXCEPT !.row = "processing"]
  <2>1. CASE Write(w, "processing", "processingRow", o1)
    <3>1. order' = o1 /\ ~SettledOrPaid
      BY <1>0, <2>1 DEF Write, At, StillTrue
    <3>2. OrderFits' /\ StillTrue("processingRow")'
      BY <1>0, <3>1 DEF Order, OrderFits, StillTrue, Settled, SettledOrPaid
    <3>. QED  BY <1>0, <2>1, <3>2, OrderTyped, Moves, SerialWrite
  <2>2. CASE Write(w, "processingRow", "done", o2)
    <3>1. order' = o2 /\ ~SettledOrPaid
      BY <1>0, <2>2 DEF Write, At, StillTrue
    <3>2. OrderFits' /\ StillTrue("done")'
      BY <1>0, <3>1 DEF Order, OrderFits, StillTrue, Settled, SettledOrPaid
    <3>. QED  BY <1>0, <2>2, <3>2, OrderTyped, Moves, SerialWrite
  <2>. QED  BY <1>6, <2>1, <2>2 DEF MarkProcessing
<1>7. CASE MarkUnpaid(w)
  <2>. DEFINE o1 == [order EXCEPT !.pay = TypeOf(w)]
              o2 == [order EXCEPT !.row = TypeOf(w)]
  <2>0. TypeOf(w) \in {"failed", "canceled"}
    BY <1>7, AtStep DEF MarkUnpaid, Write, TypesAt, Step
  <2>1. CASE Write(w, "unpay", "unpayRow", o1)
    <3>1. order' = o1 /\ ~Settled
      BY <1>0, <2>1 DEF Write, At, StillTrue
    <3>2. OrderFits' /\ StillTrue("unpayRow")'
      BY <1>0, <2>0, <3>1 DEF Order, OrderFits, StillTrue, Settled
    <3>. QED  BY <1>0, <2>0, <2>1, <3>2, OrderTyped, Moves, SerialWrite
  <2>2. CASE Write(w, "unpayRow", "cancel", o2)
    <3>1. order' = o2 /\ ~Settled
      BY <1>0, <2>2 DEF Write, At, StillTrue
    <3>2. OrderFits' /\ StillTrue("cancel")'
      BY <1>0, <2>0, <3>1 DEF Order, OrderFits, StillTrue, Settled
    <3>. QED  BY <1>0, <2>0, <2>2, <3>2, OrderTyped, Moves, SerialWrite
  <2>3. CASE Write(w, "cancel", "done", CancelTickets(order))
    <3>1. order' = CancelTickets(order) /\ ~Settled
      BY <1>0, <2>3 DEF Write, At, StillTrue
    <3>2. OrderFits' /\ StillTrue("done")'
      BY <1>0, <3>1, OrderFields DEF OrderFits, StillTrue, Settled
    <3>. QED  BY <1>0, <2>3, <3>2, OrderTyped, Moves, SerialWrite
  <2>. QED  BY <1>7, <2>1, <2>2, <2>3 DEF MarkUnpaid
<1>8. CASE Refund(w)
  <2>. DEFINE o1 == [order EXCEPT !.status = "refunded", !.pay = "refunded"]
              o2 == [CancelTickets(order) EXCEPT !.row = "refunded"]
  <2>1. CASE Write(w, "refund", "refundTickets", o1)
    <3>1. OrderFits' /\ StillTrue("refundTickets")'
      BY <1>0, <2>1 DEF Write, Order, OrderFits, StillTrue, Settled
    <3>. QED  BY <1>0, <2>1, <3>1, OrderTyped, Moves, SerialWrite
  <2>2. CASE Write(w, "refundTickets", "done", o2)
    <3>1. order' = o2 /\ order.pay = "refunded"
      BY <1>0, <2>2 DEF Write, At, StillTrue
    <3>2. OrderFits' /\ StillTrue("done")'
      BY <1>0, <3>1 DEF Order, CancelTickets, OrderFits, StillTrue, Settled
    <3>. QED  BY <1>0, <2>2, <3>2, OrderTyped, Moves, SerialWrite
  <2>. QED  BY <1>8, <2>1, <2>2 DEF Refund
<1>9. CASE Dispute(w)
  <2>. DEFINE o == [CancelTickets(order) EXCEPT !.status = "disputed", !.pay = "disputed"]
  <2>1. order' = o /\ Write(w, "dispute", "done", o)
    BY <1>9 DEF Dispute, Write
  <2>2. OrderFits' /\ StillTrue("done")'
    BY <1>0, <2>1 DEF Order, CancelTickets, OrderFits, StillTrue, Settled
  <2>. QED  BY <1>0, <2>1, <2>2, OrderTyped, Moves, SerialWrite
<1>10. CASE MarkProcessed(w)
  <2>1. OneHandler'
    BY <1>0, <1>10, FinishTask DEF MarkProcessed, SerialInv, OneHandler
  <2>. QED  BY <1>0, <1>10, <2>1, FinishTask, SameOrder DEF MarkProcessed, StillTrue
<1>. QED  BY <1>1, <1>2, <1>3, <1>4, <1>5, <1>6, <1>7, <1>8, <1>9, <1>10 DEF Handle

LEMMA SerialStep ==
    "overlap" \notin Allow /\ HandlerInv /\ SerialInv /\ [Next]_vars => SerialInv'
<1>. SUFFICES ASSUME "overlap" \notin Allow, HandlerInv, SerialInv, [Next]_vars
              PROVE  SerialInv'
  OBVIOUS
<1>0. order \in Order /\ task \in [Workers -> Task] /\ OrderFits
  BY DEF HandlerInv, TypeOK, SerialInv
<1>1. CASE UNCHANGED <<order, task>>
  BY <1>1, SameOrder DEF SerialInv, OneHandler
<1>2. ASSUME NEW w \in Workers, NEW e \in Events, Claim(w, e) \/ SeeFailed(w, e)
      PROVE  SerialInv'
  <2>. DEFINE s == IF Claim(w, e) THEN "read" ELSE "reclaim"
              t == [step |-> s, event |-> e]
  <2>1. task' = [task EXCEPT ![w] = t] /\ \A v \in Workers : task[v].event = None
    BY <1>2 DEF Claim, SeeFailed, MayDeliver
  <2>2. t \in Task /\ t.step \in {"read", "reclaim"}
    BY DEF Task, Step
  <2>3. task'[w] = t /\ \A v \in Workers \ {w} : task'[v] = task[v]
    BY <1>0, <2>1, <2>2, SetTask
  <2>4. OneHandler'
    BY <2>1, <2>3 DEF OneHandler
  <2>5. \A v \in Workers : StillTrue(task[v].step) => StillTrue(task'[v].step)
    BY <2>2, <2>3 DEF StillTrue
  <2>. QED  BY <1>2, <2>4, <2>5, SameOrder DEF Claim, SeeFailed
<1>3. ASSUME NEW w \in Workers, Handle(w) PROVE SerialInv'
  BY <1>3, SerialHandle
<1>4. ASSUME NEW w \in Workers, StatementFails(w) \/ Crash(w) PROVE SerialInv'
  <2>1. OneHandler'
    BY <1>0, <1>4, FinishTask DEF StatementFails, Fail, Crash, SerialInv, OneHandler
  <2>. QED  BY <1>0, <1>4, <2>1, FinishTask, SameOrder DEF StatementFails, Fail, Crash, StillTrue
<1>5. ASSUME NEW w \in Workers, Reconcile(w) PROVE SerialInv'
  <2>1. ~ReconcileRow(w)
    BY DEF ReconcileRow, At, SerialInv, ReadHolds, StillTrue
  <2>2. UNCHANGED <<order, task>>
    BY <1>0, <1>5, <2>1 DEF Reconcile, ReconcilePaid, Unserved, OrderFits
  <2>. QED  BY <1>1, <2>2
<1>6. CASE RunHeal
  <2>1. CASE UNCHANGED order
    BY <1>1, <1>6, <2>1 DEF RunHeal
  <2>2. CASE order' = Fulfilled /\ order.row = "paid"
    <3>1. OrderFits'
      BY <1>0, <2>2, OrderFields DEF OrderFits, Settled
    <3>2. ASSUME NEW w \in Workers PROVE StillTrue(task[w].step)'
      <4>1. StillTrue(task[w].step) /\ Settled
        BY <1>0, <2>2 DEF SerialInv, ReadHolds, OrderFits
      <4>. QED  BY <1>0, <1>6, <2>2, <4>1, OrderFields DEF RunHeal, StillTrue, SettledOrPaid
    <3>. QED  BY <1>6, <3>1, <3>2 DEF RunHeal, SerialInv, OneHandler, ReadHolds
  <2>. QED  BY <1>6, <2>1, <2>2 DEF RunHeal, Healable, Fulfillable
<1>. QED  BY <1>1, <1>2, <1>3, <1>4, <1>5, <1>6
     DEF Next, Provider, IntentProcesses, IntentSucceeds, IntentFails, IntentCancels,
         ChargeRefunds, ChargeDisputed, Provide, Deliver, Duplicate, ReconcileInbox, vars

LEMMA PromiseStep ==
    HandlerInv /\ MoneyFacts /\ SerialInv /\ [Next]_vars
        => [Promise!Next]_<<Money, order.tickets>>
<1>. SUFFICES ASSUME HandlerInv, MoneyFacts, SerialInv, [Next]_vars
              PROVE  [Promise!Next]_<<Money, order.tickets>>
  OBVIOUS
<1>0. order \in Order /\ intent \in Intent
  BY DEF HandlerInv, TypeOK
<1>1. CASE UNCHANGED <<intent, order>>
  BY <1>1 DEF Money
<1>2. CASE Provider
  <2>1. /\ UNCHANGED order
        /\ intent.state # "succeeded" => ~intent.refunded /\ ~intent.disputed
    BY <1>2 DEF Provider, Provide, IntentProcesses, IntentSucceeds, IntentFails, IntentCancels,
                ChargeRefunds, ChargeDisputed, MoneyFacts, IntentSound
  <2>2. CASE IntentProcesses \/ IntentFails \/ IntentCancels
    BY <1>0, <2>1, <2>2 DEF Intent, IntentProcesses, IntentFails, IntentCancels, Money
  <2>3. CASE IntentSucceeds
    BY <1>0, <2>1, <2>3 DEF Intent, IntentSucceeds, Money, Promise!Next, Promise!Receive
  <2>4. CASE ChargeRefunds
    BY <1>0, <2>1, <2>4
       DEF Intent, ChargeRefunds, Returnable, Money, Promise!Next, Promise!Return
  <2>5. CASE ChargeDisputed
    BY <1>0, <2>1, <2>5
       DEF Intent, ChargeDisputed, Returnable, Money, Promise!Next, Promise!Return
  <2>. QED  BY <1>2, <2>2, <2>3, <2>4, <2>5 DEF Provider
<1>3. ASSUME UNCHANGED intent, order'.tickets = order.tickets
      PROVE  [Promise!Next]_<<Money, order.tickets>>
  BY <1>3 DEF Money
<1>4. ASSUME UNCHANGED intent, order' = Fulfilled, order.row = "paid"
      PROVE  [Promise!Next]_<<Money, order.tickets>>
  <2>1. Money # "due" /\ UNCHANGED Money
    BY <1>4 DEF MoneyFacts, PaidIsTrue, Money
  <2>. QED  BY <1>0, <1>4, <2>1, OrderFields DEF Promise!Next, Promise!Issue
<1>5. ASSUME UNCHANGED intent, order'.tickets = CancelTickets(order).tickets, Money = "returned"
      PROVE  [Promise!Next]_<<Money, order.tickets>>
  <2>1. UNCHANGED Money
    BY <1>5 DEF Money
  <2>. QED  BY <1>0, <1>5, <2>1, OrderFields DEF Promise!Next, Promise!Revoke
<1>6. ASSUME NEW w \in Workers, Settle(w) PROVE [Promise!Next]_<<Money, order.tickets>>
  BY <1>0, <1>3, <1>6, OrderFields DEF Settle, Write
<1>7. ASSUME NEW w \in Workers, Fulfil(w) PROVE [Promise!Next]_<<Money, order.tickets>>
  BY <1>4, <1>7 DEF Fulfil, Fulfillable, Write
<1>8. ASSUME NEW w \in Workers, MarkProcessing(w) PROVE [Promise!Next]_<<Money, order.tickets>>
  BY <1>0, <1>3, <1>8 DEF MarkProcessing, Write, Order
<1>9. ASSUME NEW w \in Workers, MarkUnpaid(w) PROVE [Promise!Next]_<<Money, order.tickets>>
  <2>1. UNCHANGED intent /\ order.tickets = "none"
    BY <1>0, <1>9 DEF MarkUnpaid, Write, At, SerialInv, ReadHolds, StillTrue, OrderFits, Settled
  <2>2. /\ \A type : /\ [order EXCEPT !.pay = type].tickets = order.tickets
                     /\ [order EXCEPT !.row = type].tickets = order.tickets
        /\ CancelTickets(order).tickets = order.tickets
    BY <1>0, <2>1, OrderFields DEF Order
  <2>3. order'.tickets = order.tickets
    BY <1>9, <2>2 DEF MarkUnpaid, Write
  <2>. QED  BY <1>3, <2>1, <2>3
<1>10. ASSUME NEW w \in Workers, Refund(w) PROVE [Promise!Next]_<<Money, order.tickets>>
  <2>1. task[w].event \in Events /\ TypeOf(w) = "refunded" /\ UNCHANGED intent
    BY <1>10, AtStep DEF Refund, Write, TypesAt, Step
  <2>2. Money = "returned"
    BY <2>1 DEF TypeOf, MoneyFacts, Backs, IntentSound, Money
  <2>3. CASE order' = [order EXCEPT !.status = "refunded", !.pay = "refunded"]
    BY <1>0, <1>3, <2>1, <2>3 DEF Order
  <2>4. CASE order' = [CancelTickets(order) EXCEPT !.row = "refunded"]
    <3>1. order'.tickets = CancelTickets(order).tickets
      BY <1>0, <2>4, OrderTyped DEF Order
    <3>. QED  BY <1>5, <2>1, <2>2, <3>1
  <2>. QED  BY <1>10, <2>3, <2>4 DEF Refund, Write
<1>11. ASSUME NEW w \in Workers, Dispute(w) PROVE [Promise!Next]_<<Money, order.tickets>>
  <2>1. task[w].event \in Events /\ TypeOf(w) = "disputed" /\ UNCHANGED intent
    BY <1>11, AtStep DEF Dispute, Write, TypesAt, Step
  <2>2. Money = "returned"
    BY <2>1 DEF TypeOf, MoneyFacts, Backs, IntentSound, Money
  <2>3. order'.tickets = CancelTickets(order).tickets
    BY <1>0, <1>11, OrderTyped DEF Dispute, Write, Order
  <2>. QED  BY <1>5, <2>1, <2>2, <2>3
<1>12. ASSUME NEW w \in Workers, ReconcileRow(w) PROVE [Promise!Next]_<<Money, order.tickets>>
  BY <1>0, <1>3, <1>12, OrderFields DEF ReconcileRow
<1>13. CASE RunHeal
  BY <1>1, <1>4, <1>13 DEF RunHeal, Healable, Fulfillable
<1>. QED  BY <1>1, <1>2, <1>6, <1>7, <1>8, <1>9, <1>10, <1>11, <1>12, <1>13
     DEF Next, Deliver, Claim, Duplicate, SeeFailed, Handle, Reclaim, ReadOrder, FulfilRefuses,
         StatementFails, Fail, MarkProcessed, Reconcile, ReconcilePaid, ReconcileInbox,
         Crash, vars

\* When deliveries of the provider do not overlap, the webhook, fulfilment, the
\* reconciliation and its job together implement TicketPromise, whatever fails
\* or crashes: tickets are issued once, for money received, and revoked only
\* when it has been returned.
THEOREM PromiseKept == "overlap" \notin Allow => (Spec => KeepsPromise)
<1>. SUFFICES ASSUME "overlap" \notin Allow PROVE Spec => KeepsPromise
  OBVIOUS
<1>1. Init => Promise!Init
  BY DEF Init, Promise!Init, Money
<1>2. HandlerInv /\ SerialInv /\ [Next]_vars => SerialInv'
  BY SerialStep
<1>. QED  BY <1>1, <1>2, SerialInit, MoneyAlways, PromiseStep, PTL DEF Spec, KeepsPromise, Promise!Spec

-----------------------------------------------------------------------------
(* A refund takes the tickets back. *)

\* An event in the inbox has been sent.
Posted == \A e \in Events : inbox[e] # "none" => event[e] # "none"

\* Money is refunded only when there are tickets, and once the handler is through
\* they are cancelled.
RefundKept ==
    /\ \A e \in Events : event[e] = "refunded" => order.tickets # "none"
    /\ \A w \in Workers : At(w, "done") /\ TypeOf(w) = "refunded" => order.tickets = "cancelled"
    /\ \A e \in Events : event[e] = "refunded" /\ inbox[e] = "processed"
                           => order.tickets = "cancelled"

RefundInv == Posted /\ RefundKept

\* Everything but the provider leaves the events alone.
LEMMA EventsStay == [Next]_vars /\ ~Provider => UNCHANGED event
BY DEF Next, Deliver, Claim, Duplicate, SeeFailed, Handle, Reclaim, ReadOrder, Settle, Fulfil,
       FulfilRefuses, StatementFails, Fail, MarkProcessing, MarkUnpaid, Refund, Dispute,
       MarkProcessed, Write, Reconcile, ReconcilePaid, ReconcileRow, ReconcileInbox, Crash,
       RunHeal, vars

\* A step of the provider: the event is a new one, and a refund needs tickets.
LEMMA RefundProvider ==
    ASSUME "refund" \notin Allow, HandlerInv, RefundInv, Provider
    PROVE  RefundInv'
<1>0. event \in [Events -> EventType \cup {"none"}] /\ task \in [Workers -> Task]
  BY DEF HandlerInv, TypeOK
<1>1. UNCHANGED <<inbox, order, task>>
  BY DEF Provider, Provide, IntentProcesses, IntentSucceeds, IntentFails, IntentCancels,
         ChargeRefunds, ChargeDisputed
<1>2. PICK type \in EventType :
         Emit(type) /\ (type = "refunded" => order.tickets # "none")
  BY DEF Provider, Provide, IntentProcesses, IntentSucceeds, IntentFails, IntentCancels,
         ChargeRefunds, ChargeDisputed, Returnable, EventType
<1>3. PICK f \in Events : event[f] = "none" /\ event' = [event EXCEPT ![f] = type]
  BY <1>2 DEF Emit
<1>4. \A e \in Events : event'[e] = IF e = f THEN type ELSE event[e]
  BY <1>0, <1>3
<1>5. type # "none"
  BY DEF EventType
<1>6. Posted'
  BY <1>1, <1>4, <1>5 DEF RefundInv, Posted
<1>7. \A e \in Events : event'[e] = "refunded" => order.tickets # "none"
  BY <1>2, <1>4 DEF RefundInv, RefundKept
<1>8. ASSUME NEW w \in Workers, At(w, "done"), event'[task[w].event] = "refunded"
      PROVE  order.tickets = "cancelled"
  <2>1. task[w].event \in Events /\ TypeOf(w) \in EventType
    BY <1>8, AtStep DEF TypesAt, Step
  <2>2. task[w].event # f
    BY <1>3, <2>1, <1>0 DEF TypeOf, EventType
  <2>. QED  BY <1>4, <1>8, <2>1, <2>2 DEF RefundInv, RefundKept, TypeOf
<1>9. \A e \in Events : event'[e] = "refunded" /\ inbox[e] = "processed"
                          => order.tickets = "cancelled"
  BY <1>3, <1>4 DEF RefundInv, RefundKept, Posted
<1>. QED  BY <1>1, <1>6, <1>7, <1>8, <1>9 DEF RefundInv, RefundKept, At, TypeOf

\* Who comes to the end of the handler of a refund has cancelled the tickets.
LEMMA DoneHasCancelled ==
    ASSUME HandlerInv, RefundInv, [Next]_vars, ~Provider, NEW w \in Workers,
           task'[w].step = "done", event[task'[w].event] = "refunded"
    PROVE  order'.tickets = "cancelled"
<1>0. order \in Order /\ task \in [Workers -> Task]
  BY DEF HandlerInv, TypeOK
<1>1. CASE task'[w] = task[w]
  <2>1. order.tickets = "cancelled"
    BY <1>1 DEF RefundInv, RefundKept, At, TypeOf
  <2>. QED  BY <2>1, MintedStep
<1>2. CASE task'[w] # task[w]
  <2>1. ASSUME NEW v \in Workers, v # w,
               (\E s \in Step : Goto(v, s)) \/ Finish(v) \/ (\E t \in Task : task' = [task EXCEPT ![v] = t])
        PROVE  FALSE
    BY <1>0, <1>2, <2>1, GotoTask, FinishTask, SetTask
  <2>2. ~Finish(w)
    BY <1>0, FinishTask
  <2>3. \A s \in Step : Goto(w, s) => s = "done" /\ task'[w].event = task[w].event
    BY <1>0, GotoTask
  <2>4. \A e \in Events, s \in {"read", "reclaim"} : task' # [task EXCEPT ![w] = [step |-> s, event |-> e]]
    BY <1>0
  <2>5. \A v \in Workers : TypeOf(v) \in EventType => FirstStep(TypeOf(v)) \in Step
    BY DEF FirstStep, Step, EventType
  <2>6. PICK v \in Workers : Deliver(v) \/ Handle(v) \/ StatementFails(v) \/ Reconcile(v) \/ Crash(v)
    BY <1>2 DEF Next, ReconcileInbox, RunHeal, vars
  <2>7. ~Crash(v) /\ ~StatementFails(v)
    BY <2>1, <2>2 DEF Crash, StatementFails, Fail
  <2>8. ~Deliver(v)
    <3>1. \A e \in Events, s \in {"read", "reclaim"} : [step |-> s, event |-> e] \in Task
      BY DEF Task, Step
    <3>. QED  BY <1>2, <2>1, <2>4, <3>1 DEF Deliver, Claim, Duplicate, SeeFailed
  <2>9. ~Reconcile(v)
    BY <1>2, <2>1, <2>2, <2>3 DEF Reconcile, ReconcilePaid, ReconcileRow, Step
  <2>10. ~Reclaim(v) /\ ~Settle(v) /\ ~FulfilRefuses(v) /\ ~MarkProcessed(v)
    BY <2>1, <2>2, <2>3 DEF Reclaim, Settle, FulfilRefuses, Fail, MarkProcessed, Write, Step
  <2>11. v = w
    <3>1. CASE ReadOrder(v)
      <4>1. TypeOf(v) \in EventType
        BY <3>1, AtStep DEF ReadOrder, TypesAt, Step
      <4>. QED  BY <2>1, <2>5, <3>1, <4>1 DEF ReadOrder
    <3>. QED  BY <2>1, <2>6, <2>7, <2>8, <2>9, <2>10, <3>1
            DEF Handle, Fulfil, MarkProcessing, MarkUnpaid, Refund, Dispute, Write, Step
  <2>12. CASE ReadOrder(w)
    <3>1. TypeOf(w) \in EventType
      BY <2>12, AtStep DEF ReadOrder, TypesAt, Step
    <3>2. FirstStep(TypeOf(w)) = "done" /\ TypeOf(w) = "refunded"
      BY <2>3, <2>5, <2>12, <3>1 DEF ReadOrder, TypeOf
    <3>. QED  BY <3>2 DEF FirstStep
  <2>13. ASSUME NEW s \in Step, At(w, s), s \notin {"idle", "verified"},
                task'[w].event = task[w].event
         PROVE  "refunded" \in TypesAt(s)
    BY <2>13, AtStep DEF TypeOf
  <2>14. CASE Fulfil(w)
    BY <2>3, <2>13, <2>14 DEF Fulfil, Write, TypesAt, Step
  <2>15. CASE MarkProcessing(w)
    BY <2>3, <2>13, <2>15 DEF MarkProcessing, Write, TypesAt, Step
  <2>16. CASE MarkUnpaid(w)
    BY <2>3, <2>13, <2>16 DEF MarkUnpaid, Write, TypesAt, Step
  <2>17. CASE Dispute(w)
    BY <2>3, <2>13, <2>17 DEF Dispute, Write, TypesAt, Step
  <2>18. CASE Refund(w)
    <3>1. Write(w, "refundTickets", "done", [CancelTickets(order) EXCEPT !.row = "refunded"])
      BY <2>3, <2>18 DEF Refund, Write, Step
    <3>2. task[w].event \in Events /\ TypeOf(w) = "refunded"
      BY <3>1, AtStep DEF Write, TypesAt, Step
    <3>3. order.tickets # "none"
      BY <3>2 DEF RefundInv, RefundKept, TypeOf
    <3>4. CancelTickets(order).tickets = "cancelled"
      BY <1>0, <3>3, OrderFields DEF Order
    <3>. QED  BY <1>0, <3>1, <3>4, OrderTyped DEF Write, Order
  <2>. QED  BY <2>6, <2>7, <2>8, <2>9, <2>10, <2>11, <2>12, <2>14, <2>15, <2>16, <2>17, <2>18
          DEF Handle
<1>. QED  BY <1>1, <1>2

\* What becomes of the inbox: rows are made for events that have been sent, and a
\* row becomes processed only at the end of its handler.
LEMMA InboxMoves ==
    ASSUME HandlerInv, [Next]_vars, ~Provider, NEW e \in Events
    PROVE  /\ inbox'[e] # "none" => inbox[e] # "none" \/ event[e] # "none"
           /\ inbox'[e] = "processed" =>
                 inbox[e] = "processed"
                 \/ \E w \in Workers : At(w, "done") /\ task[w].event = e
<1>0. inbox \in [Events -> InboxStatus]
  BY DEF HandlerInv, TypeOK
<1>1. CASE UNCHANGED inbox
  BY <1>1
<1>2. ASSUME NEW w \in Workers, Reclaim(w) \/ StatementFails(w) \/ FulfilRefuses(w) \/ MarkProcessed(w)
      PROVE  /\ inbox'[e] # "none" => inbox[e] # "none" \/ event[e] # "none"
             /\ inbox'[e] = "processed" =>
                   inbox[e] = "processed" \/ (At(w, "done") /\ task[w].event = e)
  <2>0. HandlerFits(task[w])
    BY DEF HandlerInv, InItsHandler
  <2>1. task[w].event = e => event[e] # "none"
    <3>1. ASSUME task[w].event = e PROVE event[e] \in TypesAt(task[w].step)
      BY <2>0, <3>1, ConstantsAssumption DEF HandlerFits
    <3>2. task[w].step \in Step
      BY DEF HandlerInv, TypeOK, Task
    <3>. QED  BY <3>1, <3>2, SomeTypes
  <2>2. task[w].event # e => inbox'[e] = inbox[e]
    BY <1>0, <1>2 DEF Reclaim, StatementFails, FulfilRefuses, Fail, MarkProcessed
  <2>3. inbox'[e] = "processed" => inbox[e] = "processed" \/ At(w, "done")
    BY <1>0, <1>2 DEF Reclaim, StatementFails, FulfilRefuses, Fail, MarkProcessed
  <2>. QED  BY <2>1, <2>2, <2>3
<1>3. ASSUME NEW w \in Workers, Deliver(w)
      PROVE  /\ inbox'[e] # "none" => inbox[e] # "none" \/ event[e] # "none"
             /\ inbox'[e] = "processed" => inbox[e] = "processed"
  BY <1>0, <1>3 DEF Deliver, Claim, Duplicate, SeeFailed, MayDeliver
<1>4. ASSUME NEW f \in Events, ReconcileInbox(f)
      PROVE  /\ inbox'[e] # "none" => inbox[e] # "none" \/ event[e] # "none"
             /\ inbox'[e] = "processed" => inbox[e] = "processed"
  BY <1>0, <1>4 DEF ReconcileInbox
<1>. QED  BY <1>1, <1>2, <1>3, <1>4
     DEF Next, Handle, ReadOrder, Settle, Fulfil, MarkProcessing, MarkUnpaid, Refund, Dispute,
         Write, Reconcile, ReconcilePaid, ReconcileRow, Crash, RunHeal, vars

LEMMA RefundNext ==
    "refund" \notin Allow /\ HandlerInv /\ RefundInv /\ [Next]_vars => RefundInv'
<1>. SUFFICES ASSUME "refund" \notin Allow, HandlerInv, RefundInv, [Next]_vars
              PROVE  RefundInv'
  OBVIOUS
<1>1. CASE Provider
  BY <1>1, RefundProvider
<1>2. CASE ~Provider
  <2>1. UNCHANGED event
    BY <1>2, EventsStay
  <2>2. Posted'
    BY <1>2, <2>1, InboxMoves DEF RefundInv, Posted
  <2>3. \A e \in Events : event'[e] = "refunded" => order'.tickets # "none"
    BY <2>1, MintedStep DEF RefundInv, RefundKept
  <2>4. \A w \in Workers : (At(w, "done") /\ TypeOf(w) = "refunded")' => order'.tickets = "cancelled"
    BY <1>2, <2>1, DoneHasCancelled DEF At, TypeOf
  <2>5. ASSUME NEW e \in Events, event'[e] = "refunded", inbox'[e] = "processed"
        PROVE  order'.tickets = "cancelled"
    <3>1. order.tickets = "cancelled"
      BY <1>2, <2>1, <2>5, InboxMoves DEF RefundInv, RefundKept, TypeOf
    <3>. QED  BY <3>1, MintedStep
  <2>. QED  BY <2>2, <2>3, <2>4, <2>5 DEF RefundInv, RefundKept
<1>. QED  BY <1>1, <1>2

\* Once charge.refunded has been processed no ticket of the order is valid again,
\* whatever deliveries overlap and whatever the job and a crash do, as long as money
\* goes back only after the tickets have been issued.
THEOREM RefundVoids == "refund" \notin Allow => (Spec => []ReturnedIsVoid)
<1>. SUFFICES ASSUME "refund" \notin Allow PROVE Spec => []ReturnedIsVoid
  OBVIOUS
<1>1. Init => RefundInv
  BY DEF Init, Idle, RefundInv, Posted, RefundKept, At
<1>2. HandlerInv /\ RefundInv /\ [Next]_vars => RefundInv'
  BY RefundNext
<1>3. RefundInv => ReturnedIsVoid
  BY DEF RefundInv, RefundKept, ReturnedIsVoid
<1>. QED  BY <1>1, <1>2, <1>3, HandlerAlways, PTL DEF Spec
=============================================================================
