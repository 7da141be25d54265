------------------------------ MODULE TapSale -------------------------------
(***************************************************************************)
(* Tap to Pay at the box office, for one guest: the seller's web form, the *)
(* sale on the server, the iPhone that takes the card, Stripe's payment    *)
(* intent and its webhooks.  Every failed attempt of the form is a sale of *)
(* its own.                                                                *)
(*                                                                         *)
(* A webhook about a failed or cancelled payment is one step here: module  *)
(* Payments has it in detail.                                              *)
(***************************************************************************)
EXTENDS Naturals, FiniteSets

CONSTANTS Sales, NoSale, TapAllow

\* outage: Stripe cannot be reached for a cancellation.
\* crossed: the seller cancels what the guest has already paid.
\* retry:  the card is tried again after a failure.
\* lapse:  the 20 minutes of the hold pass.
TapFaults == {"outage", "crossed", "retry", "lapse"}

ASSUME TapSaleAssumption ==
    IsFiniteSet(Sales) /\ NoSale \notin Sales /\ TapAllow \subseteq TapFaults

VARIABLES
    form,    \* box-office-form.tsx
    sale,    \* the order, its payment row and its hold
    intent,  \* Stripe's payment intents
    events,  \* webhooks that Stripe still has to deliver
    cancel,  \* DELETE requests under way
    phone,   \* TapSessionStore
    amiss    \* the faults so far

tapVars == <<form, sale, intent, events, cancel, phone, amiss>>

-----------------------------------------------------------------------------
\* pay is paymentStatus, row the payment row, closed status "cancelled", linked
\* stripePaymentIntentId, minted status "fulfilled" at some time.
Sale == [pay: {"none", "pending", "awaiting", "failed", "canceled", "paid"},
         row: {"pending", "failed", "canceled", "paid"}, closed: BOOLEAN, linked: BOOLEAN,
         minted: BOOLEAN, hold: {"none", "held", "consumed", "released"}]

Form == [at: {"ready", "creating", "waiting", "receipt"}, of: Sales \cup {NoSale}]

\* on and secret are the handoff the phone has, job the one it is busy with.
Phone == [on: Sales \cup {NoSale}, secret: BOOLEAN, job: Sales \cup {NoSale},
          at: {"idle", "fetching", "collecting"}]

Freed(h) == IF h = "held" THEN "released" ELSE h

Consumed(h) == IF h = "held" THEN "consumed" ELSE h

Ready == [at |-> "ready", of |-> NoSale]

\* The form loses interest in s.
Dropped(s) == IF form.of = s THEN Ready ELSE form

With(fs) == fs \subseteq TapAllow /\ amiss' = amiss \cup fs

Fault(f, happens) == With(IF happens THEN {f} ELSE {})

Succeeded(s) == intent[s] = "succeeded"

-----------------------------------------------------------------------------
(* Creating the sale *)

\* confirmSale, and createBoxOfficeTapSale up to the end of its transaction.
Confirm(s) ==
    /\ form = Ready
    /\ sale[s].pay = "none"
    /\ form' = [at |-> "creating", of |-> s]
    /\ sale' = [sale EXCEPT ![s].pay = "pending", ![s].hold = "held"]
    /\ UNCHANGED <<intent, events, cancel, phone, amiss>>

\* Stripe creates the intent, the order is linked to it, the form opens the link.
Started(s) ==
    /\ form = [at |-> "creating", of |-> s]
    /\ sale[s].pay = "pending"
    /\ intent' = [intent EXCEPT ![s] = "open"]
    /\ sale' = [sale EXCEPT ![s].pay = "awaiting", ![s].linked = TRUE]
    /\ form' = [form EXCEPT !.at = "waiting"]
    /\ UNCHANGED <<events, cancel, phone, amiss>>

\* Stripe fails: the sale is closed and the hold released, then the form shows it.
NotStarted(s) ==
    /\ form = [at |-> "creating", of |-> s]
    /\ sale[s].pay = "pending"
    /\ sale' = [sale EXCEPT ![s].pay = "failed", ![s].row = "failed", ![s].closed = TRUE,
                            ![s].hold = Freed(@)]
    /\ form' = Ready
    /\ UNCHANGED <<intent, events, cancel, phone, amiss>>

\* The sale is started but the answer never reaches the form.
Unheard(s) ==
    /\ form = [at |-> "creating", of |-> s]
    /\ sale[s].pay = "pending"
    /\ intent' = [intent EXCEPT ![s] = "open"]
    /\ sale' = [sale EXCEPT ![s].pay = "awaiting", ![s].linked = TRUE]
    /\ form' = Ready
    /\ UNCHANGED <<events, cancel, phone, amiss>>

-----------------------------------------------------------------------------
(* The phone *)

\* handleIncomingURL: also while another collection is under way.
OpenLink(s) ==
    /\ form = [at |-> "waiting", of |-> s]
    /\ phone.on # s
    /\ phone' = [phone EXCEPT !.on = s, !.secret = FALSE]
    /\ UNCHANGED <<form, sale, intent, events, cancel, amiss>>

\* collectPayment: asks for the client secret, unless it has it already.
Collect ==
    /\ phone.on # NoSale /\ phone.at = "idle"
    /\ phone' = [phone EXCEPT !.job = phone.on,
                              !.at = IF phone.secret THEN "collecting" ELSE "fetching"]
    /\ UNCHANGED <<form, sale, intent, events, cancel, amiss>>

Open(s) == sale[s].linked /\ sale[s].pay \notin {"paid", "canceled"}

\* terminal/payment-intent answers; the store writes its copy of the handoff back.
Fetched ==
    LET s == phone.job IN
    /\ phone.at = "fetching"
    /\ phone' = IF Open(s) THEN [phone EXCEPT !.on = s, !.secret = TRUE, !.at = "collecting"]
                ELSE [phone EXCEPT !.job = NoSale, !.at = "idle"]
    /\ UNCHANGED <<form, sale, intent, events, cancel, amiss>>

Done == phone' = [phone EXCEPT !.job = NoSale, !.at = "idle"]

\* Only an open intent can be paid.
Charge ==
    LET s == phone.job IN
    /\ phone.at = "collecting" /\ intent[s] = "open"
    /\ Fault("retry", sale[s].pay = "failed" \/ <<s, "failed">> \in events)
    /\ intent' = [intent EXCEPT ![s] = "succeeded"]
    /\ events' = events \cup {<<s, "succeeded">>}
    /\ Done
    /\ UNCHANGED <<form, sale, cancel>>

\* The card is refused: the intent stays open and waits for another card.
Decline ==
    LET s == phone.job IN
    /\ phone.at = "collecting" /\ intent[s] = "open"
    /\ events' = events \cup {<<s, "failed">>}
    /\ Done
    /\ UNCHANGED <<form, sale, intent, cancel, amiss>>

\* No card, no network, or an intent that is closed.
GiveUp ==
    /\ phone.at # "idle"
    /\ Done
    /\ UNCHANGED <<form, sale, intent, events, cancel, amiss>>

-----------------------------------------------------------------------------
(* Webhooks *)

Over(s) == sale[s].minted \/ sale[s].pay = "paid"

\* payment_intent.payment_failed and .canceled, see Payments.
Unpaid(s, kind) ==
    /\ <<s, kind>> \in events /\ kind \in {"failed", "canceled"}
    /\ events' = events \ {<<s, kind>>}
    /\ sale' = IF Over(s) THEN sale
               ELSE [sale EXCEPT ![s].pay = kind, ![s].row = kind, ![s].hold = Freed(@)]
    /\ UNCHANGED <<form, intent, cancel, phone, amiss>>

\* Mutant: an order that is cancelled stays so.
OnlyOpen(s) == ~sale[s].closed

Settles(s) == ~(sale[s].minted /\ sale[s].pay = "paid")

\* payment_intent.succeeded: order and payment row first ...
Settle(s) ==
    /\ <<s, "succeeded">> \in events
    /\ Settles(s)
    /\ sale[s].row # "paid"
    /\ sale' = [sale EXCEPT ![s].pay = "paid", ![s].row = "paid", ![s].closed = FALSE]
    /\ UNCHANGED <<form, intent, events, cancel, phone, amiss>>

\* ... then fulfillPaidOrder, which needs the row; if a cancellation has taken it
\* away in between, the webhook fails and Stripe delivers it again (Settle).
Mint(s) ==
    /\ <<s, "succeeded">> \in events
    /\ sale[s].row = "paid"
    /\ events' = events \ {<<s, "succeeded">>}
    /\ sale' = [sale EXCEPT ![s].minted = TRUE, ![s].closed = FALSE,
                            ![s].hold = Consumed(@)]
    /\ UNCHANGED <<form, intent, cancel, phone, amiss>>

\* The sweep frees a hold whose time is over, see Inventory.
Lapse(s) ==
    /\ sale[s].hold = "held" /\ ~sale[s].minted
    /\ With({"lapse"})
    /\ sale' = [sale EXCEPT ![s].hold = "released"]
    /\ UNCHANGED <<form, intent, events, cancel, phone>>

-----------------------------------------------------------------------------
(* Polling and cancelling *)

\* ready, of the polled sale.
HasTickets(s) == sale[s].minted /\ (sale[s].pay = "paid" \/ ~sale[s].closed)

\* Mutant: the form gives up a sale that is still open.
Impatient(s) == ~HasTickets(s)

HasFailed(s) == sale[s].pay \in {"failed", "canceled"}

\* The form asks every two seconds.
Poll(s) ==
    /\ form = [at |-> "waiting", of |-> s]
    /\ \/ HasTickets(s) /\ form' = [form EXCEPT !.at = "receipt"]
       \/ ~HasTickets(s) /\ HasFailed(s) /\ form' = Ready
    /\ UNCHANGED <<sale, intent, events, cancel, phone, amiss>>

MayCancel(s) == sale[s].pay # "paid" /\ ~(sale[s].minted /\ ~sale[s].closed)

\* cancelTapSale: DELETE reads the order.  Its answer is not looked at: the form
\* drops the sale even if it is ALREADY_PAID.
Cancel(s) ==
    /\ form = [at |-> "waiting", of |-> s]
    /\ cancel[s] = "none"
    /\ Fault("crossed", Succeeded(s))
    /\ IF MayCancel(s) THEN cancel' = [cancel EXCEPT ![s] = "read"] /\ UNCHANGED form
       ELSE form' = Dropped(s) /\ UNCHANGED cancel
    /\ UNCHANGED <<sale, intent, events, phone>>

\* Mutant: the intent is left open.
LeaveOpen(s) == intent' = intent /\ events' = events

CloseIntent(s) ==
    IF intent[s] = "open"
    THEN intent' = [intent EXCEPT ![s] = "canceled"] /\ events' = events \cup {<<s, "canceled">>}
    ELSE UNCHANGED <<intent, events>>

\* It cancels the intent and ignores that this fails: Stripe may be away, or the
\* guest has just paid.
CancelIntent(s) ==
    /\ cancel[s] = "read"
    /\ cancel' = [cancel EXCEPT ![s] = "asked"]
    /\ \/ /\ CloseIntent(s)
          /\ Fault("crossed", Succeeded(s))
       \/ /\ With({"outage"})
          /\ UNCHANGED <<intent, events>>
    /\ UNCHANGED <<form, sale, phone>>

\* It writes over whatever the order is by now, releases what is held, and the
\* form drops the sale.
CancelWrite(s) ==
    /\ cancel[s] = "asked"
    /\ sale' = [sale EXCEPT ![s].pay = "canceled", ![s].row = "canceled", ![s].closed = TRUE,
                            ![s].hold = Freed(@)]
    /\ cancel' = [cancel EXCEPT ![s] = "none"]
    /\ form' = Dropped(s)
    /\ UNCHANGED <<intent, events, phone, amiss>>

-----------------------------------------------------------------------------
TapInit ==
    /\ form = Ready
    /\ sale = [s \in Sales |-> [pay |-> "none", row |-> "pending", closed |-> FALSE,
                               linked |-> FALSE, minted |-> FALSE, hold |-> "none"]]
    /\ intent = [s \in Sales |-> "none"]
    /\ events = {}
    /\ cancel = [s \in Sales |-> "none"]
    /\ phone = [on |-> NoSale, secret |-> FALSE, job |-> NoSale, at |-> "idle"]
    /\ amiss = {}

Selling(s) == Confirm(s) \/ Started(s) \/ NotStarted(s) \/ Unheard(s) \/ Poll(s)
Paying(s) == OpenLink(s) \/ Lapse(s) \/ Settle(s) \/ Mint(s)
                \/ Unpaid(s, "failed") \/ Unpaid(s, "canceled")
Cancelling(s) == Cancel(s) \/ CancelIntent(s) \/ CancelWrite(s)
Tapping == Collect \/ Fetched \/ Charge \/ Decline \/ GiveUp

TapNext == Tapping \/ \E s \in Sales : Selling(s) \/ Paying(s) \/ Cancelling(s)


\* Stripe delivers, the server goes on with what it has begun.
TapFair ==
    /\ \A s \in Sales : WF_tapVars(Settle(s)) /\ WF_tapVars(Mint(s))
    /\ \A s \in Sales : WF_tapVars(CancelIntent(s)) /\ WF_tapVars(CancelWrite(s))

TapSpec == TapInit /\ [][TapNext]_tapVars /\ TapFair

-----------------------------------------------------------------------------
(* Properties *)

Calm(fs) == amiss \cap fs = {}

\* Types.
TapTypeOK ==
    /\ form \in Form
    /\ sale \in [Sales -> Sale]
    /\ intent \in [Sales -> {"none", "open", "succeeded", "canceled"}]
    /\ events \subseteq Sales \X {"succeeded", "failed", "canceled"}
    /\ cancel \in [Sales -> {"none", "read", "asked"}]
    /\ phone \in Phone
    /\ amiss \subseteq TapFaults

\* The guest's card is charged at most once, however often the seller starts
\* over: a sale that the form has given up cannot be collected afterwards.  Not so
\* after a cancellation that crossed the payment or did not reach Stripe, or when
\* the phone tries again what the form has given up.
GuestPaysOnce ==
    Calm({"outage", "crossed", "retry"}) => Cardinality({s \in Sales : Succeeded(s)}) <= 1

\* A sale that has tickets is never on record as cancelled, and a cancelled sale
\* is never charged.
CancelledIsUnpaid ==
    Calm({"outage", "crossed", "retry"}) =>
        \A s \in Sales : sale[s].closed => ~sale[s].minted /\ ~Succeeded(s)

\* Whatever happens, a guest who has paid gets tickets: a cancellation that takes
\* the payment row away only delays it until Stripe delivers again.
PaidIsMinted == \A s \in Sales : Succeeded(s) ~> sale[s].minted
=============================================================================
