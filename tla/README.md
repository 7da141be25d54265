# Ticketfeeling: TLA+ models and proofs

Ticketfeeling (`apps/web`, Next.js with Prisma on PostgreSQL) sells tickets online and at the
counter; `apps/kasse-ios` takes cards at the counter with Tap to Pay. There is no server process
that owns the state: every request, webhook delivery and cron call runs in a function instance of
its own, all of them on one database. What goes wrong in such a program goes wrong between two
transactions, and that is what these modules model.

## 1. The system

| Component | State | Operations | Hard behaviour |
|---|---|---|---|
| Stock (`inventory-availability.ts`) | two pools per ticket category, `online` and `box_office`: `soldQuantity`, `heldQuantity`, under one shared capacity | lock the pools, check the stock | two channels, one capacity |
| Carts and holds (`cart.ts`, `hold-quantity.ts`) | `Cart`, `CartItem`, `InventoryHold` with `expiresAt` and `orderId` | add, remove, reopen, expire, rebuild the held counters | reads before the transaction, expiry at any moment, several tabs |
| Checkout (`checkout.ts`) | `Order`, the holds bound to it | order transaction, payment, compensation | the payment is made after the commit; crash or refusal in between |
| Counter (`box-office.ts`, `box-office-void.ts`) | orders of channel `box_office` | cash sale, void | sold at once, voided on what was read before |
| Tap sale (`box-office-tap.ts`, `box-office-form.tsx`, the sales route, `TapSessionStore.swift`) | form, order, PaymentIntent, the phone's session | start, hand over, collect, cancel, start over | the cancellation crosses the card; an answer to an older link comes last |
| Payments (`payments-stripe.ts`, `fulfillment.ts`, `release-order-holds.ts`, `restore-ticket-inventory.ts`) | `WebhookInbox`, `Payment`, `Order`, `Ticket` | webhook handlers, fulfilment, release, refund | lost, repeated and reordered events |
| Jobs and mails (`jobs/queue.ts`, `jobs/handlers.ts`, `email/*`) | `BackgroundJob`, `ticketSentAt`, the staff audit | enqueue, claim, run, retry, give up | a worker that stops, a lock that goes stale under a worker that has not |
| Ticket (`tickets/forward.ts`, `rotate-qr.ts`, access checks) | `Ticket` holder, `TicketQrToken`, forward log, wallet passes | forward, rotate, download, cancel | holder and code change in two statements |
| Check-in (`checkin.ts`, `scanner-client.tsx`) | `Ticket.presence`, the device's request and its retries | scan in and out | several scanners, a lost answer, a ticket cancelled during the scan |
| Seats (`seating/*`) | `EventSeat` status, hold and owner | claim, scrub, sweep, release, sell, mint, lock | overlapping claims, lapsed seats, what was read before the write |
| Seat choice (`best-available.ts`, `seat-optimization.ts`) | none | Bestplatz, wheelchair seats with companions, gap rule | greedy choices |
| Promotions (`discounts.ts`) | use counter of a code, balance of a card, `promotionsReservedAt` | reserve, redeem, give back | a limit shared by concurrent orders |
| Prices (`order-pricing.ts`, `event-pricing.ts`, `pricing.ts`, `platform-fee.ts`, `tax-allocation.ts`) | cart lines with their prices, the order's amounts | price, reprice, discount, fee, tax | campaigns change between cart and order; four roundings |
| Sale gate (`event-sale.ts`, `events/actions.ts`, `ensure-presale-release.ts`) | `Event.status`, sale dates | publish, pause, close, cancel, edit, release | writes without a condition |
| Consignment (`box-office-consignment.ts`) | the block's order, its printed tickets | allocate, deliver, mark as sold, take back the rest, void | stock counted twice, tickets sold in the meantime |
| Stripe payouts (`stripe-payout/*`) | `StripePayout`, balance transactions, documents | announce, import, map, judge, finalise | webhook and daily job overlap, answers grow old |

`PROJECT.json` lists the hazards at their lines with the property that would catch each, and the
parts of the repository that have no module. What makes a component correct:

- **Stock**: the places with valid tickets, about to be ticketed and held never exceed the
  category; the counters agree with the rows they count.
- **Holds**: a hold leaves `held` once, for one reason, and moves the counter once; a payable
  order owns its places; a lapsed line gives its places back.
- **Payments**: tickets for money received, once; revoked only when the money went back; who has
  paid is served; a refund is final.
- **Tap sale**: a guest is charged once, a cancelled sale not at all, and who has paid gets tickets.
- **Jobs**: no job is stuck; the buyer's mail goes out, and once.
- **Ticket and check-in**: a ticket admits one person at a time and a cancelled one nobody; it has
  a code, and nobody but the holder has it.
- **Seats**: a seat belongs to one cart or ticket, a ticket has its seat, and no seat is lost.
- **Promotions and prices**: uses and money add up; a reduction is redeemed or flagged, and granted
  once; the amounts of an order agree with each other.
- **Sale gate**: what staff has stopped stays stopped.
- **Consignment**: the block counts for its valid tickets; nobody loses a ticket already bought.
- **Payouts**: final documents show balanced books; a payout is reconciled in the end.

The parts call each other in one process and share the database. Checkout prices the cart, reserves
its promotions, binds its holds to an order and asks the provider for a payment; the provider
answers with events; the event handlers settle the order and call fulfilment, which redeems the
promotions, consumes holds, sells the seats and mints tickets, or release all of them; fulfilment
enqueues the job that mails the tickets. Refunds and voids give stock back; a sweep (cron, and
every cart read) expires holds and seats and rebuilds the counters; the nightly reconciliation
enqueues jobs for orders that were paid and not served.

## 2. The modules

| Module | Models | State in the code |
|---|---|---|
| `Availability` | the arithmetic of `inventory-availability.ts` over the two pools | none: pure functions |
| `Inventory` | every operation on pools, holds, carts and orders of one category | `pool`, `hold`, `cart`, `order` are the tables; `task[w]` is what request `w` read before the transaction it is about to run |
| `TicketPromise` | what an order promises: money due, received or returned against tickets none, active or cancelled | no code: the abstract specification |
| `Payments` | one order and its PaymentIntent: provider, delivery, `webhook_inbox`, the handlers of `processStripeWebhookEvent`, `fulfillPaidOrder`, `runCommerceReconciliation`, `healPaidOrder` | `inbox`, `order` (order, payment and ticket rows), `heal` (a `BackgroundJob`) are the tables; `intent`, `event` and `acked` the provider's; `task[w]` the statement worker `w` executes next |
| `JobQueue` | the jobs of one paid order, `order.post_fulfill` and `reconcile.heal_order`, statement by statement | `job` and `order` are the tables, `mails` what the mail server accepted, `kicked` the runs started after enqueueing, `task[w]` what a worker is at |
| `Door` | one ticket from mint to door: forward, rotation, access to codes, cancellation, scanner devices with retries | `ticket`, `code`, `recent` are the tables; `hands` and `passes` what people have; `clerk` and `request` requests at the server, `device` the scanner |
| `Seats` | the seats of one event under carts, counter sales, sweep, scrub, mint, cancellation and lock | `seat` is `event_seats`; `sale` line, hold and order; `ticket` what is minted; `scrub` and `sweep` what was read before the write |
| `SeatChoice` | Bestplatz, pairs for companions and the gap rule, as an algorithm over segments of seats | none; `answer` remembers the last request |
| `Promotions` | a limited code and a gift card under checkout, release and redemption | `uses`, `card`, `order` are the tables; `release[w]` what a release read |
| `TapSale` | card sale at the counter for one guest | `form`, `phone` the clients; `sale` order, payment row and hold; `intent`, `events` the provider's; `cancel` requests under way |
| `Pricing` | cart lines, campaigns, code, concession, fee, gift card, taxes | `lines`, `running`, `entered`; `bill` the order's amounts |
| `SaleGate` | everything that writes an event's status or closes its sale | `event` the row; `desk`, `editor`, `releaser` what staff and the release have read |
| `Consignment` | a block of printed tickets at an agency, and the void of counter sales | `print`, `block`, `stock` the rows; `request` what a request has read |
| `Payout` | one automatic payout and its books | `payout`, `entry`, `papers` the tables; `remote`, `notices` Stripe's; `import`, `notary` requests under way |

Properties are in `InventoryProps`, `PaymentsProps`, `JobQueueProps`, `DoorProps`, `SeatsProps`, and
at the end of the other modules. `MCInventory`, `MCPayments` and `MCDoor` give TLC its constants and
cuts. Three modules compose: `MCHouse` (seats, sale gate, consignment, payout), `MCLive` (seats, tap
sale, payout, for what has to end) and `MCOffice` (promotions, tap sale, prices, seat choice). Their
machines share no state, so one of them is at work in a behaviour and the others stand still; a
run of the composition visits the sum of their states rather than the product, and permutations of
one set of model values serve several machines. The proofs are in the eight `*Proofs` modules.

The unit of atomicity is the one of the code. A `prisma.$transaction` that locks its rows is one
action; a statement outside a transaction is one action; what was read before either is kept and
used later, however stale. In `Inventory` the step names pair up: `CheckoutRead` is everything
`createOrderFromCart` reads, `CheckoutCommit` its transaction, `PayStart` the payment after it.
`releaseHeldQuantity` re-checks `status: "held"` in the statement that updates, and so does
`ReleaseSeen` through `Applied`. In `Payments` and `JobQueue` a handler is a chain of `step`s, any of
which may fail or be the last. In `Seats` the sweep, the scrub and the mint read and write in two
steps, while `claimSeats` re-checks its seats in the statement that takes them and is one.

The modules meet in the order. `Payments` leaves out stock, `Inventory` leaves out the inbox: there
an outcome (`PaymentSucceeds`, `PaymentFails`, `RefundRead` ...) is one action with the guard of its
handler. `TapSale`, `Seats` and `Promotions` take a webhook as one action in the same way. `Door`
begins where `Payments` mints, `JobQueue` where it enqueues.

### Behaviours that are switched

Most modules have a set of behaviours that can happen but that the code does not survive. Each is
a name in a constant (`Allow`, `TapAllow`, `GateAllow`, `ConsignAllow`, `PayoutAllow`; in
`Promotions` it always may) and happens only if it is allowed. The modules other than `Inventory`
and `Payments` also record what has happened (`faults`, `amiss`, `hitch`, `mishaps`, `slips`,
`lapses`), and a property that needs calm says so in its hypothesis, so that one run checks
everything else under the faults.

| Behaviour | When it happens | What it breaks |
|---|---|---|
| **Inventory** `add_during_sweep` | a place is reserved while a sweep is between its reads and its writes | `NeverOversold` (run `inv_sweep_race`), `HeldCoversHolds`, `PendingOrderBacked`, `LeavesHeldOnce`, `BoundHoldNeverExpires`; `CountersHeal` still holds (run `inv_live`) |
| `parallel_tabs` | two requests of one cart overlap | `LeavesHeldOnce`, `HeldCoversHolds`, `PendingOrderBacked`, `NeverOversold`: `checkout.ts:521` writes the status `held` over a hold released meanwhile |
| `late_cancel` | the provider reports a canceled order's payment canceled once more | `LeavesHeldOnce`, `HeldCoversHolds`, `PendingOrderBacked`: `releaseOrderHolds` finds by cart the holds of the cart's next order |
| `manual_release` | an administrator releases a reservation | the same and `NeverOversold`: the row is released on what was read, also under a checkout |
| `late_success` | a payment succeeds after the failure of an earlier attempt | `NeverOversold`, `SoldIsTickets`: `fulfillment.ts:240` mints whatever became of the places |
| `double_restore`, `void_refunded` | refund, dispute and void of one order overlap or follow each other | `SoldIsTickets`, `NeverOversold` |
| `crash` | a process stops between two steps | nothing in `Inventory` |
| **Payments** `crash` | the same | `Served`: the inbox row stays `received`, and every redelivery is acknowledged for it |
| `overlap` | deliveries to the webhook overlap | `KeepsPromise`: a failed event's handler cancels the tickets of an order that settled after it had looked (`payments-stripe.ts:532`) |
| `reconcile` | the reconciliation runs | `Served`: it takes a failed event over while the provider's redelivery is refused |
| `refund` | money goes back before tickets are out | `ReturnedIsVoid`: a redelivered success mints after the refund |
| **JobQueue** `overlap`, `slow` | workers overlap; a lock goes stale under a live worker | `MailedOnce` |
| `crash`, `unmarked` | a worker stops, or the statement fails, after the mail and before its mark | `MailedOnce` |
| **Door** `overlap`, `crash` | clerks overlap or stop in a forward | `EntryOnlyForHolder`: two rotations leave two codes, or the old one stays |
| `timeout` | a device gives up on a request that is still running | no property; the retry shows `ALREADY` to the guest it has let in |
| `orderPdf`, `refresh` | the buyer's combined PDF, or a former holder's wallet pass, is renewed | `EntryOnlyForHolder` |
| **Seats** `stale` | something happens between the read and the write of sweep, scrub or mint | `SeatsFollowHold`, `OrderIsSeated` |
| `late`, `lapse` | a payment succeeds after the release; a counter order's seats lapse | `OrderIsSeated` |
| `again` | a released order is released once more | `KeptWhileFresh`: the seats of a counter order are freed by their ids, whoever holds them now |
| `own` | a cart picks a seat again that it has let lapse | `SeatsFollowHold` |
| **TapSale** `outage`, `crossed`, `retry` | Stripe does not take the cancellation; the guest has paid already; the phone tries again what the form has given up | `GuestPaysOnce`, `CancelledIsUnpaid` |
| `lapse` | the 20 minutes of the hold pass | nothing |
| **Promotions** `overlap` | a release crosses another one or a payment of its order | `PromotionsAddUp`, `ReducedIsRedeemed` |
| `redelivery` | a success is delivered again for an order that was flagged because its promotion could not be redeemed | `ReducedIsRedeemed`: `payments-stripe.ts:287` stops only `paid` orders, line 354 writes `paid` over `needs_review`, the fulfilment finds tickets and redeems nothing. The order leaves the staff's list (`exceptions/page.tsx:83`), although line 382 says it is flagged for them; its `failedReasonCode` stays |
| **SaleGate** `crossed`, `oldform`, `unready` | a write opens what was stopped after it had read; the edit form is saved over a pause; an event that lacks something is saved as sold out and becomes a scheduled one | `StoppedStaysStopped`, but never for an early close |
| **Consignment** `overlap` | two voids overlap | `StockIsOut`: stock is taken twice, or the order stays open without a ticket |
| `sold` | a ticket is sold or scanned while the rest is settled | `BuyersKeepTickets` |
| **Payout** `crossed`, `twice`, `late` | an import or a webhook comes between two documents; the button is used twice; an old status is written over a newer one | `DocumentsShowBalance` |
| `outage`, `crash`, `overlap` | Stripe does not answer, a process stops, two import | nothing once they end; while imports overlap the row may say `reconciled` with a line unmapped, but the documents ask again. The exception is a payout of which a part of the transactions has the sum (`NoPartBalances` excludes it): then a verdict may outlive its books |

Some of it needs no switch because a property states it as it is. `ensure-presale-release.ts:67` opens
a paused event although `event-sale.ts:138` says that paused, cancelled and completed events are never
flipped automatically: `crossed`. The counter looks at the status only (`box-office.ts:103`), so an
early close stops the shop and not the counter, although `events/actions.ts:1159` says it ends both:
`StoppedStaysStopped` speaks of the shop. A discount is split over the lines with the rest on the
last one, which may be too cheap to take it: `BillAddsUp` excepts it. The cents that remain of the fee
go to the smallest tax group, although the comment at `tax-allocation.ts:12` gives them to the largest:
with two or three rates that is at most a cent, with four it can be more. `TicketsPerPlace` is of the same
kind: with 2, a wheelchair place with a free companion, a refund gives back more than was sold
(`restore-ticket-inventory.ts:66`); the runs have 1.

## 3. What is checked

| Run | Properties | Shows |
|---|---|---|
| `inv_carts` | `HeldCoversHolds`, `NeverOversold`, `BoundHoldNeverExpires` | two carts of two lines and a counter compete for two places: counters cover the holds, nothing is oversold, no bound hold is expired |
| `inv_orders` | `SoldIsTickets`, `PendingOrderBacked`, `LeavesHeldOnce` | two orders of one session with crashes anywhere: sold stock equals tickets, a payable order keeps its places, holds leave `held` once |
| `inv_live` | `LapsedLineIsFreed`, `CountersHeal` | lapsed lines are freed and counters heal under fair sweeps, with reservations during sweeps |
| `inv_sweep_race` | `NeverOversold`, violated | the counter rebuilt from an old sum sells a place twice: the finding in `PROJECT.json` |
| `pay_any` | `TicketsNeedMoney`, `IssuedOnce` | every environment behaviour at once, two workers: no valid ticket without money, minted once |
| `pay_calm` | `ReturnedIsVoid`, `KeepsPromise`, `Served` | deliveries one by one in any order, every statement failing at will: `TicketPromise` is implemented, who has paid is served, a refund is final |
| `jobs_heal` | `MailedOnce`, `BuyerIsMailed` | one worker that may crash, both jobs: one mail each without a fault; the buyer is mailed in the end unless a week has passed |
| `jobs_race` | `NothingStuck` | two workers with overlap, stalls and crashes: every job ends as succeeded or given up |
| `door` | `OneGuestPerTicket`, `ValidTicketHasCode`, `EntryOnlyForHolderCalm`, `CancelledIsFinal` | clerks, a device with retries, forwards and cancellation of one ticket |
| `house` | `SeatOnce`, `SoldIsTicketed`, `SeatsFollowHold`, `OrderIsSeated`, `KeptWhileFresh`; `StoppedStaysStopped`; `StockIsOut`, `BuyersKeepTickets`; `DocumentsShowBalance` | safety of seats, sale gate, consignment and payout |
| `live` | `NoSeatLost`; `PaidIsMinted`; `PayoutSettles` | what has to end in seats, tap sale and payout |
| `office` | `PromotionsAddUp`, `ReducedIsRedeemed`; `GuestPaysOnce`, `CancelledIsUnpaid`; `BillAddsUp`, `OneReduction`; `BestFound`, `NeighboursFound` | safety of promotions and tap sale; prices and seat choice against reference definitions |

Type invariants of modules with a proof are theorems and are not run again.

**Bounds.** Each bound is a constant; the theorems need none of them.

- *Inventory*: two places and two holds are enough for every race found, since each takes one place
  and two claims on it; `MaxQty = 2` lets a line grow and a checkout read a quantity that changes;
  two workers put any step of one request between any two of another; two orders let a cart serve
  one after the other. `MaxSold` only cuts repeated cash sales.
- *Payments*: three events with two workers (`pay_any`) are a success with the event before it and
  the refund after it, or two events that race and a third; four with one worker (`pay_calm`) add a
  submitted debit.
- *JobQueue*: two attempts are a first and a last one, so that failure, retry and giving up all
  occur; `MaxMails = 2` tells one mail from more.
- *Door*: two people, one forward and its limit, three codes (mint, forward, rotation), one device
  with two attempts, so that a retry meets the request it gave up on. Clerks and devices together
  are too many states, so `MCDoor` cuts each behaviour to one of three themes, which its comment
  names: overlapping clerks, a device beside clerks, or a device with retries.
- *Seats*: two seats, two carts and a counter sale let any two compete for a seat that a third sale
  has; lines of up to two seats can be seated in part. Stale reads together with every other fault
  are too many states: `MCHouse!Within` lets a behaviour have stale reads of one actor at a time,
  stale mints with lapsing, or at most two of the other faults. `SeatOnce` and `SoldIsTicketed` are
  proved without that cut.
- *TapSale*: two sales are the one given up and the one that follows it.
- *Promotions*: two orders, one use and a card that pays for one of them and half of another; two
  releasers. Either order can be flagged, by the code or by the card, and a success may come again
  for each.
- *Pricing*: four lines over three categories of three tax rates with prices that round badly
  (10.00, 3.33, 0.05), or up to three tickets with three campaigns that come and go; codes by
  amount and by percent, a card that covers less than the order.
- *SeatChoice*: segments of five and four seats in two rows, every set of taken seats, parties of
  up to four: enough for runs that are cut in two and for chairs that compete for a neighbour.
- *SaleGate*: one clerk at a time between read and write, and the release that crosses it; three
  statuses for the form; an event that lacks at most its cover. `StopHolds` is proved for any number
  of clerks at work at once.
- *Consignment*: two tickets and two requests: settle the rest against a sale, a scan or a second
  void.
- *Payout*: a charge and a fee, of which one needs an order; two importers (one in `live`), one kind
  of document, since every kind is built by the same statement.

**Fairness.** It is what the code's schedulers and its services give:

- A request that has begun goes on: `WF` on its later steps, none on starting one.
- Sweeps are started again and again by cron and by every read of a cart, each in an instance of its
  own. In `Inventory` this is `SF`, because the model has a bounded number of workers to lend; in
  `Seats` the sweep needs no worker and has `WF`.
- Stripe redelivers an event until it is acknowledged: `SF` on taking up each event in `Payments`;
  in `TapSale`, where a delivery is one step, `WF` on `Settle`. That statements fail finitely often
  (`<>[][...]`) is the assumption that outages end within the provider's retries, which last days.
- `JobQueue`: the cron job drains and reconciles every day (`SF` on `Drain` and `Reconcile`, which
  need an idle worker); crashes and stalls end. `BuyerIsMailed` has the hypothesis `MailWorks`, that
  the mail server refuses finitely often; `NothingStuck` does without.
- `Door`: a scan that has reached the server is carried on.
- `Seats`: time passes (`WF` on `Lapse`), a pending order is settled one way or the other, a paid
  one is minted.
- `Payout`: the daily job asks every day and its requests go on; outages and crashes end.

Nothing is assumed of buyers, staff, refunds, crashes or devices. Liveness runs use no symmetry.

Deadlock is not checked: every order may be finished, every event acknowledged and every seat sold,
and then the modules rightly stop.

## 4. What is proved

TLAPS proves the following for every value of the constants. The assumptions are the named
`ASSUME`s of the modules: finite sets where something is counted, distinct names, bounds that are
numbers, fault sets that contain known faults. Hypotheses beyond them are named below with the reason
for each. Every proof has the same shape: an invariant that is inductive, its initial case, one lemma
per action or group of actions, and the step to the property.

**Stock** (`InventoryProofs`, `StockProofs`), for any carts, lines, holds, orders and processes.

- `TypeCorrect`: the counters stay natural numbers although every release subtracts a quantity read
  earlier (`AtLeastZero`).
- `BoundHoldsSafe`: if no place is reserved while a sweep is in progress, no sweep expires a hold
  that an order owns. `SweepIsCurrent` (theorem `SweepStaysCurrent`) strengthens it: what a sweep has
  read stays true until it writes, since a lapsed hold stays lapsed and checkout compares the expiry
  inside its transaction. Extending a line is the only step that breaks it.
- `HoldsLeaveOnce`, `HeldCovered`, `PoolsFitCategory`, `PendingBacked`: a hold leaves `held` once, the
  counters cover the holds, what is sold and held in both channels fits the category, and a payable
  order owns its places. The hypothesis `Undisturbed` excludes `parallel_tabs`, `add_during_sweep`,
  `late_cancel` and `manual_release`; TLC has a counterexample for each of the four. Crashes, late
  payments and repeated refunds are covered.
- `SoldTickets`, `NotOversold`: sold stock is tickets, and the category is not oversold. The
  hypothesis `Orderly` leaves crashes only and one ticket for a place; TLC has a counterexample for
  every other behaviour and for two tickets.

  The argument has four layers. `Bindings` says who owns which hold: each request has its cart or
  order and a cart has one request (`TasksShaped`), the rows that are referred to exist (`RowsExist`),
  and cart, line, hold, order and request agree on one another (`Agreement`), which is what makes the
  status that `checkout.ts:521` writes over a hold read earlier harmless. `Origins` keeps lines and
  orders in their channel. `Counts` is about cardinalities: each counter covers the places of its
  holds, also while a sweep carries an older sum (`TallyCovers`), and the two pools fit the category.
  `Backing` follows an order's places from the checkout to the minting; `Books` ties the sold counter
  to the tickets of the orders, with one request at a time giving them back (`RestoreAlone`).

**Payments** (`PaymentsProofs`), for any events and workers.

- `TypeCorrect`: with `InItsHandler`, because handlers write their event's type into the order.
- `NoTicketsUnpaid`: tickets are valid only for money collected, under every environment behaviour.
  `MoneyFacts` carries it: events tell the truth about the intent, and a payment row is `paid` only
  if the intent succeeded, whoever wrote it; fulfilment asks for nothing else.
- `MintedOnce`: tickets are minted once and stay cancelled.
- `RefundVoids`: once a refund has been processed no ticket is valid, with overlap and crashes.
  `RefundInv`: a refund is posted for tickets that are out, and its handler is through only with
  these cancelled. It needs `refund` excluded, money that goes back before the tickets are out: there
  a success delivered later mints them after all.
- `PromiseKept`: without overlapping deliveries `Payments` implements `TicketPromise`, with failures,
  crashes, early refunds and reconciliation. `SerialInv`: one worker is in a handler at a time, an
  order is locked exactly while it has tickets, a paid row belongs to a settled order, and so what a
  handler read still holds when it writes (`StillTrue`). Two handlers at once break `StillTrue`, and
  the promise with it.

**Jobs** (`JobQueueProofs`), for any workers and attempts.

- `JobsTyped`, `DoneHasMailed`: a post-fulfilment job that has succeeded has mailed the buyer, under
  every fault. No run checks it; the proof does. `Aimed`: a worker at a step after the mail knows that
  the mail is marked as sent, and the mark is never taken back, so whoever writes the status last
  tells the truth.
- `NobodyMailedTwice`: without a fault buyer and staff get one mail each. `CalmInv`: one worker is at
  work, and a mail is out that is not marked only while it is between the two.

**Ticket and door** (`DoorProofs`), for any people, clerks, devices, attempts and codes.

- `DoorTyped`, `NoDoubleEntry`: the presence of a ticket is the number of guests inside on it.
  `PresenceInv`: a request about to flip the presence has read one that the flip changes; the flip is
  conditional on what was read, so it counts a guest exactly when it moves one.
- `AlwaysACode`: a valid ticket has an active code, since a rotation creates and revokes in one
  transaction; only a cancellation revokes alone, and `CodeInv` keeps the ticket of a clerk who is at
  it cancelled.
- `OnlyTheHolderEnters`: without a fault nobody but the holder has a code that opens the door.
  `CalmInv`: one clerk is at work, and between the change of the holder and the rotation, where others
  do know the code, the clerk will revoke exactly the active ones.
- `CancelledOpensNothing`, the safety behind the liveness of `CancelledIsFinal`: no step gives a
  cancelled ticket back or lets another scan through, and its guest moves only by a scan that was let
  through before and ends with the move.

**Seats** (`SeatsProofs`), for any seats, carts and counter sales.

- `SeatsTyped`, `SeatsAlwaysAgree`, `NoSeatTwice`, `SoldForATicket`, under every fault: the seat rows
  sold to an order and the seats of its valid ticket are the same set (`SeatsAgree`). Only fulfilment
  and cancellation touch either; every other step is quiet (`SeatsQuiet`), because the statements that
  claim, sweep, scrub and release ask that the seat is not sold.
- `SeatsAndHold`, `OrdersAreSeated`, `FreshSeatsKept`, while no fault has happened, which is what the
  properties themselves ask: a line has as many seats as its hold counts, an order has all of its
  seats, and no step takes seats that have not lapsed. `AllFit` holds until the first fault: each line
  fits its seats in every state of its order (`LineFits`, `CounterFits`), counter sales are `Apart`,
  and what the sweep has found is still so (`SweepFits`).

**Counter and promotions** (`OfficeProofs`), for any sales, orders and releasers.

- `TapSaleTyped`, `CancelledWasNotPaid`, `ChargedOnce`: without the three faults, a cancelled sale is
  not charged and a guest not twice. `TapInv` says what intent, order, form and phone know of each
  sale: a closed sale's intent is cancelled or never was, an open intent on the phone is the form's or
  has failed, and a charged one is the one the form waits for.
- `PromotionsTyped`, `NoFreeReduction`: unless releases overlap, an order that has tickets at a
  reduced price has redeemed the promotion or keeps the reason why not, and is in review until a
  success is delivered again. `PromoInv` adds `Apart`: an order that a releaser is at is still pending
  and has no tickets, no other releaser is at it, and an order with tickets was paid (`Settled`).
- `NothingLost`: unless they overlap, the uses of the code and the balance of the card are those of the
  orders. `LedgerInv` has both sums and what marks an order as counted, and a releaser's view of it.

**Prices** (`OfficeProofs`), for any prices, campaigns, codes, fees and gift cards.

- `CodeOrCampaign`: a cart paid with a code has no line at a campaign price. `CartInv`: a code was
  taken only from such a cart, and lines show list price, campaign and concession as repricing left
  them.
- `BillsBalance`: net and tax, total and gift card, discount and its parts add up (`Consistent`), for
  any lines and tax rates, unless the last line costs less than the part it gets, as in the property.
- `BillsAddUp`: with up to three tax rates the shares of the fee add up too, none is negative and each
  is within a cent of its proportion (an organisation starts with two rates, 7 % and 19 %). The bound
  is needed: each share but the last is rounded by up to half a cent, the last one takes the sum.

**Seat choice** (`OfficeProofs`), for any segments and rows of seats and whatever is taken. Both
properties are about one request, so the work is in lemmas about the search: `RunsAre` (the runs are
the blocks of free seats that cannot be extended), `InARun` (free seats side by side lie in one run),
`GapsAre` (a slice leaves a new single seat exactly if one seat is over on a side).

- `BestSeatsFound`: a party gets what it asked for or nothing, together if that is possible, and a
  single seat is left over only if it cannot be helped. The last part compares scores: a gap costs
  2000000 in the module's scale, a row index 20000 (`qualityScore`, `scoreRemnants`), so a gap outweighs
  everything else only in blocks that are not too deep or too wide. `CompactHall` asks for fewer than
  ninety rows of up to nine hundred seats. The code sets no limit, and a hundred rows back the
  property fails: there the score prefers the gap in front.
  A party in several runs is complete because every step takes a free seat at least and never more
  than are wanted (`ChunkTaken`).
- `PairsAndCompanionsFound`, for every hall: when the greedy search finds no further pair, every pair
  that would fit beside the others in a run has lost a seat to one it has picked (`RunIsUsed`), so
  there is room for no more pairs than it has picked seats (`RoomIsUsed`). Chairs that share no
  neighbour cannot take each other's companion (`TwoCompanions`).

**Sale gate, consignment, payouts** (`HouseProofs`), for any clerks, tickets, requests, balance
transactions and importers.

- `StopHolds`: what staff has stopped stays stopped. `GateInv` says what the tasks under way mean to
  write: closing stops and reopening opens (`Ordered`), and the status a form carries means what its
  clerk saw, until a fault (`Honest`). That is why `unready` is among the faults: an event that lacks
  its cover, saved as sold out, is written as scheduled, and a later release opens it.
- `StockFollowsBlock`, `SoldTicketsStay`: the block counts for its active tickets and closes with the
  last one; no request voids a ticket that was sold or whose guest is inside. `ConsignInv`: the
  request that is to close the order is about all that is left (`LastIsAll`), and what the others read
  holds while one voids alone (`Alone`) and nothing is sold meanwhile (`Spared`).
- `DocumentsBalance`: documents built once and with no import under way show balanced books.
  `PayoutInv`: a verdict `reconciled`, written or about to be, has all transactions behind it
  (`Verdicts`), one import is under way (`OneImport`), the books rest while documents are built
  (`BooksRest`). With overlapping imports that fails for a payout of which a part of the transactions
  has the sum of all, because one import judges while another has stored a part: hence the hypothesis
  `NoPartBalances` in the property.

**Sums and counts.** The prover cannot instantiate the library's induction over data, and so the
folds over finite sets of `Promotions`, `Pricing` and `SeatChoice` are reasoned about by smallest
counterexamples: the recursion of the library's fold is unfolded once, and the subsets for which an
equation fails, if any, have one of least cardinality (`SubsetInduction`). The loops of `SeatChoice`
are functions on `0..n`, which exist by the same argument (`Repeated`). The lemmas of `OfficeProofs` on sums
(`SumAdds`, `SumChange`, `SumMinus`, `SumTimes`, ...) come from that. Places are counted as
cardinalities of sets of pairs, with lemmas at the beginning of `InventoryProofs`.

**Only model-checked.** All liveness (`LapsedLineIsFreed`, `CountersHeal`, `Served`, `BuyerIsMailed`,
`NothingStuck`, `CancelledIsFinal`, `NoSeatLost`, `PaidIsMinted`, `PayoutSettles`): liveness under
fairness and `ENABLED` are out of the prover's reach. Every invariant that a run checks is stated by a
theorem, some under the hypotheses named above.

## 5. Not modelled

- *Stock, orders, payments*: partial voids of an online order, the purchase limit, amount
  mismatches, partial refunds, the dev provider. `payment_intent.created` changes nothing, since
  every order has `paymentCreatedAt` from the start. Checkout stores the payment row before it
  tells the buyer where to pay, so `Payments` starts with one.
- *Jobs*: reminders, payout and accounting jobs, which use the same queue; the texts of mails.
- *Tickets and door*: personalisation, the gate's schedule (a switch here), search and statistics.
- *Seats*: making an event's seats out of a plan, standing places, the plan editor's geometry.
- *Prices*: fee profiles in the settings, payment fees, other channels than the shop.
- *Sale gate*: sale windows of single categories, series of events, the other fields of the form.
- *Consignment*: grants and invitations, which are updates of one row.
- *Payouts*: manual payouts, previews of documents, notes, the monthly run.
- The larger part of the repository by lines is user interface, rendering and formatting, tracking,
  support chat, accounting export, wallet passes, uploads, legal texts, accounts and roles, and
  migrations: they keep no state these properties could be about, or call outside services.
  `PROJECT.json` gives the reason for each.

## 6. Plan

1. Proofs: the safety parts of `Served` and `PayoutSettles`, as for `CancelledIsFinal`.
2. `Payments`: partial refunds and amount mismatches, whose write-back of a status read earlier
   (`payments-stripe.ts:601`) is still without a model.
3. `JobQueue`: the other job types; `Seats`: standing places; `Inventory`: partial voids and the
   purchase limit, against several carts of one buyer.
