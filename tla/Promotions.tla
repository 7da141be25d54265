----------------------------- MODULE Promotions -----------------------------
(***************************************************************************)
(* One limited discount code and one gift card of an organisation, and the *)
(* orders that use them: reserved with the order at checkout, given back   *)
(* when its payment fails, redeemed at fulfilment if they are not reserved *)
(* any more.                                                               *)
(*                                                                         *)
(* Checkout prices the cart before its transaction and releaseOrderHolds   *)
(* reads the order before its own, so each is two steps.  A success that   *)
(* is delivered again is fulfilled again, unless the order is marked paid. *)
(***************************************************************************)
EXTENDS Naturals, FiniteSets, FiniteSetsExt

CONSTANTS
    Orders,
    Releasers,       \* webhooks, staff actions and compensations that release
    MaxRedemptions,  \* of the code
    CardCents,       \* initial balance of the card
    Worth            \* what orders cost

ASSUME PromotionsAssumption ==
    /\ IsFiniteSet(Orders) /\ Orders # {} /\ MaxRedemptions \in Nat /\ CardCents \in Nat /\ Worth \subseteq Nat

VARIABLES
    uses,     \* redemption_count
    card,     \* balance and expiry of the gift card
    order,
    release,  \* what each releaser is at
    hitch     \* what has gone wrong so far: "overlap", "redelivery"

promoVars == <<uses, card, order, release, hitch>>

-----------------------------------------------------------------------------
\* reserved is promotionsReservedAt, review the payment status needs_review by which staff
\* lists orders, reason the failedReasonCode of a redemption that failed.
\* spent: the code has been counted although the redemption failed.
Order == [state: {"none", "priced", "pending", "paid", "fulfilled", "cancelled"},
          code: BOOLEAN, gift: Nat, reserved: BOOLEAN, tickets: BOOLEAN,
          review: BOOLEAN, reason: BOOLEAN, spent: BOOLEAN]

NoOrder == [state |-> "none", code |-> FALSE, gift |-> 0, reserved |-> FALSE,
            tickets |-> FALSE, review |-> FALSE, reason |-> FALSE, spent |-> FALSE]

\* A releaser has decided to release, then reads, then writes.
Release == [at: {"idle", "decided", "read"}, of: Orders, stamp: BOOLEAN, cancels: BOOLEAN]

Busy(o) == \E w \in Releasers : release[w].at # "idle" /\ release[w].of = o

HasUse == uses < MaxRedemptions

Covers(o) == ~card.expired /\ card.balance > 0 /\ card.balance >= order[o].gift

Promoted(o) == order[o].code \/ order[o].gift > 0

\* applyOrderPromotions, when it gets through.
Apply(o) ==
    /\ order[o].code => HasUse
    /\ order[o].gift > 0 => Covers(o)
    /\ uses' = IF order[o].code THEN uses + 1 ELSE uses
    /\ card' = [card EXCEPT !.balance = @ - order[o].gift]

\* ... and when it throws: at once, or after it has counted the code.
Refuses(o) ==
    \/ order[o].code /\ ~HasUse
    \/ order[o].gift > 0 /\ ~Covers(o)

CountedFirst(o) == order[o].code /\ HasUse

Set(o, changes) == order' = [order EXCEPT ![o] = changes]

Cheaper(m, n) == IF m <= n THEN m ELSE n

-----------------------------------------------------------------------------
\* priceCart: what the buyer is quoted for a cart worth price.
Price(o, code, gift, price) ==
    /\ order[o].state = "none"
    /\ code => HasUse
    /\ gift => ~card.expired /\ card.balance > 0
    /\ Set(o, [order[o] EXCEPT !.state = "priced", !.code = code,
                   !.gift = IF gift THEN Cheaper(card.balance, price) ELSE 0])
    /\ UNCHANGED <<uses, card, release, hitch>>

\* The checkout's transaction; reserveOrderPromotions is its last call.
Place(o) ==
    /\ order[o].state = "priced"
    /\ Apply(o)
    /\ Set(o, [order[o] EXCEPT !.state = "pending", !.reserved = Promoted(o)])
    /\ UNCHANGED <<release, hitch>>

\* It throws, the transaction rolls back, and the buyer is told.
Turn(o) ==
    /\ order[o].state = "priced"
    /\ Refuses(o)
    /\ Set(o, NoOrder)
    /\ UNCHANGED <<uses, card, release, hitch>>

\* payment_intent.succeeded.  A buyer may pay after a failed attempt.
Pay(o) ==
    /\ order[o].state = "pending"
    /\ \A w \in Releasers : release[w].of = o /\ release[w].at # "idle" => ~release[w].cancels
    /\ Set(o, [order[o] EXCEPT !.state = "paid"])
    /\ hitch' = IF Busy(o) THEN hitch \cup {"overlap"} ELSE hitch
    /\ UNCHANGED <<uses, card, release>>

MustRedeem(o) == Promoted(o) /\ ~order[o].reserved

\* Mutant: a redemption that fails goes unnoticed.
Silent(o) == FALSE

NeedsReview(o) == Refuses(o)

\* The tickets and the flag that redeemOrderPromotions leaves when it throws.  The code
\* that was counted before the card refused stays counted.
Flagged(o) ==
    [order[o] EXCEPT !.state = "fulfilled", !.tickets = TRUE, !.review = NeedsReview(o),
                     !.reason = NeedsReview(o), !.spent = CountedFirst(o)]

\* fulfillPaidOrder redeems with the tickets it mints, and not when it finds tickets.
Fulfil(o) ==
    /\ order[o].state = "paid"
    /\ \/ /\ order[o].tickets \/ ~MustRedeem(o)
          /\ Set(o, [order[o] EXCEPT !.state = "fulfilled", !.tickets = TRUE])
          /\ UNCHANGED <<uses, card>>
       \/ /\ ~order[o].tickets /\ MustRedeem(o) /\ Apply(o)
          /\ Set(o, [order[o] EXCEPT !.state = "fulfilled", !.tickets = TRUE, !.reserved = TRUE])
       \/ /\ ~order[o].tickets /\ MustRedeem(o) /\ Refuses(o)
          /\ uses' = IF CountedFirst(o) THEN uses + 1 ELSE uses
          /\ Set(o, Flagged(o))
          /\ UNCHANGED card
    /\ UNCHANGED <<release, hitch>>

\* payment_intent.succeeded once more, because a statement failed after the fulfilment: a
\* flagged order is not marked paid, so it is marked paid now and fulfilled again.
SucceedAgain(o) ==
    /\ order[o].state = "fulfilled" /\ order[o].review
    /\ Set(o, [order[o] EXCEPT !.state = "paid", !.review = FALSE])
    /\ hitch' = hitch \cup {"redelivery"}
    /\ UNCHANGED <<uses, card, release>>

\* A failed or cancelled payment, a staff release, or a checkout whose payment
\* could not be created (cancels): none acts on a paid order.
Decide(w, o, cancels) ==
    /\ release[w].at = "idle"
    /\ order[o].state = "pending"
    /\ cancels => ~Busy(o)
    /\ release' = [release EXCEPT ![w] =
                      [at |-> "decided", of |-> o, stamp |-> FALSE, cancels |-> cancels]]
    /\ hitch' = IF Busy(o) THEN hitch \cup {"overlap"} ELSE hitch
    /\ UNCHANGED <<uses, card, order>>

\* releaseOrderHolds reads the order ...
Read(w) ==
    /\ release[w].at = "decided"
    /\ release' = [release EXCEPT ![w].at = "read", ![w].stamp = order[release[w].of].reserved]
    /\ UNCHANGED <<uses, card, order, hitch>>

Credit(o) == order[o].gift

\* Mutant: promotionsReservedAt is not reset.
KeptReserved(o, stamp) == order[o].reserved

StillReserved(o, stamp) == order[o].reserved /\ ~stamp

\* ... and releaseOrderPromotions writes by what was read.
Write(w) ==
    LET o == release[w].of  stamp == release[w].stamp IN
    /\ release[w].at = "read"
    /\ uses' = IF stamp /\ order[o].code /\ uses > 0 THEN uses - 1 ELSE uses
    /\ card' = IF stamp THEN [card EXCEPT !.balance = @ + Credit(o)] ELSE card
    /\ Set(o, [order[o] EXCEPT
                  !.reserved = StillReserved(o, stamp),
                  !.state = IF release[w].cancels THEN "cancelled" ELSE @])
    /\ release' = [release EXCEPT ![w].at = "idle", ![w].stamp = FALSE, ![w].cancels = FALSE]
    /\ UNCHANGED hitch

\* expires_at passes.
Expire ==
    /\ ~card.expired
    /\ card' = [card EXCEPT !.expired = TRUE]
    /\ UNCHANGED <<uses, order, release, hitch>>

-----------------------------------------------------------------------------
PromoInit ==
    /\ uses = 0
    /\ card = [balance |-> CardCents, expired |-> FALSE]
    /\ order = [o \in Orders |-> NoOrder]
    /\ release = [w \in Releasers |-> [at |-> "idle", of |-> CHOOSE o \in Orders : TRUE,
                                       stamp |-> FALSE, cancels |-> FALSE]]
    /\ hitch = {}

PromoNext ==
    \/ \E o \in Orders : \E code, gift \in BOOLEAN : \E price \in Worth :
          Price(o, code, gift, price)
    \/ \E o \in Orders : Place(o) \/ Turn(o) \/ Pay(o) \/ Fulfil(o) \/ SucceedAgain(o)
    \/ \E w \in Releasers, o \in Orders, cancels \in BOOLEAN : Decide(w, o, cancels)
    \/ \E w \in Releasers : Read(w) \/ Write(w)
    \/ Expire

PromoSpec == PromoInit /\ [][PromoNext]_promoVars

-----------------------------------------------------------------------------
(* Properties *)

\* Types.
PromoTypeOK ==
    /\ uses \in Nat
    /\ card \in [balance: Nat, expired: BOOLEAN]
    /\ order \in [Orders -> Order]
    /\ release \in [Releasers -> Release]
    /\ hitch \subseteq {"overlap", "redelivery"}

\* Counter and card agree with the orders, which checkout, release and redemption
\* move under three different conditions: a use of the code is counted for each order
\* that has it reserved or whose redemption failed after counting, and money of the
\* card is either on it or with an order that has it reserved.
PromotionsAddUp ==
    "overlap" \notin hitch =>
        LET reserved == {o \in Orders : order[o].reserved} IN
        /\ uses = Cardinality({o \in reserved : order[o].code})
                    + Cardinality({o \in Orders : order[o].spent})
        /\ card.balance + SumFunction([o \in reserved |-> order[o].gift]) = CardCents

\* A buyer who has tickets at a reduced price has used the promotion up, or the order
\* says for good why not and staff finds it under review: a release before a late payment
\* must not make the reduction free.  A success delivered again takes the order off that
\* list, and only that.
ReducedIsRedeemed ==
    "overlap" \notin hitch =>
        \A o \in Orders : order[o].tickets /\ Promoted(o) /\ ~order[o].reserved =>
            order[o].reason /\ (order[o].review \/ "redelivery" \in hitch)
=============================================================================
