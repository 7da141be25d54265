------------------------------- MODULE Pricing -------------------------------
(***************************************************************************)
(* What a cart costs: unit prices with price campaigns and the concession, *)
(* a discount code or an order campaign on the whole cart, the             *)
(* administration fee and how it is split over tax rates, the gift card.   *)
(* Unit prices are stored with the cart's lines while campaigns start and  *)
(* end; the checkout prices the lines again and then reads the campaigns a *)
(* second time.  One event, the online channel.                            *)
(***************************************************************************)
EXTENDS Integers, FiniteSets, SequencesExt

CONSTANTS
    Categories,
    ListPrice,    \* cents of a category
    TaxRate,      \* basis points of a category
    Campaigns,    \* price campaigns of the event
    Codes,        \* discount codes
    Concession,   \* the accessibility offer
    FeePlans,     \* settings of the administration fee
    Cards,        \* balances of gift cards, 0 for none
    MaxLines, MaxQuantity

\* A reduction is in cents, or in basis points of the price.
Reduction == [type: {"fixed", "percent"}, value: Nat]

ASSUME PricingAssumption ==
    /\ IsFiniteSet(Categories) /\ IsFiniteSet(Campaigns) /\ IsFiniteSet(Codes)
    /\ ListPrice \in [Categories -> Nat] /\ TaxRate \in [Categories -> Nat]
    /\ Campaigns \subseteq [by: Reduction, mode: {"unit", "order"}, min: Nat,
                            categories: SUBSET Categories]
    /\ Codes \subseteq [by: Reduction, min: Nat] /\ Concession \in Reduction
    /\ FeePlans \subseteq [bps: Nat, before: BOOLEAN, rate: Nat \cup {-1}]
    /\ Cards \subseteq Nat /\ MaxLines \in Nat /\ MaxQuantity \in Nat

VARIABLES
    running,  \* the campaigns that are active now
    lines,    \* cart_items, in the order of the cart
    entered,  \* discount codes of the cart: none or one
    at,       \* "open", "repriced" within a checkout, or "ordered"
    bill      \* the order's amounts

priceVars == <<running, lines, entered, at, bill>>

-----------------------------------------------------------------------------
(* Arithmetic *)

AtLeast0(n) == IF n < 0 THEN 0 ELSE n

Smaller(m, n) == IF m < n THEN m ELSE n

\* Math.round of n / d.
Round(n, d) == (2 * n + d) \div (2 * d)

Bps(amount, bps) == Round(amount * bps, 10000)

\* splitGrossToNetTax.
Net(gross, rate) == Round(gross * 10000, 10000 + rate)

\* What is left of a price after a reduction.
Off(price, by) ==
    AtLeast0(price - (IF by.type = "percent" THEN Bps(price, by.value) ELSE by.value))

Total(f) == SumFunction(f)

-----------------------------------------------------------------------------
(* Unit prices *)

Applies(c, category) == c.categories = {} \/ category \in c.categories

Offers(category) == {c \in running : c.mode = "unit" /\ Applies(c, category)}

\* pickBestCampaign; which of equal ones is left open by the database.
BestCampaign(category) ==
    CHOOSE c \in Offers(category) :
        \A d \in Offers(category) : Off(ListPrice[category], c.by) <= Off(ListPrice[category], d.by)

AfterCampaign(category) ==
    IF Offers(category) = {} THEN ListPrice[category]
    ELSE Off(ListPrice[category], BestCampaign(category).by)

\* resolveTicketUnitPrice.
Unit(category, access) ==
    IF access THEN Off(AfterCampaign(category), Concession) ELSE AfterCampaign(category)

Line(category, quantity, access) ==
    [category |-> category, quantity |-> quantity, access |-> access,
     unit |-> Unit(category, access), campaign |-> Offers(category) # {}]

-----------------------------------------------------------------------------
(* The cart *)

Amount(l) == l.quantity * l.unit

Tickets == Total([i \in DOMAIN lines |-> Amount(lines[i])])

Quantity == Total([i \in DOMAIN lines |-> lines[i].quantity])

\* addToCart joins a line of the same category, unit price and concession.
Joins(i, l) ==
    /\ lines[i].category = l.category /\ lines[i].unit = l.unit /\ lines[i].access = l.access

Add(category, quantity, access) ==
    LET l == Line(category, quantity, access)
        same == {i \in DOMAIN lines : Joins(i, l)} IN
    /\ at = "open"
    /\ Quantity + quantity <= MaxQuantity
    /\ \/ \E i \in same : lines' = [lines EXCEPT ![i].quantity = @ + quantity]
       \/ same = {} /\ Len(lines) < MaxLines /\ lines' = Append(lines, l)
    /\ UNCHANGED <<running, entered, at, bill>>

CampaignLine == \E i \in DOMAIN lines : lines[i].campaign

\* cart/promo: a code is refused while a line has a campaign price.
Enter(c) ==
    /\ at = "open"
    /\ ~CampaignLine
    /\ Tickets >= c.min
    /\ entered' = {c}
    /\ UNCHANGED <<running, lines, at, bill>>

\* Staff or the clock start and end a campaign.
Switch(c) ==
    /\ at # "ordered"
    /\ running' = IF c \in running THEN running \ {c} ELSE running \cup {c}
    /\ UNCHANGED <<lines, entered, at, bill>>

Again(l) == Line(l.category, l.quantity, l.access)

\* createOrderFromCart, first half: repriceOpenCart.
Reprice ==
    /\ at = "open" /\ lines # <<>>
    /\ lines' = [i \in DOMAIN lines |-> Again(lines[i])]
    /\ at' = "repriced"
    /\ UNCHANGED <<running, entered, bill>>

-----------------------------------------------------------------------------
(* computeOrderPricing and what priceCart gives it *)

\* resolveOrderCampaignDiscount.
Eligible(c) == {i \in DOMAIN lines : Applies(c, lines[i].category)}

OrderDiscount(c) ==
    LET gross == Total([i \in Eligible(c) |-> Amount(lines[i])])
        count == Total([i \in Eligible(c) |-> lines[i].quantity]) IN
    IF count < c.min \/ count = 0 THEN 0 ELSE gross - Off(gross, c.by)

OrderCampaigns == {c \in running : c.mode = "order" /\ OrderDiscount(c) > 0}

CampaignDiscount ==
    IF OrderCampaigns = {} THEN 0
    ELSE CHOOSE d \in {OrderDiscount(c) : c \in OrderCampaigns} :
            \A c \in OrderCampaigns : OrderDiscount(c) <= d

\* Mutant: campaign prices on lines are forgotten.
ByOrderOnly == OrderCampaigns # {}

HasCampaign == CampaignLine \/ OrderCampaigns # {}

\* Codes do not stack with campaigns; the percentage is of all tickets.
CodeUsed == IF HasCampaign THEN {} ELSE entered

Discount ==
    IF CodeUsed = {} THEN CampaignDiscount
    ELSE LET c == CHOOSE c \in CodeUsed : TRUE IN Tickets - Off(Tickets, c.by)

\* Each line's part of the discount, before the drift of rounding is put right.
RoundedParts(discount) ==
    [i \in DOMAIN lines |->
        IF Tickets = 0 THEN 0 ELSE Round(discount * Amount(lines[i]), Tickets)]

\* Mutant: the drift is left.
Uncorrected(discount) == RoundedParts(discount)

\* The last line takes it, whatever it costs.
Parts(discount) ==
    LET rounded == RoundedParts(discount) IN
    [rounded EXCEPT ![Len(lines)] = @ + discount - Total(rounded)]

Paid(parts) == [i \in DOMAIN lines |-> AtLeast0(Amount(lines[i]) - parts[i])]

Fee(plan, discount) == Bps(IF plan.before THEN Tickets ELSE Tickets - discount, plan.bps)

RateOf(i) == TaxRate[lines[i].category]

\* What is paid at each tax rate.
Groups(paid) ==
    LET sum == [rate \in {RateOf(i) : i \in DOMAIN lines} |->
                   Total([i \in {j \in DOMAIN lines : RateOf(j) = rate} |-> paid[i]])] IN
    [rate \in {r \in DOMAIN sum : sum[r] > 0} |-> sum[rate]]

\* allocateFeeAcrossTaxRates sorts by decreasing group, then by rate.
LastRate(groups) ==
    CHOOSE rate \in DOMAIN groups : \A r \in DOMAIN groups \ {rate} :
        groups[rate] < groups[r] \/ (groups[rate] = groups[r] /\ r < rate)

\* The last rate takes the rest.
Spread(fee, groups) ==
    LET rounded == [rate \in DOMAIN groups |-> Round(fee * groups[rate], Total(groups))] IN
    [rounded EXCEPT ![LastRate(groups)] = fee - (Total(rounded) - @)]

\* The fee's cents at each tax rate.  plan.rate -1 inherits the tickets' rates; 7 %
\* when nothing is paid for.
FeeShares(plan, fee, groups) ==
    IF fee = 0 THEN [rate \in {} |-> 0]
    ELSE IF plan.rate >= 0 THEN [rate \in {plan.rate} |-> fee]
    ELSE IF DOMAIN groups = {} THEN [rate \in {700} |-> fee]
    ELSE Spread(fee, groups)

Bill(plan, balance) ==
    LET discount == Discount
        parts == Parts(discount)
        paid == Paid(parts)
        fee == Fee(plan, discount)
        shares == FeeShares(plan, fee, Groups(paid))
        net == Total([i \in DOMAIN lines |-> Net(paid[i], RateOf(i))])
                 + Total([rate \in DOMAIN shares |-> Net(shares[rate], rate)])
        beforeGift == Tickets - discount + fee
        gift == Smaller(balance, beforeGift) IN
    [discount |-> discount, byCode |-> CodeUsed # {}, parts |-> parts, paid |-> paid,
     fee |-> fee, shares |-> shares, gift |-> gift, net |-> net,
     tax |-> Total(paid) + Total(shares) - net, total |-> AtLeast0(beforeGift - gift)]

\* Second half: priceCart and the order.
Ordered(plan, balance) ==
    /\ at = "repriced"
    /\ \A c \in CodeUsed : Tickets >= c.min
    /\ bill' = {Bill(plan, balance)}
    /\ at' = "ordered"
    /\ UNCHANGED <<running, lines, entered>>

\* resolveDiscountCode throws for a code the new prices do not reach any more.
Refuse ==
    /\ at = "repriced"
    /\ \E c \in CodeUsed : Tickets < c.min
    /\ at' = "open"
    /\ UNCHANGED <<running, lines, entered, bill>>

-----------------------------------------------------------------------------
PriceInit ==
    /\ running = {} /\ lines = <<>> /\ entered = {} /\ at = "open" /\ bill = {}

PriceNext ==
    \/ \E category \in Categories, quantity \in 1..MaxQuantity, access \in BOOLEAN :
          Add(category, quantity, access)
    \/ \E c \in Codes : Enter(c)
    \/ \E c \in Campaigns : Switch(c)
    \/ Reprice \/ Refuse
    \/ \E plan \in FeePlans, balance \in Cards : Ordered(plan, balance)

PriceSpec == PriceInit /\ [][PriceNext]_priceVars

-----------------------------------------------------------------------------
(* Properties *)

\* The last line can take the drift on.
LastCanTake(b) == Amount(lines[Len(lines)]) >= b.parts[Len(lines)]

Consistent(b) ==
    /\ b.net + b.tax = Tickets - b.discount + b.fee
    /\ b.total + b.gift = b.net + b.tax
    /\ Total(b.parts) = b.discount

FeeIsShared(b) ==
    LET groups == Groups(b.paid)  whole == Total(groups) IN
    /\ DOMAIN b.shares # {} => Total(b.shares) = b.fee
    /\ \A rate \in DOMAIN b.shares :
          /\ b.shares[rate] >= 0
          /\ Cardinality(DOMAIN b.shares) > 1 =>
               LET exact == b.fee * groups[rate] IN
               /\ (b.shares[rate] - 1) * whole <= exact
               /\ exact <= (b.shares[rate] + 1) * whole

\* Net amounts, taxes and fee of an order add up to what the buyer pays, through
\* four roundings of their own - unless the last line is too cheap for the drift -
\* and each tax rate has its proportion of the fee to within a cent.
BillAddsUp == \A b \in bill : (LastCanTake(b) => Consistent(b)) /\ FeeIsShared(b)

\* A code and a campaign never reduce the same ticket: whoever pays with a code
\* pays the list price, less the concession, although lines keep the price of the
\* moment they were added and campaigns come and go.
OneReduction ==
    \A b \in bill : b.byCode =>
        \A i \in DOMAIN lines :
            lines[i].unit = IF lines[i].access THEN Off(ListPrice[lines[i].category], Concession)
                            ELSE ListPrice[lines[i].category]
=============================================================================
