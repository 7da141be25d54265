------------------------------ MODULE MCOffice ------------------------------
(* Four small machines side by side, one of them at work in a behaviour, and *)
(* the two instances of Pricing: campaigns with few tickets, or many lines   *)
(* without campaigns.                                                        *)
EXTENDS Promotions, TapSale, Pricing, SeatChoice, TLC

VARIABLE part

Fixed(cents) == [type |-> "fixed", value |-> cents]
Percent(bps) == [type |-> "percent", value |-> bps]

MCListPrice == [adult |-> 1000, child |-> 333, chair |-> 5]
MCTaxRate == [adult |-> 700, child |-> 1900, chair |-> 0]
MCCampaigns ==
    {[by |-> Fixed(200), mode |-> "unit", min |-> 1, categories |-> {}],
     [by |-> Percent(3000), mode |-> "unit", min |-> 1, categories |-> {"adult", "child"}],
     [by |-> Percent(1000), mode |-> "order", min |-> 2, categories |-> {"adult"}]}
MCCodes == {[by |-> Fixed(50), min |-> 1000], [by |-> Percent(10000), min |-> 0]}
MCConcession == Percent(10000)
MCFeePlans == [bps: {400}, before: BOOLEAN, rate: {-1}]

MCRowOf == [left |-> 0, right |-> 1]
MCFirstIndex == [left |-> 8, right |-> 9]
MCSeatCount == [left |-> 5, right |-> 4]

Machines == {"promotions", "tap", "campaigns", "lines", "seats"}

MCInit == PromoInit /\ TapInit /\ PriceInit /\ ChoiceInit /\ part \in Machines

Prices ==
    /\ PriceNext
    /\ \/ part = "campaigns" /\ Total([i \in DOMAIN lines' |-> lines'[i].quantity]) <= 3
       \/ part = "lines" /\ running' = {}

MCNext ==
    /\ UNCHANGED part
    /\ \/ part = "promotions" /\ PromoNext /\ UNCHANGED <<tapVars, priceVars, choiceVars>>
       \/ part = "tap" /\ TapNext /\ UNCHANGED <<promoVars, priceVars, choiceVars>>
       \/ Prices /\ UNCHANGED <<promoVars, tapVars, choiceVars>>
       \/ part = "seats" /\ ChoiceNext /\ UNCHANGED <<promoVars, tapVars, priceVars>>

MCSpec == MCInit /\ [][MCNext]_<<part, promoVars, tapVars, priceVars, choiceVars>>

Symmetric == Permutations(Orders) \cup Permutations(Releasers) \cup Permutations(Sales)
=============================================================================
