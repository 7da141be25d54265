------------------------------- MODULE MCLive -------------------------------
(***************************************************************************)
(* What has to end, in three machines of which one is at work in a         *)
(* behaviour: seats that are held, card payments of the cash desk, and     *)
(* payouts to reconcile.                                                   *)
(***************************************************************************)
EXTENDS SeatsProps, Integers

CONSTANTS TapSales, NoSale, TapAllow,
          Entries, Importers, KindOf, NetOf, DocumentTypes, PayoutAllow

VARIABLES form, tapSale, intent, events, cancel, phone, amiss,
          remote, notices, payout, entry, import, notary, papers, told, lapses,
          part

Tap == INSTANCE TapSale WITH Sales <- TapSales, sale <- tapSale
Books == INSTANCE Payout

MCKindOf == [charge |-> "payment", fee |-> "fee"]
MCNetOf == [charge |-> 100, fee |-> -3]

taps == <<form, tapSale, intent, events, cancel, phone, amiss>>
payouts == <<remote, notices, payout, entry, import, notary, papers, told, lapses>>

MCInit ==
    /\ Init /\ Tap!TapInit /\ Books!PayoutInit
    /\ part \in {"seats", "tap", "payout"}

MCNext ==
    /\ UNCHANGED part
    /\ \/ part = "seats" /\ Next /\ UNCHANGED <<taps, payouts>>
       \/ part = "tap" /\ Tap!TapNext /\ UNCHANGED <<vars, payouts>>
       \/ part = "payout" /\ Books!PayoutNext /\ UNCHANGED <<vars, taps>>

MCSpec ==
    /\ MCInit /\ [][MCNext]_<<part, vars, taps, payouts>>
    /\ Fairness /\ Tap!TapFair /\ Books!PayoutFair

\* Whatever happens, a guest who has paid gets tickets: a cancellation that takes
\* the payment row away only delays it until Stripe delivers again.
PaidIsMinted == Tap!PaidIsMinted

\* A payout that Stripe has paid and listed is reconciled in the end.
PayoutSettles == Books!PayoutSettles
=============================================================================
