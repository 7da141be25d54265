---------------------------- MODULE PaymentsProps ----------------------------
(* What module Payments must guarantee. *)
EXTENDS Payments

\* Every variable keeps its type.
TypeOK ==
    /\ intent \in Intent
    /\ event \in [Events -> EventType \cup {"none"}]
    /\ acked \subseteq Events
    /\ inbox \in [Events -> InboxStatus]
    /\ order \in Order
    /\ heal \in JobStatus
    /\ task \in [Workers -> Task]

-----------------------------------------------------------------------------
(* With every environment behaviour. *)

\* Tickets are valid only if the provider has collected the money, whatever
\* order the events arrive in and whoever of webhook, reconciliation and job
\* fulfils the order.
TicketsNeedMoney == order.tickets = "active" => intent.state = "succeeded"

\* Tickets are minted once: redeliveries, the job and a second `succeeded`
\* after a refund never mint them again or revive cancelled ones.
IssuedOnce ==
    [][/\ order.tickets # "none" => order'.tickets # "none"
       /\ order.tickets = "cancelled" => order'.tickets = "cancelled"]_vars

-----------------------------------------------------------------------------
(* Without overlap, crashes and early refunds. *)

\* What has become of the buyer's money.
Money == IF intent.state # "succeeded" THEN "due"
         ELSE IF intent.refunded \/ intent.disputed THEN "returned" ELSE "received"

\* The intent and the tickets, seen as the promise of module TicketPromise: the
\* handlers, however often they fail half-way and in whatever order events
\* come, issue only against money received and revoke only for money returned.
Promise == INSTANCE TicketPromise WITH money <- Money, tickets <- order.tickets

KeepsPromise == Promise!Spec

\* Who has paid gets tickets, however often the handlers fail on the way.
Served == Promise!Served

\* Once the refund has been processed no ticket of the order is valid, in
\* particular none that a later redelivery or the job brings back.
ReturnedIsVoid ==
    (\E e \in Events : event[e] = "refunded" /\ inbox[e] = "processed")
        => order.tickets # "active"
==============================================================================
