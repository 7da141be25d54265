---------------------------- MODULE Consignment ----------------------------
(***************************************************************************)
(* A block of tickets that the box office hands to an agency: printed      *)
(* tickets that the agency marks as sold, and a rest that the box office   *)
(* takes back.  Taking back is the voiding of every counter sale: it reads *)
(* the order twice, once to decide and once in its transaction, and only   *)
(* then locks the pools.  A scan at the door is one step; see Door.        *)
(***************************************************************************)
EXTENDS Naturals, FiniteSets

CONSTANTS
    Prints,          \* the tickets of the block
    Requests,        \* requests that may be under way
    ConsignAllow     \* faults that may happen

\* overlap: two requests void the same tickets, or all that the order has between them.
\* sold:    a ticket is sold or scanned while a request that takes it back is under way.
ConsignFaults == {"overlap", "sold"}

ASSUME ConsignmentAssumption == IsFiniteSet(Prints) /\ ConsignAllow \subseteq ConsignFaults

VARIABLES
    print,     \* the tickets
    block,     \* the order: allocated, delivered (deliveryStatus), closed (voidedAt)
    stock,     \* what its tickets count for in the pool's soldQuantity
    request,   \* requests under way
    slips      \* faults so far

consignVars == <<print, block, stock, request, slips>>

-----------------------------------------------------------------------------
Printed == [status: {"none", "active", "voided"}, sold: BOOLEAN, presence: {"away", "in", "out"}]

Active == {t \in Prints : print[t].status = "active"}
Unsold == {t \in Active : ~print[t].sold}

\* `of` are the tickets a request is about, `last` whether it will close the order.
Request == [op: {"mark", "rest", "void"}, at: {"chosen", "checked", "read"},
            of: SUBSET Prints, last: BOOLEAN]

NoRequest == [op |-> "none", at |-> "none", of |-> {}, last |-> FALSE]

Slips(fs) == fs \subseteq ConsignAllow /\ slips' = slips \cup fs

Voiding == {r \in Requests : request[r].at \in {"checked", "read"}}

\* Requests that take back unsold tickets, or void tickets of guests who are out.
TakingBack(t) == \E r \in Requests : request[r].op \in {"rest", "void"} /\ t \in request[r].of

-----------------------------------------------------------------------------
\* allocateBoxOfficeConsignment: a counter sale that mints at once.
Allocate(ts) ==
    /\ ~block.allocated /\ ts # {}
    /\ print' = [t \in Prints |->
                  IF t \in ts THEN [print[t] EXCEPT !.status = "active"] ELSE print[t]]
    /\ block' = [block EXCEPT !.allocated = TRUE]
    /\ stock' = stock + Cardinality(ts)
    /\ UNCHANGED <<request, slips>>

\* markBoxOfficePrinted and emailBoxOfficeTickets
Deliver ==
    /\ block.allocated /\ ~block.closed /\ ~block.delivered
    /\ block' = [block EXCEPT !.delivered = TRUE]
    /\ UNCHANGED <<print, stock, request, slips>>

Begin(r, q) ==
    /\ request[r] = NoRequest
    /\ request' = [request EXCEPT ![r] = q]
    /\ UNCHANGED <<print, block, stock>>

\* markConsignmentTicketsSold: reads which of the wanted tickets are active and unsold,
MarkRead(r, wanted) ==
    /\ ~block.closed /\ wanted \cap Unsold # {}
    /\ Begin(r, [op |-> "mark", at |-> "chosen", of |-> wanted \cap Unsold, last |-> FALSE])
    /\ UNCHANGED slips

\* and marks them, whatever they are by now.
MarkWrite(r) ==
    LET of == request[r].of IN
    /\ request[r].op = "mark"
    /\ Slips(IF \E t \in of : TakingBack(t) \/ t \notin Active THEN {"sold"} ELSE {})
    /\ print' = [t \in Prints |-> IF t \in of THEN [print[t] EXCEPT !.sold = TRUE] ELSE print[t]]
    /\ request' = [request EXCEPT ![r] = NoRequest]
    /\ UNCHANGED <<block, stock>>

\* Mutant: the rest is all that nobody has voided.
RestActive(r) ==
    /\ Active # {}
    /\ Begin(r, [op |-> "rest", at |-> "chosen", of |-> Active, last |-> FALSE])
    /\ UNCHANGED slips

\* cancelBoxOfficeConsignmentRemaining: the unsold tickets.
Rest(r) ==
    /\ Unsold # {}
    /\ Begin(r, [op |-> "rest", at |-> "chosen", of |-> Unsold, last |-> FALSE])
    /\ UNCHANGED slips

Void(r, ts) ==
    /\ block.allocated /\ ts # {}
    /\ Begin(r, [op |-> "void", at |-> "chosen", of |-> ts, last |-> FALSE])
    /\ UNCHANGED slips

\* voidBoxOfficeOrder: nothing may be voided, nobody inside; what has been delivered
\* is for an admin.
Refused(of, admin) ==
    \/ block.closed \/ (block.delivered /\ ~admin)
    \/ \E t \in of : print[t].status = "voided" \/ print[t].presence = "in"

\* Mutant: the order is closed with its last unsold ticket.
CheckUnsold(r, admin) ==
    LET q == request[r] IN
    /\ q.op \in {"rest", "void"} /\ q.at = "chosen"
    /\ IF Refused(q.of, admin)
       THEN request' = [request EXCEPT ![r] = NoRequest] /\ UNCHANGED slips
       ELSE /\ Slips(IF Voiding = {} THEN {} ELSE {"overlap"})
            /\ request' = [request EXCEPT ![r].at = "checked", ![r].last = Unsold \subseteq q.of]
    /\ UNCHANGED <<print, block, stock>>

Check(r, admin) ==
    LET q == request[r] IN
    /\ q.op \in {"rest", "void"} /\ q.at = "chosen"
    /\ IF Refused(q.of, admin)
       THEN request' = [request EXCEPT ![r] = NoRequest] /\ UNCHANGED slips
       ELSE /\ Slips(IF Voiding = {} THEN {} ELSE {"overlap"})
            /\ request' = [request EXCEPT ![r].at = "checked", ![r].last = Active \subseteq q.of]
    /\ UNCHANGED <<print, block, stock>>

\* cancelTicketsAndRestoreInventory reads which tickets are not voided yet,
TicketsRead(r) ==
    /\ request[r].at = "checked"
    /\ request' = [request EXCEPT ![r].at = "read", ![r].of = @ \cap Active]
    /\ UNCHANGED <<print, block, stock, slips>>

\* then locks the pools, takes their number off, voids the tickets, and the order.
VoidCommit(r) ==
    LET q == request[r]
        n == Cardinality(q.of) IN
    /\ q.at = "read"
    /\ stock' = IF n <= stock THEN stock - n ELSE 0
    /\ print' = [t \in Prints |->
                  IF t \in q.of THEN [print[t] EXCEPT !.status = "voided"] ELSE print[t]]
    /\ block' = [block EXCEPT !.closed = @ \/ q.last]
    /\ request' = [request EXCEPT ![r] = NoRequest]
    /\ UNCHANGED slips

\* The door lets an active ticket in, sold or not, and out again.
Scan(t, to) ==
    /\ print[t].status = "active"
    /\ to = (IF print[t].presence = "in" THEN "out" ELSE "in")
    /\ Slips(IF to = "in" /\ TakingBack(t) THEN {"sold"} ELSE {})
    /\ print' = [print EXCEPT ![t].presence = to]
    /\ UNCHANGED <<block, stock, request>>

ConsignInit ==
    /\ print = [t \in Prints |-> [status |-> "none", sold |-> FALSE, presence |-> "away"]]
    /\ block = [allocated |-> FALSE, delivered |-> FALSE, closed |-> FALSE]
    /\ stock = 0 /\ request = [r \in Requests |-> NoRequest] /\ slips = {}

ConsignNext ==
    \/ \E ts \in SUBSET Prints : Allocate(ts)
    \/ Deliver
    \/ \E r \in Requests, ts \in SUBSET Prints : MarkRead(r, ts)
    \/ \E r \in Requests, ts \in SUBSET {t \in Prints : print[t].status # "none"} : Void(r, ts)
    \/ \E r \in Requests, admin \in BOOLEAN : Check(r, admin)
    \/ \E r \in Requests : MarkWrite(r) \/ Rest(r) \/ TicketsRead(r) \/ VoidCommit(r)
    \/ \E t \in Prints, to \in {"in", "out"} : Scan(t, to)

ConsignSpec == ConsignInit /\ [][ConsignNext]_consignVars

-----------------------------------------------------------------------------
(* Properties *)

\* While no two requests void at once, the block counts in the pool for exactly its
\* active tickets, and the order is closed with its last ticket; a closed order never
\* has an active ticket, whatever overlaps.
StockIsOut ==
    /\ block.closed => Active = {}
    /\ "overlap" \notin slips => /\ stock = Cardinality(Active)
                                 /\ block.closed = (block.allocated /\ Active = {})

Lost(t) == print[t].status = "voided" /\ (print[t].sold \/ print[t].presence = "in")

\* Nobody who is inside loses the ticket, and nobody who bought one from the agency
\* loses it to the settling of the rest, unless it was sold or scanned while the box
\* office was at it: only a request that asks for the ticket voids a sold one.
BuyersKeepTickets ==
    [][\A t \in Prints :
          ~Lost(t) /\ Lost(t)' =>
             \/ "sold" \in slips'
             \/ /\ print'[t].presence # "in"
                /\ \E r \in Requests : request[r].op = "void" /\ t \in request[r].of]_consignVars
=============================================================================
