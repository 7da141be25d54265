-------------------------------- MODULE Door --------------------------------
(***************************************************************************)
(* One ticket from the mint to the door: the codes that open it, who has   *)
(* seen them, the forwarding to another holder, the cancellation, and the  *)
(* scanner devices with their retries.                                     *)
(*                                                                         *)
(* A clerk is a request at the server: a forward, a download, a            *)
(* cancellation.  A scan has requests of its own, which a device that has  *)
(* given up on them leaves running.                                        *)
(***************************************************************************)
EXTENDS Integers, FiniteSets

CONSTANTS
    People,      \* customers
    Buyer,       \* the customer of the order
    Staff,       \* whoever acts with a staff permission
    Clerks,
    Devices,
    MaxAttempts, \* SCAN_NETWORK_RETRIES + 1
    MaxCodes,    \* bound on the codes issued
    Limit,       \* forwards of a ticket within 24 hours
    Allow        \* faults that may happen

\* overlap:  two clerks work on the ticket at the same time.
\* crash:    a clerk or a scan stops between two of its steps.
\* timeout:  a device gives up on a request that is still running.
\* orderPdf: the buyer downloads the combined PDF of an order with a ticket that
\*           has been forwarded.
\* refresh:  a wallet pass is refreshed on the device of a former holder.
Faults == {"overlap", "crash", "timeout", "orderPdf", "refresh"}

ASSUME ConstantsAssumption ==
    /\ Buyer \in People /\ Staff \notin People /\ IsFiniteSet(Clerks)
    /\ MaxAttempts \in Nat \ {0} /\ MaxCodes \in Nat \ {0} /\ Limit \in Nat
    /\ Allow \subseteq Faults

VARIABLES
    ticket,  \* tickets: status, presence, holderCustomerId
    code,    \* ticket_qr_tokens, in the order of their creation
    hands,   \* the codes each person has seen on a page, a PDF, a pass or a mail
    passes,  \* people with the ticket's Apple pass in their wallet
    recent,  \* forwards logged within the last 24 hours
    open,    \* the check-in gate
    inside,  \* guests let in minus guests let out
    clerk,   \* what each clerk is doing
    device,  \* each scanner device
    request, \* the scan requests at the server
    faults   \* faults that have happened

vars == <<ticket, code, hands, passes, recent, open, inside, clerk, device, request, faults>>

-----------------------------------------------------------------------------
Codes == 1..MaxCodes
Attempts == 1..MaxAttempts

Ticket == [status: {"active", "cancelled", "voided"},
           presence: {"not_arrived", "in", "out"},
           holder: People]

Active == {c \in Codes : code[c] = "active"}
Unused == {c \in Codes : code[c] = "unused"}

Doing == {"idle", "count", "holder", "snapshot", "rotate", "log", "mail", "render", "void",
          "wallet"}

\* sees: the active codes that the rotation's first statement has found.
Clerk == [step: Doing, actor: People \cup {Staff}, to: People, pass: BOOLEAN,
          sees: SUBSET Codes]

Idle == [step |-> "idle", actor |-> Staff, to |-> Buyer, pass |-> FALSE, sees |-> {}]

At(k, s) == clerk[k].step = s
Become(k, t) == clerk' = [clerk EXCEPT ![k] = t]
Goto(k, s) == Become(k, [clerk[k] EXCEPT !.step = s])

Busy == {k \in Clerks : clerk[k] # Idle}

\* A clerk may begin.
Begin(k) ==
    /\ clerk[k] = Idle
    /\ \/ Busy = {} /\ UNCHANGED faults
       \/ Busy # {} /\ "overlap" \in Allow /\ faults' = faults \cup {"overlap"}

Show(p, cs) == hands' = [hands EXCEPT ![p] = @ \cup cs]

Holds(p) == ticket.holder = p
Transferred == ~Holds(Buyer)

scanning == <<device, request, open, inside>>

-----------------------------------------------------------------------------
(* forwardTicket and rotateTicketQrToken. *)

\* Holder and staff choose the recipient; the buyer of a forwarded ticket may only
\* send it to its holder again.
MayForward(actor, to) ==
    \/ actor = Staff \/ Holds(actor)
    \/ actor = Buyer /\ Holds(to)

\* MaxCodes bounds the forwards.
Forward(k, actor, to) ==
    /\ Begin(k)
    /\ ticket.status = "active" /\ MayForward(actor, to)
    /\ Cardinality(Unused) > Cardinality(Busy)
    /\ Become(k, [Idle EXCEPT !.step = "count", !.actor = actor, !.to = to])
    /\ UNCHANGED <<ticket, code, hands, passes, recent, scanning>>

CountForwards(k) ==
    /\ At(k, "count")
    /\ IF recent >= Limit THEN Become(k, Idle) ELSE Goto(k, "holder")
    /\ UNCHANGED <<ticket, code, hands, passes, recent, faults, scanning>>

NewHolder(k) == clerk[k].to

\* The status is not asked for again.
ChangeHolder(k) ==
    /\ At(k, "holder")
    /\ ticket' = [ticket EXCEPT !.holder = NewHolder(k)]
    /\ Become(k, [clerk[k] EXCEPT !.step = "snapshot", !.actor = Staff])
    /\ UNCHANGED <<code, hands, passes, recent, faults, scanning>>

\* Two statements of one transaction: the first sees the codes committed so far.
Snapshot(k) ==
    /\ At(k, "snapshot")
    /\ Become(k, [clerk[k] EXCEPT !.step = "rotate", !.sees = Active])
    /\ UNCHANGED <<ticket, code, hands, passes, recent, faults, scanning>>

Newest(c, cs) == c \in cs /\ \A d \in cs : d <= c
Oldest(c, cs) == c \in cs /\ \A d \in cs : c <= d

\* Mutant: the new code is created first and revoked with the others.
IssuedFirst(sees, new) ==
    [c \in Codes |-> IF c \in sees \/ c = new THEN "revoked" ELSE code[c]]

Rotated(sees, new) ==
    [c \in Codes |-> IF c = new THEN "active" ELSE IF c \in sees THEN "revoked" ELSE code[c]]

Rotate(k) ==
    /\ At(k, "rotate")
    /\ \E new \in Codes : Oldest(new, Unused) /\ code' = Rotated(clerk[k].sees, new)
    /\ Become(k, [clerk[k] EXCEPT !.step = "log", !.sees = {}])
    /\ UNCHANGED <<ticket, hands, passes, recent, faults, scanning>>

LogForward(k) ==
    /\ At(k, "log")
    /\ recent' = IF recent < Limit THEN recent + 1 ELSE recent
    /\ Goto(k, "mail")
    /\ UNCHANGED <<ticket, code, hands, passes, faults, scanning>>

\* The PDF shows one of the codes active when it is rendered; without one, or when
\* the mail fails, nobody learns anything.
MailForward(k) ==
    /\ At(k, "mail")
    /\ \/ UNCHANGED hands
       \/ \E c \in Active : Show(clerk[k].to, {c})
    /\ Become(k, Idle)
    /\ UNCHANGED <<ticket, code, passes, recent, faults, scanning>>

ForwardAges ==
    /\ recent > 0
    /\ recent' = recent - 1
    /\ UNCHANGED <<ticket, code, hands, passes, clerk, faults, scanning>>

-----------------------------------------------------------------------------
(* Pages, PDFs and passes: who may see the code is asked first, the code is *)
(* read afterwards.                                                         *)

\* Mutant: the buyer keeps entry media after the transfer.
PartyMay(p) == Holds(p) \/ p = Buyer

\* The holder; the buyer's access link opens the ticket until it is forwarded.
MayEnterWith(p) == Holds(p)

OpenEntry(k, p, pass) ==
    /\ Begin(k)
    /\ MayEnterWith(p)
    /\ pass => ticket.status = "active"
    /\ Become(k, [Idle EXCEPT !.step = "render", !.to = p, !.pass = pass])
    /\ UNCHANGED <<ticket, code, hands, passes, recent, scanning>>

Render(k) ==
    /\ At(k, "render")
    /\ \/ Active = {} /\ UNCHANGED <<hands, passes>>
       \/ \E c \in Active :
            /\ clerk[k].pass => Newest(c, Active)
            /\ Show(clerk[k].to, {c})
            /\ passes' = IF clerk[k].pass THEN passes \cup {clerk[k].to} ELSE passes
    /\ Become(k, Idle)
    /\ UNCHANGED <<ticket, code, recent, faults, scanning>>

\* The combined PDF of the order asks only who bought it.
OrderPdf ==
    /\ Transferred => "orderPdf" \in Allow
    /\ faults' = IF Transferred THEN faults \cup {"orderPdf"} ELSE faults
    /\ \E c \in Active : Show(Buyer, {c})
    /\ UNCHANGED <<ticket, code, passes, recent, clerk, scanning>>

\* The rotation's new update tag makes every registered device fetch the pass.
RefreshPass(p) ==
    /\ p \in passes
    /\ ~Holds(p) => "refresh" \in Allow
    /\ faults' = IF Holds(p) THEN faults ELSE faults \cup {"refresh"}
    /\ \E c \in Codes : Newest(c, Active) /\ Show(p, {c})
    /\ UNCHANGED <<ticket, code, passes, recent, clerk, scanning>>

-----------------------------------------------------------------------------
(* Cancellation: a refund or a dispute cancels, the box office voids. *)

Revoked == [c \in Codes |-> IF c \in Active THEN "revoked" ELSE code[c]]

Cancel(k) ==
    /\ Begin(k)
    /\ ticket.status = "active"
    /\ ticket' = [ticket EXCEPT !.status = "cancelled"]
    /\ code' = Revoked
    /\ Goto(k, "wallet")
    /\ UNCHANGED <<hands, passes, recent, scanning>>

\* A second revocation after the commit; if it fails, so be it.
RevokeAgain(k) ==
    /\ At(k, "wallet")
    /\ code' \in {Revoked, code}
    /\ Become(k, Idle)
    /\ UNCHANGED <<ticket, hands, passes, recent, faults, scanning>>

OpenVoid(k) ==
    /\ Begin(k)
    /\ ticket.status # "voided" /\ ticket.presence # "in"
    /\ Goto(k, "void")
    /\ UNCHANGED <<ticket, code, hands, passes, recent, scanning>>

\* Presence is not asked for again.
Void(k) ==
    /\ At(k, "void")
    /\ ticket' = [ticket EXCEPT !.status = "voided"]
    /\ code' = IF ticket.status = "voided" THEN code ELSE Revoked
    /\ Become(k, Idle)
    /\ UNCHANGED <<hands, passes, recent, faults, scanning>>

Crash(k) ==
    /\ "crash" \in Allow /\ clerk[k] # Idle
    /\ Become(k, Idle)
    /\ faults' = faults \cup {"crash"}
    /\ UNCHANGED <<ticket, code, hands, passes, recent, scanning>>

-----------------------------------------------------------------------------
(* The scanner: runScan on a device, scanTicket at the server. *)

Device == [step: {"ready", "waiting", "result"}, action: {"in", "out"}, code: Codes,
           attempt: Attempts,
           screen: {"none", "VALID", "ALREADY", "INVALID", "TECHNICAL_ERROR"}]

Request == [step: {"none", "sent", "flip", "answered"}, action: {"in", "out"}, code: Codes,
            seen: {"not_arrived", "in", "out"},
            answer: {"none", "VALID", "ALREADY", "INVALID"}]

NoRequest == [step |-> "none", action |-> "in", code |-> 1, seen |-> "not_arrived",
              answer |-> "none"]

Blank == [step |-> "ready", action |-> "in", code |-> 1, attempt |-> 1,
          screen |-> "none"]

keeping == <<code, hands, passes, recent, clerk>>

Send(d, n, action, c) ==
    /\ request[d][n].step = "none"
    /\ request' = [request EXCEPT ![d][n] =
                     [NoRequest EXCEPT !.step = "sent", !.action = action, !.code = c]]

\* A guest shows any code somebody has had in hand; one scan at a time.
Scan(d, action, c) ==
    /\ device[d].step = "ready"
    /\ \E p \in People : c \in hands[p]
    /\ Send(d, 1, action, c)
    /\ device' = [device EXCEPT ![d] =
                    [Blank EXCEPT !.step = "waiting", !.action = action, !.code = c]]
    /\ UNCHANGED <<ticket, open, inside, faults, keeping>>

Answer(d, n, answer) ==
    request' = [request EXCEPT ![d][n] =
                  [NoRequest EXCEPT !.step = "answered", !.answer = answer]]

PresenceAfter(action) == IF action = "in" THEN "in" ELSE "out"

\* Mutant: the code alone decides, whatever the ticket's status.
AnyStatus(c) == code[c] = "active"

Valid(c) == code[c] = "active" /\ ticket.status = "active"

ReadTicket(d, n) ==
    LET r == request[d][n]
        next == PresenceAfter(r.action)
    IN  /\ r.step = "sent"
        /\ \/ /\ ~Valid(r.code) \/ ~open \/ (next = "out" /\ ticket.presence = "not_arrived")
              /\ Answer(d, n, "INVALID")
           \/ /\ Valid(r.code) /\ open /\ ticket.presence = next
              /\ Answer(d, n, "ALREADY")
           \/ /\ Valid(r.code) /\ open /\ ticket.presence # next
              /\ ~(next = "out" /\ ticket.presence = "not_arrived")
              /\ request' = [request EXCEPT ![d][n] =
                               [r EXCEPT !.step = "flip", !.code = 1, !.seen = ticket.presence]]
        /\ UNCHANGED <<ticket, device, open, inside, faults, keeping>>

\* Mutant: the update does not ask for the presence that was read.
AnyPresence(seen) == TRUE

Unmoved(seen) == ticket.presence = seen

\* The status is not part of the condition.
Flip(d, n) ==
    LET r == request[d][n]
    IN  /\ r.step = "flip"
        /\ \/ /\ Unmoved(r.seen)
              /\ ticket' = [ticket EXCEPT !.presence = PresenceAfter(r.action)]
              /\ inside' = IF r.action = "in" THEN inside + 1 ELSE inside - 1
              /\ Answer(d, n, "VALID")
           \/ /\ ~Unmoved(r.seen)
              /\ Answer(d, n, "ALREADY")
              /\ UNCHANGED <<ticket, inside>>
        /\ UNCHANGED <<open, device, faults, keeping>>

Screen(d, s) ==
    device' = [device EXCEPT ![d] = [Blank EXCEPT !.step = "result", !.screen = s]]

\* The answer of the attempt the device waits for.
Receive(d) ==
    LET n == device[d].attempt
    IN  /\ device[d].step = "waiting" /\ request[d][n].step = "answered"
        /\ Screen(d, request[d][n].answer)
        /\ request' = [request EXCEPT ![d][n] = NoRequest]
        /\ UNCHANGED <<ticket, open, inside, faults, keeping>>

\* The answer of an attempt given up goes nowhere.
Discard(d, n) ==
    /\ request[d][n].step = "answered"
    /\ device[d].step = "waiting" => device[d].attempt # n
    /\ request' = [request EXCEPT ![d][n] = NoRequest]
    /\ UNCHANGED <<ticket, device, open, inside, faults, keeping>>

\* Eight seconds without an answer, or a technical error: once more, then orange.
TimesOut(d) ==
    LET n == device[d].attempt
    IN  /\ "timeout" \in Allow /\ device[d].step = "waiting"
        /\ \/ /\ n < MaxAttempts
              /\ Send(d, n + 1, device[d].action, device[d].code)
              /\ device' = [device EXCEPT ![d].attempt = n + 1]
           \/ n = MaxAttempts /\ Screen(d, "TECHNICAL_ERROR") /\ UNCHANGED request
        /\ faults' = faults \cup {"timeout"}
        /\ UNCHANGED <<ticket, open, inside, keeping>>

Dismiss(d) ==
    /\ device[d].step = "result"
    /\ device' = [device EXCEPT ![d] = Blank]
    /\ UNCHANGED <<ticket, request, open, inside, faults, keeping>>

\* A scan that dies at the server has not committed anything.
Dies(d, n) ==
    /\ "timeout" \in Allow /\ request[d][n].step \in {"sent", "flip"}
    /\ request' = [request EXCEPT ![d][n] = NoRequest]
    /\ faults' = faults \cup {"timeout"}
    /\ UNCHANGED <<ticket, device, open, inside, keeping>>

\* Doors open; staff may end the sale early and reopen it, or move the time.
MoveGate ==
    /\ open' = ~open
    /\ UNCHANGED <<ticket, device, request, inside, faults, keeping>>

-----------------------------------------------------------------------------
Init ==
    /\ ticket = [status |-> "active", presence |-> "not_arrived", holder |-> Buyer]
    /\ code = [c \in Codes |-> IF c = 1 THEN "active" ELSE "unused"]
    /\ hands = [p \in People |-> {}]
    /\ passes = {} /\ recent = 0 /\ open = FALSE /\ inside = 0
    /\ clerk = [k \in Clerks |-> Idle]
    /\ device = [d \in Devices |-> Blank]
    /\ request = [d \in Devices |-> [n \in Attempts |-> NoRequest]]
    /\ faults = {}

Serve(d, n) == ReadTicket(d, n) \/ Flip(d, n)

Clerking(k) ==
    \/ \E actor \in People \cup {Staff}, to \in People : Forward(k, actor, to)
    \/ CountForwards(k) \/ ChangeHolder(k) \/ Snapshot(k) \/ Rotate(k) \/ LogForward(k)
    \/ MailForward(k)
    \/ \E p \in People, pass \in BOOLEAN : OpenEntry(k, p, pass)
    \/ Render(k)
    \/ Cancel(k) \/ RevokeAgain(k) \/ OpenVoid(k) \/ Void(k)
    \/ Crash(k)

Scanning(d) ==
    \/ \E action \in {"in", "out"}, c \in Codes : Scan(d, action, c)
    \/ \E n \in Attempts : Serve(d, n) \/ Discard(d, n) \/ Dies(d, n)
    \/ Receive(d) \/ TimesOut(d) \/ Dismiss(d)

Next ==
    \/ \E k \in Clerks : Clerking(k)
    \/ \E d \in Devices : Scanning(d)
    \/ OrderPdf \/ ForwardAges \/ MoveGate
    \/ \E p \in People : RefreshPass(p)

Spec == Init /\ [][Next]_vars

\* A scan that has reached the server is carried on.
Fairness == \A d \in Devices, n \in Attempts : WF_vars(Serve(d, n))

FairSpec == Spec /\ Fairness
=============================================================================
