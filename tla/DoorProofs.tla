----------------------------- MODULE DoorProofs -----------------------------
(***************************************************************************)
(* What holds of every ticket at every door, for all people, clerks,       *)
(* devices, retries and codes: the presence counts the guest, a valid      *)
(* ticket has a code, without a fault nobody but the holder has one, and   *)
(* a cancelled ticket lets no further scan through.                        *)
(*                                                                         *)
(* Four invariants, each proved with the help of those before it: the      *)
(* types; the scans under way; the cancelled ticket behind a revocation;   *)
(* the one clerk at work and what its step promises.                       *)
(***************************************************************************)
EXTENDS DoorProps, TLAPS

-----------------------------------------------------------------------------
(* Lemmas about the operators. *)

\* A clerk that goes to another step keeps the rest.
LEMMA GotoType ==
  ASSUME TypeOK, NEW k \in Clerks, NEW s \in Doing
  PROVE  LET t == [clerk[k] EXCEPT !.step = s]
         IN  /\ t \in Clerk /\ t.step = s
             /\ t.to = clerk[k].to /\ t.sees = clerk[k].sees
<1>1. clerk[k] \in Clerk
  BY DEF TypeOK
<1> QED
  BY <1>1, Zenon DEF Clerk

LEMMA IdleType ==
  /\ Idle \in Clerk /\ Idle.step = "idle" /\ Idle.sees = {} /\ Idle.to = Buyer
  /\ "idle" \in Doing
  BY ConstantsAssumption DEF Idle, Clerk, Doing

LEMMA BecomeType ==
  ASSUME TypeOK, NEW k \in Clerks, NEW t \in Clerk, Become(k, t)
  PROVE  clerk' \in [Clerks -> Clerk]
  BY DEF TypeOK, Become

LEMMA BeginType ==
  ASSUME TypeOK, NEW k \in Clerks, Begin(k)
  PROVE  faults' \subseteq Allow
  BY DEF TypeOK, Begin

LEMMA ShowType ==
  ASSUME TypeOK, NEW p \in People, NEW cs \in SUBSET Codes, Show(p, cs)
  PROVE  /\ hands' \in [People -> SUBSET Codes]
         /\ \A q \in People : hands'[q] = IF q = p THEN hands[q] \cup cs ELSE hands[q]
  BY DEF TypeOK, Show

\* One active code is shown to somebody.
LEMMA ShowActive ==
  ASSUME TypeOK, NEW p \in People, NEW c \in Active, Show(p, {c})
  PROVE  /\ hands' \in [People -> SUBSET Codes]
         /\ \A q \in People : hands'[q] = IF q = p THEN hands[q] \cup {c} ELSE hands[q]
  BY ShowType DEF Active

\* A clerk that goes to another step is of its type, and so is an idle one.
LEMMA Moves ==
  ASSUME TypeOK, NEW k \in Clerks
  PROVE  /\ \A s \in Doing : Goto(k, s) => clerk' \in [Clerks -> Clerk]
         /\ Become(k, Idle) => clerk' \in [Clerks -> Clerk]
<1>1. ASSUME NEW s \in Doing, Goto(k, s)
      PROVE  clerk' \in [Clerks -> Clerk]
  BY <1>1, GotoType, BecomeType DEF Goto
<1>2. ASSUME Become(k, Idle)
      PROVE  clerk' \in [Clerks -> Clerk]
  BY <1>2, IdleType, BecomeType
<1> QED
  BY <1>1, <1>2

-----------------------------------------------------------------------------
(* The types: one lemma for the forward, one for what else a clerk does,    *)
(* one for the scanner.                                                     *)

LEMMA ForwardTyped ==
  ASSUME TypeOK, NEW k \in Clerks,
         \/ \E actor \in People \cup {Staff}, to \in People : Forward(k, actor, to)
         \/ CountForwards(k) \/ ChangeHolder(k) \/ Snapshot(k) \/ Rotate(k) \/ LogForward(k)
         \/ MailForward(k)
  PROVE  TypeOK'
<1> USE DEF TypeOK
<1>1. clerk[k] \in Clerk /\ clerk[k].to \in People
  BY DEF Clerk
<1>2. ASSUME NEW actor \in People \cup {Staff}, NEW to \in People, Forward(k, actor, to)
      PROVE  TypeOK'
  <2>1. [Idle EXCEPT !.step = "count", !.actor = actor, !.to = to] \in Clerk
    BY IdleType, Zenon DEF Clerk, Doing
  <2> QED
    BY <1>2, <2>1, BecomeType, BeginType DEF Forward, scanning
<1>3. ASSUME CountForwards(k)
      PROVE  TypeOK'
  BY <1>3, Moves DEF CountForwards, scanning, Doing
<1>4. ASSUME ChangeHolder(k)
      PROVE  TypeOK'
  <2>1. [clerk[k] EXCEPT !.step = "snapshot", !.actor = Staff] \in Clerk
    BY <1>1, Zenon DEF Clerk, Doing
  <2>2. [ticket EXCEPT !.holder = clerk[k].to] \in Ticket
    BY <1>1, Zenon DEF Ticket
  <2> QED
    BY <1>4, <2>1, <2>2, BecomeType DEF ChangeHolder, NewHolder, scanning
<1>5. ASSUME Snapshot(k)
      PROVE  TypeOK'
  <2>1. Active \in SUBSET Codes
    BY DEF Active
  <2>2. [clerk[k] EXCEPT !.step = "rotate", !.sees = Active] \in Clerk
    BY <1>1, <2>1, Zenon DEF Clerk, Doing
  <2> QED
    BY <1>5, <2>2, BecomeType DEF Snapshot, scanning
<1>6. ASSUME Rotate(k)
      PROVE  TypeOK'
  <2>1. {} \in SUBSET Codes
    OBVIOUS
  <2>2. [clerk[k] EXCEPT !.step = "log", !.sees = {}] \in Clerk
    BY <1>1, <2>1, Zenon DEF Clerk, Doing
  <2>3. code' \in [Codes -> {"unused", "active", "revoked"}]
    BY <1>6 DEF Rotate, Rotated
  <2> QED
    BY <1>6, <2>2, <2>3, BecomeType DEF Rotate, scanning
<1>7. ASSUME LogForward(k)
      PROVE  TypeOK'
  <2>1. recent' \in 0..Limit
    BY <1>7, ConstantsAssumption DEF LogForward
  <2> QED
    BY <1>7, <2>1, Moves DEF LogForward, scanning, Doing
<1>8. ASSUME MailForward(k)
      PROVE  TypeOK'
  <2>1. ASSUME NEW c \in Active, Show(clerk[k].to, {c})
        PROVE  hands' \in [People -> SUBSET Codes]
    BY <1>1, <2>1, ShowActive
  <2> QED
    BY <1>8, <2>1, Moves DEF MailForward, scanning
<1> QED
  BY <1>2, <1>3, <1>4, <1>5, <1>6, <1>7, <1>8

LEMMA OfficeTyped ==
  ASSUME TypeOK, NEW k \in Clerks,
         \/ \E p \in People, pass \in BOOLEAN : OpenEntry(k, p, pass)
         \/ Render(k)
         \/ Cancel(k) \/ RevokeAgain(k) \/ OpenVoid(k) \/ Void(k)
         \/ Crash(k)
  PROVE  TypeOK'
<1> USE DEF TypeOK
<1>1. clerk[k] \in Clerk /\ clerk[k].to \in People
  BY DEF Clerk
<1>2. Revoked \in [Codes -> {"unused", "active", "revoked"}]
  BY DEF Revoked
<1>3. ASSUME NEW p \in People, NEW pass \in BOOLEAN, OpenEntry(k, p, pass)
      PROVE  TypeOK'
  <2>1. [Idle EXCEPT !.step = "render", !.to = p, !.pass = pass] \in Clerk
    BY IdleType, Zenon DEF Clerk, Doing
  <2> QED
    BY <1>3, <2>1, BecomeType, BeginType DEF OpenEntry, scanning
<1>4. ASSUME Render(k)
      PROVE  TypeOK'
  <2>1. ASSUME NEW c \in Active, Show(clerk[k].to, {c})
        PROVE  hands' \in [People -> SUBSET Codes]
    BY <1>1, <2>1, ShowActive
  <2>2. hands' \in [People -> SUBSET Codes]
    BY <1>4, <2>1 DEF Render
  <2>3. passes' \subseteq People
    BY <1>1, <1>4 DEF Render
  <2> QED
    BY <1>4, <2>2, <2>3, Moves DEF Render, scanning
<1>5. ASSUME Cancel(k)
      PROVE  TypeOK'
  <2>1. [ticket EXCEPT !.status = "cancelled"] \in Ticket
    BY Zenon DEF Ticket
  <2> QED
    BY <1>2, <1>5, <2>1, Moves, BeginType DEF Cancel, scanning, Doing
<1>6. ASSUME RevokeAgain(k)
      PROVE  TypeOK'
  BY <1>2, <1>6, Moves DEF RevokeAgain, scanning
<1>7. ASSUME OpenVoid(k)
      PROVE  TypeOK'
  BY <1>7, Moves, BeginType DEF OpenVoid, scanning, Doing
<1>8. ASSUME Void(k)
      PROVE  TypeOK'
  <2>1. [ticket EXCEPT !.status = "voided"] \in Ticket
    BY Zenon DEF Ticket
  <2> QED
    BY <1>2, <1>8, <2>1, Moves DEF Void, scanning
<1>9. ASSUME Crash(k)
      PROVE  TypeOK'
  BY <1>9, Moves DEF Crash, scanning
<1> QED
  BY <1>3, <1>4, <1>5, <1>6, <1>7, <1>8, <1>9

\* Requests and devices that the scanner writes.
LEMMA ScanRecords ==
  /\ NoRequest \in Request /\ Blank \in Device
  /\ NoRequest.step = "none" /\ NoRequest.action = "in"
  /\ \A action \in {"in", "out"}, c \in Codes :
       /\ [NoRequest EXCEPT !.step = "sent", !.action = action, !.code = c] \in Request
       /\ [NoRequest EXCEPT !.step = "sent", !.action = action, !.code = c].step = "sent"
       /\ [Blank EXCEPT !.step = "waiting", !.action = action, !.code = c] \in Device
  /\ \A answer \in {"VALID", "ALREADY", "INVALID"} :
       /\ [NoRequest EXCEPT !.step = "answered", !.answer = answer] \in Request
       /\ [NoRequest EXCEPT !.step = "answered", !.answer = answer].step = "answered"
  /\ \A screen \in {"VALID", "ALREADY", "INVALID", "TECHNICAL_ERROR", "none"} :
       [Blank EXCEPT !.step = "result", !.screen = screen] \in Device
<1>1. 1 \in Codes /\ 1 \in Attempts
  BY ConstantsAssumption DEF Codes, Attempts
<1>2. NoRequest \in Request
  BY <1>1 DEF NoRequest, Request
<1>3. Blank \in Device
  BY <1>1 DEF Blank, Device
<1>4. \A action \in {"in", "out"}, c \in Codes :
        /\ [NoRequest EXCEPT !.step = "sent", !.action = action, !.code = c] \in Request
        /\ [NoRequest EXCEPT !.step = "sent", !.action = action, !.code = c].step = "sent"
  BY <1>2, Zenon DEF Request
<1>5. \A action \in {"in", "out"}, c \in Codes :
        [Blank EXCEPT !.step = "waiting", !.action = action, !.code = c] \in Device
  BY <1>3, Zenon DEF Device
<1>6. \A answer \in {"VALID", "ALREADY", "INVALID"} :
        /\ [NoRequest EXCEPT !.step = "answered", !.answer = answer] \in Request
        /\ [NoRequest EXCEPT !.step = "answered", !.answer = answer].step = "answered"
  BY <1>2, Zenon DEF Request
<1>7. \A screen \in {"VALID", "ALREADY", "INVALID", "TECHNICAL_ERROR", "none"} :
        [Blank EXCEPT !.step = "result", !.screen = screen] \in Device
  BY <1>3, Zenon DEF Device
<1> QED
  BY <1>2, <1>3, <1>4, <1>5, <1>6, <1>7 DEF NoRequest

LEMMA ScanTyped ==
  ASSUME TypeOK, NEW d \in Devices,
         \/ \E action \in {"in", "out"}, c \in Codes : Scan(d, action, c)
         \/ \E n \in Attempts : Serve(d, n) \/ Discard(d, n) \/ Dies(d, n)
         \/ Receive(d) \/ TimesOut(d) \/ Dismiss(d)
  PROVE  TypeOK'
<1> USE DEF TypeOK, keeping
<1>1. device[d] \in Device /\ \A n \in Attempts : request[d][n] \in Request
  OBVIOUS
<1>2. 1 \in Attempts
  BY ConstantsAssumption DEF Attempts
<1>3. ASSUME NEW n \in Attempts, NEW r \in Request, request' = [request EXCEPT ![d][n] = r]
      PROVE  request' \in [Devices -> [Attempts -> Request]]
  BY <1>3
<1>4. ASSUME NEW n \in Attempts, NEW a \in {"in", "out"}, NEW c \in Codes, Send(d, n, a, c)
      PROVE  request' \in [Devices -> [Attempts -> Request]]
  BY <1>3, <1>4, ScanRecords DEF Send
<1>5. ASSUME NEW n \in Attempts, NEW a \in {"VALID", "ALREADY", "INVALID"}, Answer(d, n, a)
      PROVE  request' \in [Devices -> [Attempts -> Request]]
  BY <1>3, <1>5, ScanRecords DEF Answer
<1>6. ASSUME NEW s \in {"VALID", "ALREADY", "INVALID", "TECHNICAL_ERROR", "none"}, Screen(d, s)
      PROVE  device' \in [Devices -> Device]
  BY <1>6, ScanRecords DEF Screen
<1>7. ASSUME NEW a \in {"in", "out"}, NEW c \in Codes, Scan(d, a, c)
      PROVE  TypeOK'
  <2>1. device' \in [Devices -> Device]
    BY <1>7, ScanRecords DEF Scan
  <2> QED
    BY <1>2, <1>4, <1>7, <2>1 DEF Scan
<1>8. ASSUME NEW n \in Attempts, ReadTicket(d, n)
      PROVE  TypeOK'
  <2> DEFINE r == request[d][n]
             flip == [r EXCEPT !.step = "flip", !.code = 1, !.seen = ticket.presence]
  <2>1. ticket.presence \in {"not_arrived", "in", "out"} /\ 1 \in Codes
    BY ConstantsAssumption DEF Ticket, Codes
  <2>2. flip \in Request
    BY <1>1, <2>1, Zenon DEF Request
  <2>3. \/ Answer(d, n, "INVALID") \/ Answer(d, n, "ALREADY")
        \/ request' = [request EXCEPT ![d][n] = flip]
    BY <1>8 DEF ReadTicket
  <2> HIDE DEF flip
  <2>4. request' \in [Devices -> [Attempts -> Request]]
    BY <1>3, <1>5, <2>2, <2>3
  <2> QED
    BY <1>8, <2>4 DEF ReadTicket
<1>9. ASSUME NEW n \in Attempts, Flip(d, n)
      PROVE  TypeOK'
  <2>1. \A a : [ticket EXCEPT !.presence = PresenceAfter(a)] \in Ticket
    BY Zenon DEF Ticket, PresenceAfter
  <2>2. \/ \E a : ticket' = [ticket EXCEPT !.presence = PresenceAfter(a)]
        \/ ticket' = ticket
    BY <1>9 DEF Flip
  <2>3. inside' = inside + 1 \/ inside' = inside - 1 \/ inside' = inside
    BY <1>9 DEF Flip
  <2>4. Answer(d, n, "VALID") \/ Answer(d, n, "ALREADY")
    BY <1>9 DEF Flip
  <2>5. ticket' \in Ticket
    BY <2>1, <2>2, Zenon
  <2>6. inside' \in Int
    BY <2>3
  <2>7. request' \in [Devices -> [Attempts -> Request]]
    BY <1>5, <2>4
  <2> QED
    BY <1>9, <2>5, <2>6, <2>7 DEF Flip
<1>10. ASSUME NEW n \in Attempts, Discard(d, n)
       PROVE  TypeOK'
  BY <1>3, <1>10, ScanRecords DEF Discard
<1>11. ASSUME NEW n \in Attempts, Dies(d, n)
       PROVE  TypeOK'
  BY <1>3, <1>11, ScanRecords DEF Dies
<1>12. ASSUME Receive(d)
       PROVE  TypeOK'
  <2> DEFINE n == device[d].attempt
  <2>1. n \in Attempts /\ request[d][n].answer \in {"none", "VALID", "ALREADY", "INVALID"}
    BY <1>1 DEF Device, Request
  <2>2. device' \in [Devices -> Device]
    BY <1>6, <1>12, <2>1 DEF Receive
  <2>3. request' \in [Devices -> [Attempts -> Request]]
    BY <1>3, <1>12, <2>1, ScanRecords DEF Receive
  <2> QED
    BY <1>12, <2>2, <2>3 DEF Receive
<1>13. ASSUME TimesOut(d)
       PROVE  TypeOK'
  <2> DEFINE n == device[d].attempt
             more == [device[d] EXCEPT !.attempt = n + 1]
  <2>1. n \in Attempts /\ device[d].action \in {"in", "out"} /\ device[d].code \in Codes
    BY <1>1 DEF Device
  <2>2. CASE /\ n < MaxAttempts
             /\ Send(d, n + 1, device[d].action, device[d].code)
             /\ device' = [device EXCEPT ![d].attempt = n + 1]
    <3>1. n + 1 \in Attempts
      BY <2>1, <2>2, ConstantsAssumption DEF Attempts
    <3>2. more \in Device
      BY <1>1, <3>1, Zenon DEF Device
    <3>3. device' = [device EXCEPT ![d] = more]
      BY <2>2
    <3> HIDE DEF more
    <3>4. device' \in [Devices -> Device]
      BY <3>2, <3>3
    <3>5. request' \in [Devices -> [Attempts -> Request]]
      BY <1>4, <2>1, <2>2, <3>1
    <3> QED
      BY <1>13, <3>4, <3>5 DEF TimesOut
  <2>3. CASE Screen(d, "TECHNICAL_ERROR") /\ UNCHANGED request
    BY <1>6, <1>13, <2>3 DEF TimesOut
  <2> QED
    BY <1>13, <2>2, <2>3 DEF TimesOut
<1>14. ASSUME Dismiss(d)
       PROVE  TypeOK'
  BY <1>14, ScanRecords DEF Dismiss
<1> QED
  BY <1>7, <1>8, <1>9, <1>10, <1>11, <1>12, <1>13, <1>14 DEF Serve

LEMMA OthersTyped ==
  ASSUME TypeOK,
         \/ OrderPdf \/ ForwardAges \/ MoveGate
         \/ \E p \in People : RefreshPass(p)
  PROVE  TypeOK'
<1> USE DEF TypeOK
<1>1. ASSUME OrderPdf
      PROVE  TypeOK'
  <2>1. ASSUME NEW c \in Active, Show(Buyer, {c})
        PROVE  hands' \in [People -> SUBSET Codes]
    BY <2>1, ShowActive, ConstantsAssumption
  <2>2. faults' \subseteq Allow
    BY <1>1 DEF OrderPdf
  <2> QED
    BY <1>1, <2>1, <2>2 DEF OrderPdf, scanning
<1>2. ASSUME ForwardAges
      PROVE  TypeOK'
  BY <1>2, ConstantsAssumption DEF ForwardAges, scanning
<1>3. ASSUME MoveGate
      PROVE  TypeOK'
  BY <1>3 DEF MoveGate, keeping
<1>4. ASSUME NEW p \in People, RefreshPass(p)
      PROVE  TypeOK'
  BY <1>4, ShowActive DEF RefreshPass, Newest, scanning
<1> QED
  BY <1>1, <1>2, <1>3, <1>4

LEMMA DoorInit ==
  ASSUME Init
  PROVE  TypeOK
<1>1. ticket \in Ticket /\ code \in [Codes -> {"unused", "active", "revoked"}]
  BY ConstantsAssumption DEF Init, Ticket
<1>2. clerk \in [Clerks -> Clerk] /\ device \in [Devices -> Device]
      /\ request \in [Devices -> [Attempts -> Request]]
  BY IdleType, ScanRecords DEF Init
<1>3. hands \in [People -> SUBSET Codes] /\ passes \subseteq People /\ faults \subseteq Allow
  BY DEF Init
<1>4. open \in BOOLEAN
  BY DEF Init
<1>5. recent \in 0..Limit /\ inside \in Int
  BY ConstantsAssumption DEF Init
<1> QED
  BY <1>1, <1>2, <1>3, <1>4, <1>5 DEF TypeOK

\* Every row, clerk, device and request keeps its type.
THEOREM DoorTyped == Spec => []TypeOK
<1>1. TypeOK /\ [Next]_vars => TypeOK'
  <2> SUFFICES ASSUME TypeOK, [Next]_vars
               PROVE  TypeOK'
    OBVIOUS
  <2>1. CASE \E k \in Clerks : Clerking(k)
    BY <2>1, ForwardTyped, OfficeTyped DEF Clerking
  <2>2. CASE \E d \in Devices : Scanning(d)
    BY <2>2, ScanTyped DEF Scanning
  <2>3. CASE OrderPdf \/ ForwardAges \/ MoveGate \/ \E p \in People : RefreshPass(p)
    BY <2>3, OthersTyped
  <2>4. CASE UNCHANGED vars
    BY <2>4 DEF vars, TypeOK
  <2> QED
    BY <2>1, <2>2, <2>3, <2>4 DEF Next
<1> QED
  BY <1>1, DoorInit, PTL DEF Spec

-----------------------------------------------------------------------------
(* The presence: a scan that is about to flip has read another presence     *)
(* than the one it writes, and the flip asks for what was read.             *)

FlipMoves ==
    \A d \in Devices, n \in Attempts : request[d][n].step = "flip" =>
        IF request[d][n].action = "in" THEN request[d][n].seen # "in"
        ELSE request[d][n].seen = "in"

PresenceInv == OneGuestPerTicket /\ FlipMoves

\* What neither moves the guest nor a request.
LEMMA PresenceStays ==
  ASSUME PresenceInv, UNCHANGED <<request, inside>>, ticket'.presence = ticket.presence
  PROVE  PresenceInv'
  BY DEF PresenceInv, OneGuestPerTicket, FlipMoves

\* A change to the ticket other than of its presence.
LEMMA OtherColumns ==
  ASSUME TypeOK
  PROVE  /\ \A h : [ticket EXCEPT !.holder = h].presence = ticket.presence
         /\ \A h : [ticket EXCEPT !.holder = h].status = ticket.status
         /\ \A h : [ticket EXCEPT !.holder = h].holder = h
         /\ \A s : [ticket EXCEPT !.status = s].presence = ticket.presence
         /\ \A s : [ticket EXCEPT !.status = s].holder = ticket.holder
         /\ \A s : [ticket EXCEPT !.status = s].status = s
         /\ \A p : [ticket EXCEPT !.presence = p].presence = p
         /\ \A p : [ticket EXCEPT !.presence = p].status = ticket.status
         /\ \A p : [ticket EXCEPT !.presence = p].holder = ticket.holder
<1>1. ticket \in Ticket
  BY DEF TypeOK
<1> QED
  BY <1>1 DEF Ticket

\* The office moves nobody.
LEMMA ClerksKeepPresence ==
  ASSUME TypeOK, PresenceInv, NEW k \in Clerks, Clerking(k)
  PROVE  PresenceInv'
<1>1. UNCHANGED <<request, inside>>
  BY DEF Clerking, Forward, CountForwards, ChangeHolder, Snapshot, Rotate, LogForward, MailForward,
         OpenEntry, Render, Cancel, RevokeAgain, OpenVoid, Void, Crash, scanning
<1>2. \/ ticket' = ticket
      \/ \E h : ticket' = [ticket EXCEPT !.holder = h]
      \/ \E s : ticket' = [ticket EXCEPT !.status = s]
  BY DEF Clerking, Forward, CountForwards, ChangeHolder, Snapshot, Rotate, LogForward, MailForward,
         OpenEntry, Render, Cancel, RevokeAgain, OpenVoid, Void, Crash
<1> QED
  BY <1>1, <1>2, OtherColumns, PresenceStays

\* A request is replaced by one that is not about to flip.
LEMMA RequestReplaced ==
  ASSUME TypeOK, PresenceInv, NEW d \in Devices, NEW n \in Attempts, NEW r,
         request' = [request EXCEPT ![d][n] = r], r.step # "flip"
  PROVE  FlipMoves'
  BY DEF TypeOK, PresenceInv, FlipMoves

\* The scanner moves the guest in the flip only.
LEMMA ScansKeepPresence ==
  ASSUME TypeOK, PresenceInv, NEW d \in Devices, Scanning(d)
  PROVE  PresenceInv'
<1>1. \A n \in Attempts : request[d][n] \in Request
  BY DEF TypeOK
<1>2. 1 \in Attempts
  BY ConstantsAssumption DEF Attempts
<1>3. ASSUME NEW n \in Attempts, NEW a \in {"in", "out"}, NEW c \in Codes, Send(d, n, a, c)
      PROVE  FlipMoves'
  BY <1>3, ScanRecords, RequestReplaced DEF Send
<1>4. ASSUME NEW n \in Attempts, NEW a \in {"VALID", "ALREADY", "INVALID"}, Answer(d, n, a)
      PROVE  FlipMoves'
  BY <1>4, ScanRecords, RequestReplaced DEF Answer
<1>5. ASSUME FlipMoves', UNCHANGED <<ticket, inside>>
      PROVE  PresenceInv'
  BY <1>5 DEF PresenceInv, OneGuestPerTicket
<1>6. ASSUME NEW a \in {"in", "out"}, NEW c \in Codes, Scan(d, a, c)
      PROVE  PresenceInv'
  BY <1>2, <1>3, <1>5, <1>6 DEF Scan
<1>7. ASSUME NEW n \in Attempts, ReadTicket(d, n)
      PROVE  PresenceInv'
  <2> DEFINE r == request[d][n]
             flip == [r EXCEPT !.step = "flip", !.code = 1, !.seen = ticket.presence]
  <2>1. ticket.presence \in {"not_arrived", "in", "out"} /\ r.action \in {"in", "out"}
    BY <1>1 DEF TypeOK, Ticket, Request
  <2>2. flip.action = r.action /\ flip.seen = ticket.presence
    BY <1>1 DEF Request
  <2>3. UNCHANGED <<ticket, inside>>
    BY <1>7 DEF ReadTicket
  <2>4. CASE Answer(d, n, "INVALID") \/ Answer(d, n, "ALREADY")
    BY <1>4, <1>5, <2>3, <2>4
  <2>5. CASE /\ request' = [request EXCEPT ![d][n] = flip]
             /\ ticket.presence # PresenceAfter(r.action)
             /\ ~(PresenceAfter(r.action) = "out" /\ ticket.presence = "not_arrived")
    <3>1. IF r.action = "in" THEN flip.seen # "in" ELSE flip.seen = "in"
      BY <2>1, <2>2, <2>5 DEF PresenceAfter
    <3> HIDE DEF flip
    <3>2. FlipMoves'
      BY <2>2, <2>5, <3>1 DEF TypeOK, PresenceInv, FlipMoves
    <3> QED
      BY <1>5, <2>3, <3>2
  <2> QED
    BY <1>7, <2>4, <2>5 DEF ReadTicket
<1>8. ASSUME NEW n \in Attempts, Flip(d, n)
      PROVE  PresenceInv'
  <2> DEFINE r == request[d][n]
  <2>1. r.action \in {"in", "out"} /\ r.step = "flip"
    BY <1>1, <1>8 DEF Request, Flip
  <2>2. CASE /\ Unmoved(r.seen)
             /\ ticket' = [ticket EXCEPT !.presence = PresenceAfter(r.action)]
             /\ inside' = IF r.action = "in" THEN inside + 1 ELSE inside - 1
             /\ Answer(d, n, "VALID")
    <3>1. IF r.action = "in" THEN ticket.presence # "in" ELSE ticket.presence = "in"
      BY <2>1, <2>2 DEF PresenceInv, FlipMoves, Unmoved
    <3>2. ticket'.presence = PresenceAfter(r.action)
      BY <2>2, OtherColumns
    <3>3. OneGuestPerTicket'
      BY <2>1, <2>2, <3>1, <3>2 DEF PresenceInv, OneGuestPerTicket, PresenceAfter
    <3> QED
      BY <1>4, <2>2, <3>3 DEF PresenceInv
  <2>3. CASE Answer(d, n, "ALREADY") /\ UNCHANGED <<ticket, inside>>
    BY <1>4, <1>5, <2>3
  <2> QED
    BY <1>8, <2>2, <2>3 DEF Flip
<1>9. ASSUME NEW n \in Attempts, Discard(d, n) \/ Dies(d, n)
      PROVE  PresenceInv'
  BY <1>5, <1>9, ScanRecords, RequestReplaced DEF Discard, Dies
<1>10. ASSUME Receive(d)
       PROVE  PresenceInv'
  <2>1. device[d].attempt \in Attempts
    BY DEF TypeOK, Device
  <2> QED
    BY <1>5, <1>10, <2>1, ScanRecords, RequestReplaced DEF Receive
<1>11. ASSUME TimesOut(d)
       PROVE  PresenceInv'
  <2> DEFINE n == device[d].attempt
  <2>1. n \in Attempts /\ device[d].action \in {"in", "out"} /\ device[d].code \in Codes
    BY DEF TypeOK, Device
  <2>2. n < MaxAttempts => n + 1 \in Attempts
    BY <2>1, ConstantsAssumption DEF Attempts
  <2>3. UNCHANGED <<ticket, inside>>
    BY <1>11 DEF TimesOut
  <2>4. FlipMoves'
    BY <1>3, <1>11, <2>1, <2>2 DEF TimesOut, PresenceInv, FlipMoves
  <2> QED
    BY <1>5, <2>3, <2>4
<1>12. ASSUME Dismiss(d)
       PROVE  PresenceInv'
  BY <1>12, PresenceStays DEF Dismiss
<1> QED
  BY <1>6, <1>7, <1>8, <1>9, <1>10, <1>11, <1>12 DEF Scanning, Serve

\* No silent double entry: the presence counts the guest, for any number of devices
\* and retries.
THEOREM NoDoubleEntry == Spec => []OneGuestPerTicket
<1>1. Init => PresenceInv
  BY DEF Init, PresenceInv, OneGuestPerTicket, FlipMoves, NoRequest
<1>2. TypeOK /\ PresenceInv /\ [Next]_vars => PresenceInv'
  <2> SUFFICES ASSUME TypeOK, PresenceInv, [Next]_vars
               PROVE  PresenceInv'
    OBVIOUS
  <2>1. CASE \E k \in Clerks : Clerking(k)
    BY <2>1, ClerksKeepPresence
  <2>2. CASE \E d \in Devices : Scanning(d)
    BY <2>2, ScansKeepPresence
  <2>3. CASE OrderPdf \/ ForwardAges \/ MoveGate \/ \E p \in People : RefreshPass(p)
    BY <2>3, PresenceStays DEF OrderPdf, ForwardAges, MoveGate, RefreshPass, scanning
  <2>4. CASE UNCHANGED vars
    BY <2>4, PresenceStays DEF vars
  <2> QED
    BY <2>1, <2>2, <2>3, <2>4 DEF Next
<1>3. PresenceInv => OneGuestPerTicket
  BY DEF PresenceInv
<1> QED
  BY <1>1, <1>2, <1>3, DoorTyped, PTL DEF Spec

-----------------------------------------------------------------------------
(* The codes: whoever revokes without issuing has cancelled the ticket.     *)

CodeInv ==
    /\ ValidTicketHasCode
    /\ \A k \in Clerks : At(k, "wallet") => ticket.status # "active"

\* The status stays as it is or is no longer active, and no code is lost.
LEMMA CodesStay ==
  ASSUME CodeInv, UNCHANGED code,
         ticket'.status = ticket.status \/ ticket'.status # "active",
         \A k \in Clerks : At(k, "wallet")' => At(k, "wallet") \/ ticket'.status # "active"
  PROVE  CodeInv'
  BY DEF CodeInv, ValidTicketHasCode, Active

\* The steps of a clerk, as the codes see them.
LEMMA ClerksKeepCodes ==
  ASSUME TypeOK, CodeInv, NEW k \in Clerks, Clerking(k)
  PROVE  CodeInv'
<1>1. \A t : Become(k, t) =>
        \A l \in Clerks : At(l, "wallet")' => At(l, "wallet") \/ (l = k /\ t.step = "wallet")
  BY DEF TypeOK, Become, At
<1>2. \A s \in Doing : Goto(k, s) =>
        \A l \in Clerks : At(l, "wallet")' => At(l, "wallet") \/ (l = k /\ s = "wallet")
  <2> TAKE s \in Doing
  <2>1. [clerk[k] EXCEPT !.step = s].step = s
    BY GotoType
  <2> QED
    BY <1>1, <2>1 DEF Goto
<1>3. ASSUME NEW actor, NEW to, Forward(k, actor, to)
      PROVE  CodeInv'
  <2>1. [Idle EXCEPT !.step = "count", !.actor = actor, !.to = to].step # "wallet"
    BY DEF Idle
  <2> QED
    BY <1>1, <1>3, <2>1, CodesStay DEF Forward
<1>4. ASSUME NEW p, NEW pass, OpenEntry(k, p, pass)
      PROVE  CodeInv'
  <2>1. [Idle EXCEPT !.step = "render", !.to = p, !.pass = pass].step # "wallet"
    BY DEF Idle
  <2> QED
    BY <1>1, <1>4, <2>1, CodesStay DEF OpenEntry
<1>5. ASSUME CountForwards(k) \/ LogForward(k) \/ MailForward(k) \/ Render(k) \/ OpenVoid(k)
             \/ Crash(k)
      PROVE  CodeInv'
  <2>1. UNCHANGED <<code, ticket>>
    BY <1>5 DEF CountForwards, LogForward, MailForward, Render, OpenVoid, Crash
  <2>2. Become(k, Idle) \/ \E s \in {"holder", "mail", "void"} : Goto(k, s)
    BY <1>5 DEF CountForwards, LogForward, MailForward, Render, OpenVoid, Crash
  <2>3. \A l \in Clerks : At(l, "wallet")' => At(l, "wallet")
    BY <1>1, <1>2, <2>2, IdleType DEF Doing
  <2> QED
    BY <2>1, <2>3, CodesStay
<1>6. ASSUME ChangeHolder(k) \/ Snapshot(k)
      PROVE  CodeInv'
  <2>1. [clerk[k] EXCEPT !.step = "snapshot", !.actor = Staff].step # "wallet"
        /\ [clerk[k] EXCEPT !.step = "rotate", !.sees = Active].step # "wallet"
    BY DEF TypeOK, Clerk
  <2>2. ticket'.status = ticket.status /\ UNCHANGED code
    BY <1>6, OtherColumns DEF ChangeHolder, Snapshot
  <2>3. \A l \in Clerks : At(l, "wallet")' => At(l, "wallet")
    BY <1>1, <1>6, <2>1 DEF ChangeHolder, Snapshot
  <2> QED
    BY <2>2, <2>3, CodesStay
<1>7. ASSUME Rotate(k)
      PROVE  CodeInv'
  <2>1. Active' # {}
    BY <1>7 DEF Rotate, Rotated, Active
  <2>2. [clerk[k] EXCEPT !.step = "log", !.sees = {}].step # "wallet"
    BY DEF TypeOK, Clerk
  <2>3. \A l \in Clerks : At(l, "wallet")' => At(l, "wallet")
    BY <1>1, <1>7, <2>2 DEF Rotate
  <2> QED
    BY <1>7, <2>1, <2>3 DEF Rotate, CodeInv, ValidTicketHasCode
<1>8. ASSUME Cancel(k) \/ Void(k)
      PROVE  CodeInv'
  <2>1. ticket'.status # "active"
    BY <1>8, OtherColumns DEF Cancel, Void
  <2> QED
    BY <2>1 DEF CodeInv, ValidTicketHasCode
<1>9. ASSUME RevokeAgain(k)
      PROVE  CodeInv'
  <2>1. ticket'.status # "active"
    BY <1>9 DEF RevokeAgain, CodeInv
  <2> QED
    BY <2>1 DEF CodeInv, ValidTicketHasCode
<1> QED
  BY <1>3, <1>4, <1>5, <1>6, <1>7, <1>8, <1>9 DEF Clerking

\* The scanner writes the presence only.
LEMMA ScansKeepColumns ==
  ASSUME TypeOK, NEW d \in Devices, Scanning(d)
  PROVE  /\ UNCHANGED keeping
         /\ ticket'.status = ticket.status /\ ticket'.holder = ticket.holder
         /\ faults \subseteq faults'
<1>1. UNCHANGED keeping /\ faults \subseteq faults'
  BY DEF Scanning, Scan, Serve, ReadTicket, Flip, Discard, Dies, Receive, TimesOut, Dismiss
<1>2. ticket' = ticket \/ \E p : ticket' = [ticket EXCEPT !.presence = p]
  BY DEF Scanning, Scan, Serve, ReadTicket, Flip, Discard, Dies, Receive, TimesOut, Dismiss
<1>3. ASSUME NEW p, ticket' = [ticket EXCEPT !.presence = p]
      PROVE  ticket'.status = ticket.status /\ ticket'.holder = ticket.holder
  BY <1>3, OtherColumns
<1> QED
  BY <1>1, <1>2, <1>3

\* A valid ticket always has a code, at every step of any number of clerks at once and
\* after any crash.
THEOREM AlwaysACode == Spec => []ValidTicketHasCode
<1>1. Init => CodeInv
  <2> SUFFICES ASSUME Init
               PROVE  CodeInv
    OBVIOUS
  <2>1. 1 \in Active
    BY ConstantsAssumption DEF Init, Active, Codes
  <2>2. \A k \in Clerks : ~At(k, "wallet")
    BY IdleType DEF Init, At
  <2> QED
    BY <2>1, <2>2 DEF CodeInv, ValidTicketHasCode
<1>2. TypeOK /\ CodeInv /\ [Next]_vars => CodeInv'
  <2> SUFFICES ASSUME TypeOK, CodeInv, [Next]_vars
               PROVE  CodeInv'
    OBVIOUS
  <2>1. CASE \E k \in Clerks : Clerking(k)
    BY <2>1, ClerksKeepCodes
  <2>2. CASE \E d \in Devices : Scanning(d)
    BY <2>2, ScansKeepColumns, CodesStay DEF keeping, At
  <2>3. CASE OrderPdf \/ ForwardAges \/ MoveGate \/ \E p \in People : RefreshPass(p)
    BY <2>3, CodesStay DEF OrderPdf, ForwardAges, MoveGate, RefreshPass, keeping, At
  <2>4. CASE UNCHANGED vars
    BY <2>4, CodesStay DEF vars, At
  <2> QED
    BY <2>1, <2>2, <2>3, <2>4 DEF Next
<1>3. CodeInv => ValidTicketHasCode
  BY DEF CodeInv
<1> QED
  BY <1>1, <1>2, <1>3, DoorTyped, PTL DEF Spec

-----------------------------------------------------------------------------
(* The holder: without a fault one clerk works at a time, and its step says *)
(* who may know the codes.                                                  *)

\* Nobody but the holder knows an active code.
OnlyHolderKnows == \A p \in People : ~Holds(p) => hands[p] \cap Active = {}

\* A code that has not been issued is in nobody's hands.
UnusedUnknown == \A p \in People : hands[p] \cap Unused = {}

\* One clerk, and what its step promises.
OneClerk ==
    /\ \A k, l \in Clerks : clerk[k] # Idle /\ clerk[l] # Idle => k = l
    /\ \A k \in Clerks :
         /\ clerk[k].step \in {"render", "snapshot", "rotate", "log", "mail"} => Holds(clerk[k].to)
         /\ At(k, "rotate") => clerk[k].sees = Active
    /\ (\A k \in Clerks : ~At(k, "snapshot") /\ ~At(k, "rotate")) => OnlyHolderKnows

CalmInv == UnusedUnknown /\ (faults = {} => OneClerk)

\* What touches neither codes nor hands, clerks nor the holder.
LEMMA CalmStays ==
  ASSUME CalmInv, UNCHANGED <<code, hands, clerk>>, ticket'.holder = ticket.holder,
         faults' = {} => faults = {}
  PROVE  CalmInv'
  BY DEF CalmInv, UnusedUnknown, OneClerk, OnlyHolderKnows, Holds, At, Active, Unused

\* Showing an active code to the holder.
LEMMA HolderLearns ==
  ASSUME TypeOK, NEW p \in People, Holds(p), NEW c \in Active, Show(p, {c}),
         UNCHANGED <<code, ticket>>
  PROVE  /\ OnlyHolderKnows => OnlyHolderKnows'
         /\ UnusedUnknown => UnusedUnknown'
<1>1. \A q \in People : hands'[q] = IF q = p THEN hands[q] \cup {c} ELSE hands[q]
  BY ShowActive
<1>2. c \notin Unused
  BY DEF Active, Unused
<1> QED
  BY <1>1, <1>2 DEF OnlyHolderKnows, UnusedUnknown, Holds, Active, Unused

\* Showing one to anybody.
LEMMA SomebodyLearns ==
  ASSUME TypeOK, UnusedUnknown, NEW p \in People, NEW c \in Active, Show(p, {c}), UNCHANGED code
  PROVE  UnusedUnknown'
<1>1. \A q \in People : hands'[q] = IF q = p THEN hands[q] \cup {c} ELSE hands[q]
  BY ShowActive
<1>2. c \notin Unused
  BY DEF Active, Unused
<1> QED
  BY <1>1, <1>2 DEF UnusedUnknown, Unused

\* Revoking leaves fewer active codes and no fewer issued ones.
LEMMA FewerCodes ==
  ASSUME TypeOK, code' \in {Revoked, code}, UNCHANGED hands, ticket'.holder = ticket.holder
  PROVE  /\ OnlyHolderKnows => OnlyHolderKnows'
         /\ UnusedUnknown => UnusedUnknown'
<1>1. Active' \subseteq Active /\ Unused' = Unused
  BY DEF Revoked, Active, Unused
<1> QED
  BY <1>1 DEF OnlyHolderKnows, UnusedUnknown, Holds

\* A clerk becomes t and the others stay what they are.
LEMMA OneClerkMoves ==
  ASSUME TypeOK, NEW k \in Clerks, NEW t, Become(k, t),
         \A l \in Clerks : clerk[l] # Idle => l = k,
         t.step \in {"render", "snapshot", "rotate", "log", "mail"} => ticket'.holder = t.to,
         t.step = "rotate" => t.sees = Active',
         t.step \notin {"snapshot", "rotate"} => OnlyHolderKnows'
  PROVE  OneClerk'
<1>1. clerk'[k] = t /\ \A l \in Clerks : l # k => clerk'[l] = Idle
  BY DEF TypeOK, Become
<1>2. \A l \in Clerks : clerk'[l] # Idle => l = k
  BY <1>1
<1>3. Idle.step = "idle"
  BY DEF Idle
<1>4. \A l \in Clerks :
        /\ clerk'[l].step \in {"render", "snapshot", "rotate", "log", "mail"}
             => ticket'.holder = clerk'[l].to
        /\ clerk'[l].step = "rotate" => clerk'[l].sees = Active'
  BY <1>1, <1>3
<1>5. (\A l \in Clerks : clerk'[l].step # "snapshot" /\ clerk'[l].step # "rotate")
        => OnlyHolderKnows'
  BY <1>1
<1> QED
  BY <1>2, <1>4, <1>5 DEF OneClerk, At, Holds

\* A clerk who begins without a fault is the only one.
LEMMA BeginsAlone ==
  ASSUME NEW k \in Clerks, Begin(k), faults' = {}
  PROVE  faults = {} /\ \A l \in Clerks : clerk[l] = Idle
  BY DEF Begin, Busy

\* So is one who is at work.
LEMMA WorksAlone ==
  ASSUME CalmInv, faults = {}, NEW k \in Clerks, clerk[k].step # "idle"
  PROVE  \A l \in Clerks : clerk[l] # Idle => l = k
  BY DEF CalmInv, OneClerk, Idle

\* The forward, step by step.
LEMMA ForwardCalm ==
  ASSUME TypeOK, CalmInv, NEW k \in Clerks,
         \/ \E actor \in People \cup {Staff}, to \in People : Forward(k, actor, to)
         \/ CountForwards(k) \/ ChangeHolder(k) \/ Snapshot(k) \/ Rotate(k) \/ LogForward(k)
         \/ MailForward(k)
  PROVE  CalmInv'
<1>1. clerk[k] \in Clerk /\ clerk[k].to \in People
  BY DEF TypeOK, Clerk
<1>2. \A s : [clerk[k] EXCEPT !.step = s].step = s /\ [clerk[k] EXCEPT !.step = s].to = clerk[k].to
  BY <1>1 DEF Clerk
<1>3. ASSUME NEW actor, NEW to, Forward(k, actor, to)
      PROVE  CalmInv'
  <2> DEFINE t == [Idle EXCEPT !.step = "count", !.actor = actor, !.to = to]
  <2>1. t.step = "count"
    BY DEF Idle
  <2>2. Become(k, t) /\ UNCHANGED <<code, hands, ticket>>
    BY <1>3 DEF Forward
  <2> HIDE DEF t
  <2>3. UnusedUnknown'
    BY <2>2 DEF CalmInv, UnusedUnknown, Unused
  <2>4. ASSUME faults' = {}
        PROVE  OneClerk'
    <3>1. faults = {} /\ \A l \in Clerks : clerk[l] = Idle
      BY <1>3, <2>4, BeginsAlone DEF Forward
    <3>2. OnlyHolderKnows
      BY <3>1 DEF CalmInv, OneClerk, At, Idle
    <3>3. OnlyHolderKnows'
      BY <2>2, <3>2 DEF OnlyHolderKnows, Holds, Active
    <3> QED
      BY <2>1, <2>2, <3>1, <3>3, OneClerkMoves
  <2> QED
    BY <2>3, <2>4 DEF CalmInv
<1>4. ASSUME CountForwards(k)
      PROVE  CalmInv'
  <2>1. UNCHANGED <<code, hands, ticket, faults>> /\ clerk[k].step = "count"
    BY <1>4 DEF CountForwards, At
  <2>2. UnusedUnknown'
    BY <2>1 DEF CalmInv, UnusedUnknown, Unused
  <2>3. ASSUME faults = {}
        PROVE  OneClerk'
    <3>1. \A l \in Clerks : clerk[l] # Idle => l = k
      BY <2>1, <2>3, WorksAlone
    <3>2. OnlyHolderKnows
      BY <2>1, <2>3, <3>1 DEF CalmInv, OneClerk, At, Idle
    <3>3. OnlyHolderKnows'
      BY <2>1, <3>2 DEF OnlyHolderKnows, Holds, Active
    <3>4. CASE Become(k, Idle)
      BY <3>1, <3>3, <3>4, IdleType, OneClerkMoves
    <3>5. CASE Goto(k, "holder")
      BY <1>2, <3>1, <3>3, <3>5, OneClerkMoves DEF Goto
    <3> QED
      BY <1>4, <3>4, <3>5 DEF CountForwards
  <2> QED
    BY <2>1, <2>2, <2>3 DEF CalmInv
<1>5. ASSUME ChangeHolder(k)
      PROVE  CalmInv'
  <2> DEFINE t == [clerk[k] EXCEPT !.step = "snapshot", !.actor = Staff]
  <2>1. t.step = "snapshot" /\ t.to = clerk[k].to
    BY <1>1 DEF Clerk
  <2>2. UNCHANGED <<code, hands, faults>> /\ clerk[k].step = "holder" /\ Become(k, t)
    BY <1>5 DEF ChangeHolder, At
  <2>3. ticket'.holder = clerk[k].to
    BY <1>5, OtherColumns DEF ChangeHolder, NewHolder
  <2> HIDE DEF t
  <2>4. UnusedUnknown'
    BY <2>2 DEF CalmInv, UnusedUnknown, Unused
  <2>5. ASSUME faults = {}
        PROVE  OneClerk'
    <3>1. \A l \in Clerks : clerk[l] # Idle => l = k
      BY <2>2, <2>5, WorksAlone
    <3> QED
      BY <2>1, <2>2, <2>3, <3>1, OneClerkMoves
  <2> QED
    BY <2>2, <2>4, <2>5 DEF CalmInv
<1>6. ASSUME Snapshot(k)
      PROVE  CalmInv'
  <2> DEFINE t == [clerk[k] EXCEPT !.step = "rotate", !.sees = Active]
  <2>1. t.step = "rotate" /\ t.to = clerk[k].to /\ t.sees = Active
    BY <1>1 DEF Clerk
  <2>2. UNCHANGED <<code, hands, ticket, faults>> /\ clerk[k].step = "snapshot" /\ Become(k, t)
    BY <1>6 DEF Snapshot, At
  <2> HIDE DEF t
  <2>3. UnusedUnknown' /\ Active' = Active
    BY <2>2 DEF CalmInv, UnusedUnknown, Unused, Active
  <2>4. ASSUME faults = {}
        PROVE  OneClerk'
    <3>1. \A l \in Clerks : clerk[l] # Idle => l = k
      BY <2>2, <2>4, WorksAlone
    <3>2. ticket'.holder = t.to
      BY <2>1, <2>2, <2>4 DEF CalmInv, OneClerk, Holds
    <3> QED
      BY <2>1, <2>2, <2>3, <3>1, <3>2, OneClerkMoves
  <2> QED
    BY <2>2, <2>3, <2>4 DEF CalmInv
<1>7. ASSUME Rotate(k)
      PROVE  CalmInv'
  <2> DEFINE t == [clerk[k] EXCEPT !.step = "log", !.sees = {}]
  <2>1. t.step = "log" /\ t.to = clerk[k].to
    BY <1>1 DEF Clerk
  <2>2. UNCHANGED <<hands, ticket, faults>> /\ clerk[k].step = "rotate" /\ Become(k, t)
    BY <1>7 DEF Rotate, At
  <2>3. PICK new \in Unused : code' = Rotated(clerk[k].sees, new)
    BY <1>7 DEF Rotate, Oldest
  <2> HIDE DEF t
  <2>4. Unused' \subseteq Unused /\ Active' \subseteq (Active \ clerk[k].sees) \cup {new}
    BY <2>3 DEF Rotated, Unused, Active
  <2>5. UnusedUnknown'
    BY <2>2, <2>4 DEF CalmInv, UnusedUnknown
  <2>6. ASSUME faults = {}
        PROVE  OneClerk'
    <3>1. \A l \in Clerks : clerk[l] # Idle => l = k
      BY <2>2, <2>6, WorksAlone
    <3>2. ticket'.holder = t.to /\ clerk[k].sees = Active
      BY <2>1, <2>2, <2>6 DEF CalmInv, OneClerk, Holds, At
    <3>3. Active' \subseteq {new}
      BY <2>4, <3>2
    <3>4. OnlyHolderKnows'
      BY <2>2, <2>3, <3>3 DEF OnlyHolderKnows, CalmInv, UnusedUnknown
    <3> QED
      BY <2>1, <2>2, <3>1, <3>2, <3>4, OneClerkMoves
  <2> QED
    BY <2>2, <2>5, <2>6 DEF CalmInv
<1>8. ASSUME LogForward(k)
      PROVE  CalmInv'
  <2>1. UNCHANGED <<code, hands, ticket, faults>> /\ clerk[k].step = "log" /\ Goto(k, "mail")
    BY <1>8 DEF LogForward, At
  <2>2. UnusedUnknown'
    BY <2>1 DEF CalmInv, UnusedUnknown, Unused
  <2>3. ASSUME faults = {}
        PROVE  OneClerk'
    <3>1. \A l \in Clerks : clerk[l] # Idle => l = k
      BY <2>1, <2>3, WorksAlone
    <3>2. OnlyHolderKnows /\ ticket.holder = clerk[k].to
      BY <2>1, <2>3, <3>1 DEF CalmInv, OneClerk, At, Idle, Holds
    <3>3. OnlyHolderKnows'
      BY <2>1, <3>2 DEF OnlyHolderKnows, Holds, Active
    <3> QED
      BY <1>2, <2>1, <3>1, <3>2, <3>3, OneClerkMoves DEF Goto
  <2> QED
    BY <2>1, <2>2, <2>3 DEF CalmInv
<1>9. ASSUME MailForward(k)
      PROVE  CalmInv'
  <2>1. UNCHANGED <<code, ticket, faults>> /\ clerk[k].step = "mail" /\ Become(k, Idle)
    BY <1>9 DEF MailForward, At
  <2>2. UNCHANGED hands \/ \E c \in Active : Show(clerk[k].to, {c})
    BY <1>9 DEF MailForward
  <2>3. UnusedUnknown'
    <3>1. CASE UNCHANGED hands
      BY <2>1, <3>1 DEF CalmInv, UnusedUnknown, Unused
    <3>2. CASE \E c \in Active : Show(clerk[k].to, {c})
      BY <1>1, <2>1, <3>2, SomebodyLearns DEF CalmInv
    <3> QED
      BY <2>2, <3>1, <3>2
  <2>4. ASSUME faults = {}
        PROVE  OneClerk'
    <3>1. \A l \in Clerks : clerk[l] # Idle => l = k
      BY <2>1, <2>4, WorksAlone
    <3>2. OnlyHolderKnows /\ Holds(clerk[k].to)
      BY <2>1, <2>4, <3>1 DEF CalmInv, OneClerk, At, Idle
    <3>3. OnlyHolderKnows'
      <4>1. CASE UNCHANGED hands
        BY <2>1, <3>2, <4>1 DEF OnlyHolderKnows, Holds, Active
      <4>2. CASE \E c \in Active : Show(clerk[k].to, {c})
        BY <1>1, <2>1, <3>2, <4>2, HolderLearns
      <4> QED
        BY <2>2, <4>1, <4>2
    <3> QED
      BY <2>1, <3>1, <3>3, IdleType, OneClerkMoves
  <2> QED
    BY <2>1, <2>3, <2>4 DEF CalmInv
<1> QED
  BY <1>3, <1>4, <1>5, <1>6, <1>7, <1>8, <1>9

\* Pages, cancellations and voids.
LEMMA OfficeCalm ==
  ASSUME TypeOK, CalmInv, NEW k \in Clerks,
         \/ \E p \in People, pass \in BOOLEAN : OpenEntry(k, p, pass)
         \/ Render(k)
         \/ Cancel(k) \/ RevokeAgain(k) \/ OpenVoid(k) \/ Void(k)
         \/ Crash(k)
  PROVE  CalmInv'
<1>1. clerk[k] \in Clerk /\ clerk[k].to \in People
  BY DEF TypeOK, Clerk
<1>2. \A s : [clerk[k] EXCEPT !.step = s].step = s
  BY <1>1 DEF Clerk
<1>3. ASSUME NEW p \in People, NEW pass, OpenEntry(k, p, pass)
      PROVE  CalmInv'
  <2> DEFINE t == [Idle EXCEPT !.step = "render", !.to = p, !.pass = pass]
  <2>1. t.step = "render" /\ t.to = p
    BY DEF Idle
  <2>2. Become(k, t) /\ UNCHANGED <<code, hands, ticket>> /\ ticket.holder = p
    BY <1>3 DEF OpenEntry, MayEnterWith, Holds
  <2> HIDE DEF t
  <2>3. UnusedUnknown'
    BY <2>2 DEF CalmInv, UnusedUnknown, Unused
  <2>4. ASSUME faults' = {}
        PROVE  OneClerk'
    <3>1. faults = {} /\ \A l \in Clerks : clerk[l] = Idle
      BY <1>3, <2>4, BeginsAlone DEF OpenEntry
    <3>2. OnlyHolderKnows
      BY <3>1 DEF CalmInv, OneClerk, At, Idle
    <3>3. OnlyHolderKnows'
      BY <2>2, <3>2 DEF OnlyHolderKnows, Holds, Active
    <3> QED
      BY <2>1, <2>2, <3>1, <3>3, OneClerkMoves
  <2> QED
    BY <2>3, <2>4 DEF CalmInv
<1>4. ASSUME Render(k)
      PROVE  CalmInv'
  <2>1. UNCHANGED <<code, ticket, faults>> /\ clerk[k].step = "render" /\ Become(k, Idle)
    BY <1>4 DEF Render, At
  <2>2. UNCHANGED hands \/ \E c \in Active : Show(clerk[k].to, {c})
    BY <1>4 DEF Render
  <2>3. UnusedUnknown'
    <3>1. CASE UNCHANGED hands
      BY <2>1, <3>1 DEF CalmInv, UnusedUnknown, Unused
    <3>2. CASE \E c \in Active : Show(clerk[k].to, {c})
      BY <1>1, <2>1, <3>2, SomebodyLearns DEF CalmInv
    <3> QED
      BY <2>2, <3>1, <3>2
  <2>4. ASSUME faults = {}
        PROVE  OneClerk'
    <3>1. \A l \in Clerks : clerk[l] # Idle => l = k
      BY <2>1, <2>4, WorksAlone
    <3>2. OnlyHolderKnows /\ Holds(clerk[k].to)
      BY <2>1, <2>4, <3>1 DEF CalmInv, OneClerk, At, Idle
    <3>3. OnlyHolderKnows'
      <4>1. CASE UNCHANGED hands
        BY <2>1, <3>2, <4>1 DEF OnlyHolderKnows, Holds, Active
      <4>2. CASE \E c \in Active : Show(clerk[k].to, {c})
        BY <1>1, <2>1, <3>2, <4>2, HolderLearns
      <4> QED
        BY <2>2, <4>1, <4>2
    <3> QED
      BY <2>1, <3>1, <3>3, IdleType, OneClerkMoves
  <2> QED
    BY <2>1, <2>3, <2>4 DEF CalmInv
<1>5. ASSUME Cancel(k) \/ OpenVoid(k)
      PROVE  CalmInv'
  <2>1. PICK s \in {"wallet", "void"} : Goto(k, s)
    BY <1>5 DEF Cancel, OpenVoid
  <2>2. code' \in {Revoked, code} /\ UNCHANGED hands /\ ticket'.holder = ticket.holder
    <3>1. CASE Cancel(k)
      <4>1. /\ ticket' = [ticket EXCEPT !.status = "cancelled"]
            /\ code' = Revoked /\ UNCHANGED hands
        BY <3>1 DEF Cancel
      <4>2. [ticket EXCEPT !.status = "cancelled"].holder = ticket.holder
        BY OtherColumns
      <4> QED
        BY <4>1, <4>2
    <3>2. CASE OpenVoid(k)
      <4>1. UNCHANGED <<ticket, code, hands>>
        BY <3>2 DEF OpenVoid
      <4> QED
        BY <4>1
    <3> QED
      BY <1>5, <3>1, <3>2
  <2>3. UnusedUnknown'
    BY <2>2, FewerCodes DEF CalmInv
  <2>4. ASSUME faults' = {}
        PROVE  OneClerk'
    <3>1. faults = {} /\ \A l \in Clerks : clerk[l] = Idle
      BY <1>5, <2>4, BeginsAlone DEF Cancel, OpenVoid
    <3>2. OnlyHolderKnows
      BY <3>1 DEF CalmInv, OneClerk, At, Idle
    <3>3. OnlyHolderKnows'
      BY <2>2, <3>2, FewerCodes
    <3> QED
      BY <1>2, <2>1, <3>1, <3>3, OneClerkMoves DEF Goto
  <2> QED
    BY <2>3, <2>4 DEF CalmInv
<1>6. ASSUME RevokeAgain(k) \/ Void(k)
      PROVE  CalmInv'
  <2>1. Become(k, Idle) /\ clerk[k].step \in {"wallet", "void"} /\ UNCHANGED faults
    BY <1>6 DEF RevokeAgain, Void, At
  <2>2. code' \in {Revoked, code} /\ UNCHANGED hands /\ ticket'.holder = ticket.holder
    BY <1>6, OtherColumns DEF RevokeAgain, Void
  <2>3. UnusedUnknown'
    BY <2>2, FewerCodes DEF CalmInv
  <2>4. ASSUME faults = {}
        PROVE  OneClerk'
    <3>1. \A l \in Clerks : clerk[l] # Idle => l = k
      BY <2>1, <2>4, WorksAlone
    <3>2. OnlyHolderKnows
      BY <2>1, <2>4, <3>1 DEF CalmInv, OneClerk, At, Idle
    <3>3. OnlyHolderKnows'
      BY <2>2, <3>2, FewerCodes
    <3> QED
      BY <2>1, <3>1, <3>3, IdleType, OneClerkMoves
  <2> QED
    BY <2>1, <2>3, <2>4 DEF CalmInv
<1>7. ASSUME Crash(k)
      PROVE  CalmInv'
  BY <1>7 DEF Crash, CalmInv, UnusedUnknown, Unused
<1> QED
  BY <1>3, <1>4, <1>5, <1>6, <1>7

\* The combined PDF and the refreshed pass: to anybody but the holder only as a fault.
LEMMA OthersCalm ==
  ASSUME TypeOK, CalmInv, OrderPdf \/ \E p \in People : RefreshPass(p)
  PROVE  CalmInv'
<1>1. PICK p \in People, c \in Active :
        /\ Show(p, {c}) /\ UNCHANGED <<code, ticket, clerk>>
        /\ faults' = {} => faults = {} /\ Holds(p)
  BY ConstantsAssumption DEF OrderPdf, RefreshPass, Newest, Transferred
<1>2. UnusedUnknown'
  BY <1>1, SomebodyLearns DEF CalmInv
<1>3. ASSUME faults' = {}
      PROVE  OneClerk'
  <2>1. OneClerk /\ (OnlyHolderKnows => OnlyHolderKnows')
    BY <1>1, <1>3, HolderLearns DEF CalmInv
  <2>2. \A k \in Clerks : clerk'[k] = clerk[k]
    BY <1>1
  <2> QED
    BY <1>1, <2>1, <2>2 DEF OneClerk, At, Active, Holds
<1> QED
  BY <1>2, <1>3 DEF CalmInv

\* Without overlap, crash, combined PDF or stale pass, nobody but the holder has a code
\* that opens the door, as soon as the forward is through.
THEOREM OnlyTheHolderEnters == Spec => []EntryOnlyForHolderCalm
<1>1. Init => CalmInv
  <2> SUFFICES ASSUME Init
               PROVE  CalmInv
    OBVIOUS
  <2>1. UnusedUnknown /\ OnlyHolderKnows
    BY DEF Init, UnusedUnknown, OnlyHolderKnows
  <2>2. OneClerk
    BY <2>1 DEF Init, OneClerk, At, Idle
  <2> QED
    BY <2>1, <2>2 DEF CalmInv
<1>2. TypeOK /\ CalmInv /\ [Next]_vars => CalmInv'
  <2> SUFFICES ASSUME TypeOK, CalmInv, [Next]_vars
               PROVE  CalmInv'
    OBVIOUS
  <2>1. CASE \E k \in Clerks : Clerking(k)
    BY <2>1, ForwardCalm, OfficeCalm DEF Clerking
  <2>2. CASE \E d \in Devices : Scanning(d)
    BY <2>2, ScansKeepColumns, CalmStays DEF keeping
  <2>3. CASE OrderPdf \/ \E p \in People : RefreshPass(p)
    BY <2>3, OthersCalm
  <2>4. CASE ForwardAges \/ MoveGate \/ UNCHANGED vars
    BY <2>4, CalmStays DEF ForwardAges, MoveGate, keeping, vars
  <2> QED
    BY <2>1, <2>2, <2>3, <2>4 DEF Next
<1>3. CalmInv => EntryOnlyForHolderCalm
  BY DEF CalmInv, OneClerk, OnlyHolderKnows, EntryOnlyForHolderCalm, EntryOnlyForHolder, Busy,
         At, Idle
<1> QED
  BY <1>1, <1>2, <1>3, DoorTyped, PTL DEF Spec

-----------------------------------------------------------------------------
(* The cancellation.  That scanning ends with it is liveness and left to    *)
(* TLC; this is what no step may do: give the ticket back, let              *)
(* another scan through, or move the guest but by a scan that was let       *)
(* through before, which then ends.                                         *)

LetThrough(d, n) == request[d][n].step = "flip"

Final ==
    ticket.status # "active" =>
        /\ ticket'.status # "active"
        /\ \A d \in Devices, n \in Attempts : LetThrough(d, n)' => LetThrough(d, n)
        /\ ticket'.presence # ticket.presence =>
              \E d \in Devices, n \in Attempts : LetThrough(d, n) /\ ~LetThrough(d, n)'

\* A request that is replaced by one that is not let through.
LEMMA NobodyElse ==
  ASSUME TypeOK, NEW d \in Devices, NEW n \in Attempts, NEW r,
         request' = [request EXCEPT ![d][n] = r], r.step # "flip"
  PROVE  /\ ~LetThrough(d, n)'
         /\ \A e \in Devices, m \in Attempts : LetThrough(e, m)' => LetThrough(e, m)
  BY DEF TypeOK, LetThrough

\* The office opens no ticket again and moves nobody.
LEMMA ClerksFinal ==
  ASSUME TypeOK, NEW k \in Clerks, Clerking(k)
  PROVE  Final
<1>1. UNCHANGED request
  BY DEF Clerking, Forward, CountForwards, ChangeHolder, Snapshot, Rotate, LogForward, MailForward,
         OpenEntry, Render, Cancel, RevokeAgain, OpenVoid, Void, Crash, scanning
<1>2. \/ ticket' = ticket
      \/ \E h : ticket' = [ticket EXCEPT !.holder = h]
      \/ \E s : s # "active" /\ ticket' = [ticket EXCEPT !.status = s]
  BY DEF Clerking, Forward, CountForwards, ChangeHolder, Snapshot, Rotate, LogForward, MailForward,
         OpenEntry, Render, Cancel, RevokeAgain, OpenVoid, Void, Crash
<1>3. /\ ticket'.presence = ticket.presence
      /\ ticket.status # "active" => ticket'.status # "active"
  <2>1. CASE ticket' = ticket
    BY <2>1
  <2>2. ASSUME NEW h, ticket' = [ticket EXCEPT !.holder = h]
        PROVE  ticket'.presence = ticket.presence /\ ticket'.status = ticket.status
    BY <2>2, OtherColumns
  <2>3. ASSUME NEW s, s # "active", ticket' = [ticket EXCEPT !.status = s]
        PROVE  ticket'.presence = ticket.presence /\ ticket'.status = s
    BY <2>3, OtherColumns
  <2> QED
    BY <1>2, <2>1, <2>2, <2>3
<1> QED
  BY <1>1, <1>3 DEF Final, LetThrough

\* A scan is let through for a valid ticket only, and moves the guest when it ends.
LEMMA ScansFinal ==
  ASSUME TypeOK, NEW d \in Devices, Scanning(d), ticket.status # "active"
  PROVE  Final
<1>1. ticket'.status # "active"
  BY ScansKeepColumns
<1>2. \A n \in Attempts : request[d][n] \in Request
  BY DEF TypeOK
<1>3. 1 \in Attempts
  BY ConstantsAssumption DEF Attempts
<1>4. ASSUME NEW n \in Attempts, NEW a \in {"in", "out"}, NEW c \in Codes, Send(d, n, a, c)
      PROVE  \A e \in Devices, m \in Attempts : LetThrough(e, m)' => LetThrough(e, m)
  BY <1>4, ScanRecords, NobodyElse DEF Send
<1>5. ASSUME NEW n \in Attempts, NEW a \in {"VALID", "ALREADY", "INVALID"}, Answer(d, n, a)
      PROVE  /\ ~LetThrough(d, n)'
             /\ \A e \in Devices, m \in Attempts : LetThrough(e, m)' => LetThrough(e, m)
  BY <1>5, ScanRecords, NobodyElse DEF Answer
<1>6. ASSUME ticket' = ticket,
             \A e \in Devices, m \in Attempts : LetThrough(e, m)' => LetThrough(e, m)
      PROVE  Final
  BY <1>1, <1>6 DEF Final
<1>7. ASSUME NEW a \in {"in", "out"}, NEW c \in Codes, Scan(d, a, c)
      PROVE  Final
  BY <1>3, <1>4, <1>6, <1>7 DEF Scan
<1>8. ASSUME NEW n \in Attempts, ReadTicket(d, n)
      PROVE  Final
  <2>1. Answer(d, n, "INVALID") \/ Answer(d, n, "ALREADY")
    BY <1>8 DEF ReadTicket, Valid
  <2>2. ticket' = ticket
    BY <1>8 DEF ReadTicket
  <2> QED
    BY <1>5, <1>6, <2>1, <2>2
<1>9. ASSUME NEW n \in Attempts, Flip(d, n)
      PROVE  Final
  <2>1. LetThrough(d, n)
    BY <1>9 DEF Flip, LetThrough
  <2>2. Answer(d, n, "VALID") \/ Answer(d, n, "ALREADY")
    BY <1>9 DEF Flip
  <2>3. /\ ~LetThrough(d, n)'
        /\ \A e \in Devices, m \in Attempts : LetThrough(e, m)' => LetThrough(e, m)
    BY <1>5, <2>2
  <2> QED
    BY <1>1, <2>1, <2>3 DEF Final
<1>10. ASSUME NEW n \in Attempts, Discard(d, n) \/ Dies(d, n)
       PROVE  Final
  BY <1>6, <1>10, ScanRecords, NobodyElse DEF Discard, Dies
<1>11. ASSUME Receive(d)
       PROVE  Final
  <2>1. device[d].attempt \in Attempts
    BY DEF TypeOK, Device
  <2> QED
    BY <1>6, <1>11, <2>1, ScanRecords, NobodyElse DEF Receive
<1>12. ASSUME TimesOut(d)
       PROVE  Final
  <2> DEFINE n == device[d].attempt
  <2>1. n \in Attempts /\ device[d].action \in {"in", "out"} /\ device[d].code \in Codes
    BY DEF TypeOK, Device
  <2>2. n < MaxAttempts => n + 1 \in Attempts
    BY <2>1, ConstantsAssumption DEF Attempts
  <2>3. ticket' = ticket
    BY <1>12 DEF TimesOut
  <2>4. \A e \in Devices, m \in Attempts : LetThrough(e, m)' => LetThrough(e, m)
    BY <1>4, <1>12, <2>1, <2>2 DEF TimesOut, LetThrough
  <2> QED
    BY <1>6, <2>3, <2>4
<1>13. ASSUME Dismiss(d)
       PROVE  Final
  BY <1>6, <1>13 DEF Dismiss, LetThrough
<1> QED
  BY <1>7, <1>8, <1>9, <1>10, <1>11, <1>12, <1>13 DEF Scanning, Serve

\* A cancelled ticket stays so and lets nobody in or out but the scans that had read it
\* before: each moves the guest at most once, and no further one is let through, whatever
\* codes a forward under way still issues.
THEOREM CancelledOpensNothing == Spec => [][Final]_vars
<1>1. TypeOK /\ [Next]_vars => [Final]_vars
  <2> SUFFICES ASSUME TypeOK, Next
               PROVE  Final
    OBVIOUS
  <2>1. CASE \E k \in Clerks : Clerking(k)
    BY <2>1, ClerksFinal
  <2>2. CASE \E d \in Devices : Scanning(d)
    BY <2>2, ScansFinal DEF Final
  <2>3. CASE OrderPdf \/ ForwardAges \/ MoveGate \/ \E p \in People : RefreshPass(p)
    BY <2>3 DEF OrderPdf, ForwardAges, MoveGate, RefreshPass, scanning, Final, LetThrough
  <2> QED
    BY <2>1, <2>2, <2>3 DEF Next
<1> QED
  BY <1>1, DoorTyped, PTL DEF Spec
=============================================================================
