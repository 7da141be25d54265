------------------------------ MODULE SaleGate ------------------------------
(***************************************************************************)
(* The sale status of one event: the staff's buttons and form, the release *)
(* at the start of the presale, and who may buy.  Every staff action reads *)
(* the event, decides, and then writes without a condition; so does the    *)
(* release, which every page view, upload and cron run may start.          *)
(*                                                                         *)
(* The event has a date; presaleEndsAt is set and cleared together with    *)
(* saleClosedEarly and has no variable of its own.                         *)
(***************************************************************************)
EXTENDS Naturals

CONSTANTS
    Clerks,
    Offered,     \* the statuses the form is used with
    Essentials,  \* what an event may lack, of cover, tour and prices
    GateAllow    \* faults that may happen

Statuses == {"draft", "announcement", "presale_active", "published", "paused", "sold_out",
             "cancelled", "completed"}

\* crossed: a write opens what somebody has stopped since it was read.
\* oldform: a form loaded before the event was stopped is saved afterwards.
\* unready: an event that lacks something is saved as sold out, and is only scheduled.
GateFaults == {"crossed", "oldform", "unready"}

ASSUME SaleGateAssumption ==
    /\ Offered \subseteq Statuses /\ Essentials \subseteq {"cover", "tour", "prices"}
    /\ GateAllow \subseteq GateFaults

VARIABLES
    event,     \* the row, and what it lacks for going on sale
    desk,      \* the staff action under way, with what it will write
    editor,    \* the status that the open edit form shows, or "closed"
    releaser,   \* a release has found the event due and will write
    trade,     \* how far a buyer of the first ticket has come
    stops,     \* what the staff has stopped and not opened again
    mishaps    \* faults so far

gateVars == <<event, desk, editor, releaser, trade, stops, mishaps>>

-----------------------------------------------------------------------------
Starts == {"none", "future", "due"}
Befores == {"none", "presale_active", "published"}

Event == [exists: BOOLEAN, status: Statuses, before: Befores,
          start: Starts, lacks: SUBSET Essentials, closed: BOOLEAN]

NoEvent == [exists |-> FALSE, status |-> "draft", before |-> "none", start |-> "none",
            lacks |-> {}, closed |-> FALSE]

\* What will be written: status and before, by a save also start and cover.  seen is the
\* status that was read, will whether the clerk wants to stop or open the sale.
DeskTask == [op: {"status", "save", "close", "reopen", "delete"}, seen: Statuses,
             status: Statuses, before: Befores, start: Starts, covered: BOOLEAN,
             will: {"stop", "open", "keep"}]

Nothing == [op |-> "idle"]

Released(s) == s \in {"presale_active", "published", "sold_out"}
Pausable(s) == s \in {"presale_active", "published"}
Scheduled(s) == s \in {"announcement", "draft"}
Stopping(s) == s \in {"paused", "sold_out", "cancelled", "completed"}

\* effectiveEventStatus without the checks of categories.
Effective(e) ==
    IF Scheduled(e.status) /\ e.start = "due" /\ e.lacks \subseteq {"prices"}
    THEN "presale_active" ELSE e.status

\* isEventSaleOpen
SaleOpen(e) ==
    /\ e.exists /\ ~Stopping(e.status) /\ ~e.closed
    /\ e.lacks \cap {"tour", "cover"} = {}
    /\ Released(Effective(e)) /\ e.start # "future"

\* resolvePersistedEventStatus, with statusAfterPresaleStart.
Persisted(requested, start, lacks) ==
    LET planned == IF requested = "draft" /\ start # "none" THEN "announcement" ELSE requested IN
    IF Released(planned) /\ lacks # {} THEN IF start # "none" THEN "announcement" ELSE "draft"
    ELSE IF Scheduled(planned) /\ start = "due" /\ lacks = {} THEN "presale_active"
    ELSE planned

Blunder(f, happens) ==
    /\ happens => f \in GateAllow
    /\ mishaps' = IF happens THEN mishaps \cup {f} ELSE mishaps

\* A write of `status` opens what has been stopped since it was read.
Crosses(seen, status) == event.status # seen /\ Stopping(event.status) /\ ~Stopping(status)

-----------------------------------------------------------------------------
(* The staff *)

\* createEventFromFormData: the tour is not looked at.
Create(requested, start, lacks) ==
    /\ ~event.exists /\ trade = "none"
    /\ requested \in {"draft", "announcement", "presale_active", "published"}
    /\ Released(requested) => lacks \subseteq {"tour"}
    /\ LET from == IF Released(requested) /\ start = "none" THEN "due" ELSE start IN
       event' = [NoEvent EXCEPT !.exists = TRUE, !.start = from, !.lacks = lacks,
                                !.status = Persisted(requested, from, lacks \ {"tour"})]
    /\ UNCHANGED <<desk, editor, releaser, trade, stops, mishaps>>

Reads(k, op, will, status, before, start, covered) ==
    /\ event.exists /\ desk[k] = Nothing
    /\ desk' = [desk EXCEPT ![k] =
                  [op |-> op, seen |-> event.status, will |-> will, status |-> status,
                   before |-> before, start |-> start, covered |-> covered]]
    /\ UNCHANGED <<event, releaser, trade, stops>>

\* An action that writes status and statusBeforePause only.
Presses(k, will, status, before) ==
    /\ Reads(k, "status", will, status, before, "none", FALSE)
    /\ UNCHANGED <<editor, mishaps>>

\* One that writes no status.
Switches(k, op, will) ==
    /\ Reads(k, op, will, "draft", "none", "none", FALSE)
    /\ UNCHANGED <<editor, mishaps>>

\* pauseEventSalesAction; an event due for release is not displayed as on sale here,
\* because its cover is not read.
Pause(k) == Pausable(event.status) /\ Presses(k, "stop", "paused", event.status)

Resume(k) ==
    /\ event.status = "paused"
    /\ Presses(k, "open", IF Pausable(event.before) THEN event.before ELSE "presale_active", "none")

CloseEarly(k) ==
    /\ event.status \notin {"draft", "cancelled", "completed"} /\ ~event.closed
    /\ Switches(k, "close", "stop")

Reopen(k) == event.closed /\ Switches(k, "reopen", "open")

\* deleteOrCancelEventAction
CancelOrDelete(k) ==
    IF trade = "ticketed" THEN event.status # "cancelled" /\ Presses(k, "stop", "cancelled", "none")
    ELSE Switches(k, "delete", "stop")

OpenForm ==
    /\ event.exists
    /\ editor' = event.status
    /\ UNCHANGED <<event, desk, releaser, trade, stops, mishaps>>

\* updateEventAction up to its write.  The form keeps the status it shows, also when
\* the event changes behind it.
Save(k, requested, start) ==
    LET changed == requested # editor
        begins == Released(requested) /\ ~Released(event.status)
        from == IF begins THEN "due" ELSE start
        status == Persisted(requested, from, event.lacks)
        before == IF status # "paused" THEN "none"
                  ELSE IF event.status = "paused" THEN event.before
                  ELSE IF Pausable(event.status) THEN event.status ELSE "presale_active"
    IN
    /\ editor # "closed"
    /\ begins => event.lacks = {}
    /\ IF requested = "sold_out" THEN Blunder("unready", status # "sold_out")
       ELSE Blunder("oldform", ~changed /\ Stopping(event.status) /\ ~Stopping(requested))
    /\ Reads(k, "save", IF ~changed THEN "keep" ELSE IF Stopping(requested) THEN "stop" ELSE "open",
             status, before, from, "cover" \notin event.lacks)
    /\ editor' = requested

\* Mutant: a save opens an event that was closed early.
WrittenOpen(t) ==
    IF t.op \in {"close", "reopen"} THEN [event EXCEPT !.closed = t.op = "close"]
    ELSE [event EXCEPT !.status = t.status, !.before = t.before, !.closed = @ /\ t.op # "save"]

\* What each action writes of the row; the form writes the cover back as well.
Written(t) ==
    IF t.op \in {"close", "reopen"} THEN [event EXCEPT !.closed = t.op = "close"]
    ELSE LET e == [event EXCEPT !.status = t.status, !.before = t.before] IN
         IF t.op = "status" THEN e
         ELSE [e EXCEPT !.start = t.start,
                        !.lacks = IF t.covered THEN @ \ {"cover"} ELSE @ \cup {"cover"}]

\* The write; it fails if the event is gone.
WriteRow(k) ==
    LET t == desk[k]
        what == IF t.op \in {"close", "reopen"} THEN "closed" ELSE "status" IN
    /\ t # Nothing /\ t.op # "delete"
    /\ desk' = [desk EXCEPT ![k] = Nothing]
    /\ IF event.exists
       THEN /\ Blunder("crossed", what = "status" /\ Crosses(t.seen, t.status))
            /\ event' = Written(t)
            /\ stops' = IF t.will = "stop" THEN stops \cup {what}
                        ELSE IF t.will = "open" THEN stops \ {what} ELSE stops
       ELSE UNCHANGED <<event, stops, mishaps>>
    /\ UNCHANGED <<editor, releaser, trade>>

\* The transaction of a deletion: it fails once there is an order.
Delete(k) ==
    /\ desk[k] # Nothing /\ desk[k].op = "delete"
    /\ desk' = [desk EXCEPT ![k] = Nothing]
    /\ IF event.exists /\ trade \in {"none", "cart"}
       THEN event' = NoEvent /\ trade' = "none" /\ stops' = {} /\ editor' = "closed"
       ELSE UNCHANGED <<event, trade, stops, editor>>
    /\ UNCHANGED <<releaser, mishaps>>

\* Cover, tour and categories have pages of their own.
Change(x) ==
    /\ event.exists
    /\ event' = [event EXCEPT !.lacks = IF x \in @ THEN @ \ {x} ELSE @ \cup {x}]
    /\ UNCHANGED <<desk, editor, releaser, trade, stops, mishaps>>

-----------------------------------------------------------------------------
(* The release: cron, a page view, or after the upload of a cover. *)

Due(e) == e.exists /\ Scheduled(e.status) /\ e.start = "due" /\ e.lacks = {}

ReleaseRead ==
    /\ Due(event) /\ ~releaser
    /\ releaser' = TRUE
    /\ UNCHANGED <<event, desk, editor, trade, stops, mishaps>>

ReleaseWrite ==
    /\ releaser
    /\ releaser' = FALSE
    /\ IF event.exists
       THEN /\ Blunder("crossed", Stopping(event.status))
            /\ event' = [event EXCEPT !.status = "presale_active"]
       ELSE UNCHANGED <<event, mishaps>>
    /\ UNCHANGED <<desk, editor, trade, stops>>

\* The planned start comes, also in a row that is about to be written.
StartComes ==
    LET planned(x) == "start" \in DOMAIN x /\ x.start = "future"
        come(x) == IF planned(x) THEN [x EXCEPT !.start = "due"] ELSE x IN
    /\ planned(event) \/ \E k \in Clerks : planned(desk[k])
    /\ event' = come(event)
    /\ desk' = [k \in Clerks |-> come(desk[k])]
    /\ UNCHANGED <<editor, releaser, trade, stops, mishaps>>

-----------------------------------------------------------------------------
(* Buyers *)

\* addToCart looks at the gate; the checkout and the payment do not.
Buy ==
    /\ \/ trade = "none" /\ SaleOpen(event) /\ "prices" \notin event.lacks /\ trade' = "cart"
       \/ trade = "cart" /\ trade' = "ordered"
       \/ trade = "ordered" /\ trade' = "ticketed"
    /\ UNCHANGED <<event, desk, editor, releaser, stops, mishaps>>

\* The counter looks at the stored status only.
SellAtCounter ==
    /\ event.exists /\ Released(event.status) /\ event.status # "sold_out"
    /\ "prices" \notin event.lacks /\ trade # "ticketed"
    /\ trade' = "ticketed"
    /\ UNCHANGED <<event, desk, editor, releaser, stops, mishaps>>

-----------------------------------------------------------------------------
GateInit ==
    /\ event = NoEvent
    /\ desk = [k \in Clerks |-> Nothing]
    /\ editor = "closed" /\ releaser = FALSE /\ trade = "none" /\ stops = {} /\ mishaps = {}

GateNext ==
    \/ \E s \in Offered, t \in Starts, l \in SUBSET Essentials : Create(s, t, l)
    \/ \E k \in Clerks : Pause(k) \/ Resume(k) \/ CloseEarly(k) \/ Reopen(k) \/ CancelOrDelete(k)
    \/ \E k \in Clerks : WriteRow(k) \/ Delete(k)
    \/ \E k \in Clerks, s \in Offered, t \in Starts : Save(k, s, t)
    \/ OpenForm
    \/ \E x \in Essentials : Change(x)
    \/ ReleaseRead \/ ReleaseWrite \/ StartComes
    \/ Buy \/ SellAtCounter

GateSpec == GateInit /\ [][GateNext]_gateVars

-----------------------------------------------------------------------------
(* Properties *)

\* What the staff has stopped is not for sale in the shop until the staff opens it
\* again, whatever happens to start date, cover and tour meanwhile: an early close
\* holds against every race, a pause or cancellation unless a write crosses it, an
\* old form is saved over it, or it is a "sold out" that the save turned into a plan.
StoppedStaysStopped ==
    ("closed" \in stops \/ (stops # {} /\ mishaps = {})) => ~SaleOpen(event)
=============================================================================
