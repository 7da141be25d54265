----------------------------- MODULE HouseProofs -----------------------------
(***************************************************************************)
(* What holds of the sale gate of an event, of a block of tickets at an    *)
(* agency, and of a payout, for any number of clerks, tickets, requests,   *)
(* balance transactions and importing processes.  The three share nothing; *)
(* each has an inductive invariant, and a theorem for each of its          *)
(* properties.                                                             *)
(***************************************************************************)
EXTENDS SaleGate, Consignment, Payout, FiniteSetTheorems, TLAPS

-----------------------------------------------------------------------------
(* The sale gate: types, and what the actions under way mean to write.       *)

GateTypeOK ==
    /\ event \in Event
    /\ desk \in [Clerks -> DeskTask \cup {Nothing}]
    /\ editor \in Statuses \cup {"closed"}
    /\ stops \subseteq {"status", "closed"}
    /\ mishaps \subseteq GateFaults

\* Closing stops the sale, reopening opens it; the form takes off only a cover that
\* may be missing.
Ordered(t) ==
    /\ t.op = "close" => t.will = "stop"
    /\ t.op = "reopen" => t.will = "open"
    /\ t.op = "save" /\ ~t.covered => "cover" \in Essentials

\* A status that is to stop the sale does; the form of a stopped event, saved with the
\* status that it shows, keeps it stopped.
Honest(t) ==
    t.op \in {"status", "save"} =>
        /\ t.will = "stop" => Stopping(t.status)
        /\ t.will = "keep" /\ Stopping(t.seen) => Stopping(t.status)

GateInv ==
    /\ GateTypeOK
    /\ \A k \in Clerks : desk[k] # Nothing =>
          Ordered(desk[k]) /\ (mishaps = {} => Honest(desk[k]))
    /\ ~event.exists => stops = {}
    /\ "closed" \in stops => event.closed
    /\ mishaps = {} /\ "status" \in stops => Stopping(event.status)

LEMMA NothingIsIdle == Nothing \notin DeskTask /\ Nothing.op = "idle"
  BY DEF Nothing, DeskTask

\* A task that is not idle.
LEMMA TaskTyped ==
  ASSUME GateTypeOK, NEW k \in Clerks, desk[k] # Nothing
  PROVE  desk[k] \in DeskTask /\ desk[k].op \in {"status", "save", "close", "reopen", "delete"}
  BY DEF GateTypeOK, DeskTask

LEMMA BlunderOnly ==
  ASSUME NEW f, NEW happens, Blunder(f, happens), GateTypeOK
  PROVE  /\ mishaps' \subseteq GateFaults /\ mishaps \subseteq mishaps'
         /\ mishaps' = {} => mishaps = {} /\ ~happens
  BY SaleGateAssumption DEF Blunder, GateTypeOK

LEMMA PersistedType ==
  ASSUME NEW requested \in Statuses, NEW start, NEW lacks
  PROVE  Persisted(requested, start, lacks) \in Statuses
  BY DEF Persisted, Statuses, Released, Scheduled

\* What stops the sale is written as it is requested, but for "sold out".
LEMMA StopPersists ==
  ASSUME NEW requested \in Statuses, Stopping(requested), requested # "sold_out",
         NEW start, NEW lacks
  PROVE  Persisted(requested, start, lacks) = requested
  BY DEF Persisted, Stopping, Released, Scheduled

-----------------------------------------------------------------------------
(* A clerk takes up something to write. *)

\* The task is well formed and does what it is meant to.
LEMMA ReadsKeeps ==
  ASSUME GateInv, NEW k \in Clerks, NEW op \in {"status", "save", "close", "reopen", "delete"},
         NEW will \in {"stop", "open", "keep"}, NEW status \in Statuses,
         NEW before \in Befores, NEW start \in Starts, NEW covered \in BOOLEAN,
         Reads(k, op, will, status, before, start, covered),
         editor' \in Statuses \cup {"closed"},
         mishaps' \subseteq GateFaults, mishaps \subseteq mishaps',
         op = "close" => will = "stop",
         op = "reopen" => will = "open",
         op = "save" /\ ~covered => "cover" \in Essentials,
         mishaps' = {} /\ op \in {"status", "save"} =>
           /\ will = "stop" => Stopping(status)
           /\ will = "keep" /\ Stopping(event.status) => Stopping(status)
  PROVE  GateInv'
<1> DEFINE t == [op |-> op, seen |-> event.status, will |-> will, status |-> status,
                 before |-> before, start |-> start, covered |-> covered]
<1>1. event.status \in Statuses
  BY DEF GateInv, GateTypeOK, Event
<1>2. /\ t \in DeskTask /\ t.op = op /\ t.seen = event.status /\ t.will = will
      /\ t.status = status /\ t.covered = covered
  BY <1>1 DEF DeskTask
<1>3. desk' = [desk EXCEPT ![k] = t] /\ UNCHANGED <<event, stops>>
  BY DEF Reads
<1> HIDE DEF t
<1>4. GateTypeOK'
  BY <1>2, <1>3 DEF GateInv, GateTypeOK
<1>5. desk'[k] = t /\ \A j \in Clerks : j # k => desk'[j] = desk[j]
  BY <1>3 DEF GateInv, GateTypeOK
<1>6. Ordered(t) /\ (mishaps' = {} => Honest(t))
  BY <1>2 DEF Ordered, Honest
<1>7. \A j \in Clerks : desk'[j] # Nothing =>
        Ordered(desk'[j]) /\ (mishaps' = {} => Honest(desk'[j]))
  BY <1>5, <1>6 DEF GateInv
<1> QED
  BY <1>3, <1>4, <1>7 DEF GateInv

LEMMA PressesKeeps ==
  ASSUME GateInv, NEW k \in Clerks, NEW will \in {"stop", "open"}, NEW status \in Statuses,
         NEW before \in Befores, Presses(k, will, status, before),
         will = "stop" => Stopping(status)
  PROVE  GateInv'
<1>1. "none" \in Starts
  BY DEF Starts
<1> DEFINE c == FALSE
<1>2. /\ UNCHANGED <<editor, mishaps>> /\ c \in BOOLEAN
      /\ Reads(k, "status", will, status, before, "none", c)
  BY DEF Presses
<1> HIDE DEF c
<1> QED
  BY <1>1, <1>2, ReadsKeeps DEF GateInv, GateTypeOK

LEMMA SwitchesKeeps ==
  ASSUME GateInv, NEW k \in Clerks, NEW op \in {"close", "reopen", "delete"},
         NEW will \in {"stop", "open"}, Switches(k, op, will),
         op = "close" => will = "stop", op = "reopen" => will = "open"
  PROVE  GateInv'
<1>1. "none" \in Starts /\ "none" \in Befores /\ "draft" \in Statuses
  BY DEF Starts, Befores, Statuses
<1> DEFINE c == FALSE
<1>2. /\ UNCHANGED <<editor, mishaps>> /\ c \in BOOLEAN
      /\ Reads(k, op, will, "draft", "none", "none", c)
  BY DEF Switches
<1> HIDE DEF c
<1> QED
  BY <1>1, <1>2, ReadsKeeps DEF GateInv, GateTypeOK

LEMMA ButtonsKeep ==
  ASSUME GateInv, NEW k \in Clerks,
         Pause(k) \/ Resume(k) \/ CloseEarly(k) \/ Reopen(k) \/ CancelOrDelete(k)
  PROVE  GateInv'
<1>1. event.status \in Statuses /\ event.before \in Befores
  BY DEF GateInv, GateTypeOK, Event
<1>2. /\ {"paused", "cancelled", "presale_active", "published"} \subseteq Statuses
      /\ {"none", "presale_active", "published"} = Befores
      /\ Stopping("paused") /\ Stopping("cancelled")
  BY DEF Statuses, Befores, Stopping
<1>3. CASE Pause(k)
  BY <1>1, <1>2, <1>3, PressesKeeps DEF Pause, Pausable
<1>4. CASE Resume(k)
  <2> DEFINE s == IF Pausable(event.before) THEN event.before ELSE "presale_active"
  <2>1. s \in Statuses /\ Presses(k, "open", s, "none")
    BY <1>2, <1>4 DEF Resume, Pausable
  <2> QED
    BY <1>2, <2>1, PressesKeeps
<1>5. CASE CloseEarly(k)
  BY <1>5, SwitchesKeeps DEF CloseEarly
<1>6. CASE Reopen(k)
  BY <1>6, SwitchesKeeps DEF Reopen
<1>7. CASE CancelOrDelete(k)
  BY <1>2, <1>7, PressesKeeps, SwitchesKeeps DEF CancelOrDelete
<1> QED
  BY <1>3, <1>4, <1>5, <1>6, <1>7

LEMMA SaveKeeps ==
  ASSUME GateInv, NEW k \in Clerks, NEW requested \in Offered, NEW start \in Starts,
         Save(k, requested, start)
  PROVE  GateInv'
<1> DEFINE changed == requested # editor
           begins == Released(requested) /\ ~Released(event.status)
           from == IF begins THEN "due" ELSE start
           status == Persisted(requested, from, event.lacks)
           before == IF status # "paused" THEN "none"
                     ELSE IF event.status = "paused" THEN event.before
                     ELSE IF Pausable(event.status) THEN event.status ELSE "presale_active"
           will == IF ~changed THEN "keep" ELSE IF Stopping(requested) THEN "stop" ELSE "open"
           covered == "cover" \notin event.lacks
<1>1. requested \in Statuses /\ event.before \in Befores /\ GateTypeOK
  BY SaleGateAssumption DEF GateInv, GateTypeOK, Event
<1>2. /\ IF requested = "sold_out" THEN Blunder("unready", status # "sold_out")
         ELSE Blunder("oldform", ~changed /\ Stopping(event.status) /\ ~Stopping(requested))
      /\ Reads(k, "save", will, status, before, from, covered)
      /\ editor' = requested
  BY DEF Save
<1>3. /\ mishaps' \subseteq GateFaults /\ mishaps \subseteq mishaps'
      /\ mishaps' = {} => IF requested = "sold_out" THEN status = "sold_out"
                          ELSE ~(~changed /\ Stopping(event.status) /\ ~Stopping(requested))
  BY <1>1, <1>2, BlunderOnly
<1>4. Stopping(requested) /\ requested # "sold_out" => status = requested
  BY <1>1, StopPersists
<1>5. Stopping("sold_out")
  BY DEF Stopping
<1>6. mishaps' = {} => /\ will = "stop" => Stopping(status)
                       /\ will = "keep" /\ Stopping(event.status) => Stopping(status)
  BY <1>3, <1>4, <1>5
<1>7. status \in Statuses
  BY <1>1, PersistedType
<1>8. from \in Starts /\ before \in Befores
  BY <1>1 DEF Starts, Befores, Pausable
<1>9. /\ will \in {"stop", "open", "keep"} /\ covered \in BOOLEAN
      /\ ~covered => "cover" \in Essentials
  BY DEF GateInv, GateTypeOK, Event
<1> HIDE DEF status, from, before, will, covered
<1> QED
  BY <1>1, <1>2, <1>3, <1>6, <1>7, <1>8, <1>9, ReadsKeeps

-----------------------------------------------------------------------------
(* The writes. *)

LEMMA WrittenRow ==
  ASSUME GateTypeOK, NEW k \in Clerks, desk[k] # Nothing, desk[k].op # "delete",
         Ordered(desk[k])
  PROVE  LET t == desk[k]  e == Written(t)
         IN  /\ e \in Event /\ e.exists = event.exists
             /\ t.op \in {"close", "reopen"} =>
                  e.status = event.status /\ (e.closed <=> t.op = "close")
             /\ t.op \in {"status", "save"} =>
                  e.status = t.status /\ (e.closed <=> event.closed)
<1> DEFINE t == desk[k]
<1>1. event \in Event /\ t \in DeskTask /\ t.op \in {"status", "save", "close", "reopen"}
  BY TaskTyped DEF GateTypeOK
<1>4. Ordered(t)
  OBVIOUS
<1> HIDE DEF t
<1>2. CASE t.op \in {"close", "reopen"}
  <2> DEFINE b == t.op = "close"
             e == [event EXCEPT !.closed = b]
  <2>1. Written(t) = e
    BY <1>2 DEF Written
  <2>2. b \in BOOLEAN
    OBVIOUS
  <2> HIDE DEF b
  <2>3. e \in Event /\ e.exists = event.exists /\ e.status = event.status /\ e.closed = b
    BY <1>1, <2>2, Zenon DEF Event
  <2> HIDE DEF e
  <2> QED
    BY <1>2, <2>1, <2>3 DEF b, t
<1>3. CASE t.op \in {"status", "save"}
  <2> DEFINE s == t.status
             b == t.before
             d == [event EXCEPT !.status = s, !.before = b]
             l == IF t.covered THEN d.lacks \ {"cover"} ELSE d.lacks \cup {"cover"}
             f == t.start
             e == [d EXCEPT !.start = f, !.lacks = l]
  <2>1. Written(t) = IF t.op = "status" THEN d ELSE e
    BY <1>3 DEF Written
  <2>2. s \in Statuses /\ b \in Befores /\ f \in Starts
    BY <1>1 DEF DeskTask
  <2> HIDE DEF s, b, f
  <2>3. d \in Event /\ d.exists = event.exists /\ d.status = s /\ d.closed = event.closed
    BY <1>1, <2>2, Zenon DEF Event
  <2> HIDE DEF d
  <2>4. d.lacks \subseteq Essentials
    BY <2>3 DEF Event
  <2>5. t.op = "save" => l \subseteq Essentials
    BY <1>4, <2>4 DEF Ordered
  <2> HIDE DEF l
  <2>6. t.op = "save" =>
          e \in Event /\ e.exists = d.exists /\ e.status = d.status /\ e.closed = d.closed
    BY <2>2, <2>3, <2>5, Zenon DEF Event
  <2> HIDE DEF e
  <2> QED
    BY <1>3, <2>1, <2>3, <2>6 DEF s, t
<1> QED
  BY <1>1, <1>2, <1>3 DEF t

LEMMA WriteRowKeeps ==
  ASSUME GateInv, NEW k \in Clerks, WriteRow(k)
  PROVE  GateInv'
<1> DEFINE t == desk[k]
           what == IF t.op \in {"close", "reopen"} THEN "closed" ELSE "status"
<1>1. /\ t # Nothing /\ t.op # "delete" /\ desk' = [desk EXCEPT ![k] = Nothing]
      /\ UNCHANGED editor
  BY DEF WriteRow
<1>2. /\ GateTypeOK /\ Ordered(t) /\ (mishaps = {} => Honest(t))
      /\ t \in DeskTask /\ t.op \in {"status", "save", "close", "reopen"}
  BY <1>1, TaskTyped DEF GateInv
<1>3. /\ desk' \in [Clerks -> DeskTask \cup {Nothing}]
      /\ \A j \in Clerks : desk'[j] # Nothing => desk'[j] = desk[j]
  BY <1>1, <1>2 DEF GateTypeOK
<1>4. CASE ~event.exists
  <2>1. UNCHANGED <<event, stops, mishaps>>
    BY <1>4 DEF WriteRow
  <2> QED
    BY <1>1, <1>3, <2>1 DEF GateInv, GateTypeOK
<1>5. CASE event.exists
  <2>1. /\ Blunder("crossed", what = "status" /\ Crosses(t.seen, t.status))
        /\ event' = Written(t)
        /\ stops' = IF t.will = "stop" THEN stops \cup {what}
                    ELSE IF t.will = "open" THEN stops \ {what} ELSE stops
    BY <1>5 DEF WriteRow
  <2>2. /\ event' \in Event /\ event'.exists
        /\ t.op \in {"close", "reopen"} =>
             event'.status = event.status /\ (event'.closed <=> t.op = "close")
        /\ t.op \in {"status", "save"} =>
             event'.status = t.status /\ (event'.closed <=> event.closed)
    BY <1>1, <1>2, <1>5, <2>1, WrittenRow
  <2>3. /\ mishaps' \subseteq GateFaults /\ mishaps \subseteq mishaps'
        /\ mishaps' = {} => mishaps = {} /\ ~(what = "status" /\ Crosses(t.seen, t.status))
    BY <1>2, <2>1, BlunderOnly
  <2>4. t.will \in {"stop", "open", "keep"}
    BY <1>2 DEF DeskTask
  <2> HIDE DEF t
  <2>5. GateTypeOK'
    BY <1>1, <1>2, <1>3, <2>1, <2>2, <2>3 DEF GateTypeOK
  <2>6. \A j \in Clerks : desk'[j] # Nothing =>
          Ordered(desk'[j]) /\ (mishaps' = {} => Honest(desk'[j]))
    BY <1>3, <2>3 DEF GateInv
  <2>7. "closed" \in stops' => event'.closed
    BY <1>2, <2>1, <2>2 DEF Ordered, GateInv
  <2>8. ASSUME mishaps' = {}, "status" \in stops' PROVE Stopping(event'.status)
    <3>1. mishaps = {} /\ Honest(t) /\ ~(what = "status" /\ Crosses(t.seen, t.status))
      BY <1>2, <2>3, <2>8
    <3>2. "status" \in stops => Stopping(event.status)
      BY <3>1 DEF GateInv
    <3>3. CASE t.op \in {"close", "reopen"}
      BY <2>1, <2>2, <2>8, <3>2, <3>3
    <3>4. CASE t.op \in {"status", "save"}
      <4>1. what = "status" /\ ~Crosses(t.seen, t.status)
        BY <3>1, <3>4
      <4>2. CASE t.will = "stop"
        BY <2>2, <3>1, <3>4, <4>2 DEF Honest
      <4>3. CASE t.will = "open"
        BY <2>1, <2>8, <4>1, <4>3
      <4>4. CASE t.will = "keep"
        <5>1. Stopping(event.status)
          BY <2>1, <2>8, <3>2, <4>4
        <5> QED
          BY <2>2, <3>1, <3>4, <4>1, <4>4, <5>1 DEF Honest, Crosses
      <4> QED
        BY <2>4, <4>2, <4>3, <4>4
    <3> QED
      BY <1>2, <3>3, <3>4
  <2> QED
    BY <2>2, <2>5, <2>6, <2>7, <2>8 DEF GateInv
<1> QED
  BY <1>4, <1>5

LEMMA DeleteKeeps ==
  ASSUME GateInv, NEW k \in Clerks, Delete(k)
  PROVE  GateInv'
<1>1. desk' = [desk EXCEPT ![k] = Nothing] /\ UNCHANGED mishaps
  BY DEF Delete
<1>2. /\ desk' \in [Clerks -> DeskTask \cup {Nothing}]
      /\ \A j \in Clerks : desk'[j] # Nothing => desk'[j] = desk[j]
  BY <1>1 DEF GateInv, GateTypeOK
<1>3. \A j \in Clerks : desk'[j] # Nothing =>
        Ordered(desk'[j]) /\ (mishaps' = {} => Honest(desk'[j]))
  BY <1>1, <1>2 DEF GateInv
<1>4. CASE event' = NoEvent /\ stops' = {} /\ editor' = "closed"
  <2>1. NoEvent \in Event
    BY DEF NoEvent, Event, Statuses, Befores, Starts
  <2> QED
    BY <1>1, <1>2, <1>3, <1>4, <2>1 DEF GateInv, GateTypeOK
<1>5. CASE UNCHANGED <<event, stops, editor>>
  BY <1>1, <1>2, <1>3, <1>5 DEF GateInv, GateTypeOK
<1> QED
  BY <1>4, <1>5 DEF Delete

\* A step that leaves desk and stops alone and does not reopen the event.
LEMMA RowKeeps ==
  ASSUME GateInv, UNCHANGED <<desk, editor, stops>>,
         mishaps' \subseteq GateFaults, mishaps \subseteq mishaps',
         event' \in Event, ~event'.exists => stops = {},
         stops # {} => /\ event.closed => event'.closed
                       /\ mishaps' = {} /\ Stopping(event.status) => Stopping(event'.status)
  PROVE  GateInv'
  BY DEF GateInv, GateTypeOK

LEMMA CreateKeeps ==
  ASSUME GateInv, NEW requested \in Offered, NEW start \in Starts,
         NEW lacks \in SUBSET Essentials, Create(requested, start, lacks)
  PROVE  GateInv'
<1> DEFINE from == IF Released(requested) /\ start = "none" THEN "due" ELSE start
           s == Persisted(requested, from, lacks \ {"tour"})
           b == TRUE
           e == [NoEvent EXCEPT !.exists = b, !.start = from, !.lacks = lacks, !.status = s]
<1>1. ~event.exists /\ event' = e /\ UNCHANGED <<desk, editor, stops, mishaps>>
  BY DEF Create
<1>2. from \in Starts /\ s \in Statuses /\ b \in BOOLEAN
  BY SaleGateAssumption, PersistedType DEF Starts
<1>3. NoEvent \in Event
  BY DEF NoEvent, Event, Statuses, Befores, Starts
<1> HIDE DEF from, s, b
<1>4. e \in Event
  BY <1>2, <1>3, Zenon DEF Event
<1> QED
  BY <1>1, <1>4, RowKeeps DEF GateInv, GateTypeOK

LEMMA ChangeKeeps ==
  ASSUME GateInv, NEW x \in Essentials, Change(x)
  PROVE  GateInv'
<1> DEFINE l == IF x \in event.lacks THEN event.lacks \ {x} ELSE event.lacks \cup {x}
           e == [event EXCEPT !.lacks = l]
<1>1. event.exists /\ event' = e /\ UNCHANGED <<desk, editor, stops, mishaps>>
  BY DEF Change
<1>2. event \in Event /\ event.lacks \subseteq Essentials
  BY DEF GateInv, GateTypeOK, Event
<1>3. l \subseteq Essentials
  BY <1>2
<1> HIDE DEF l
<1>4. e \in Event /\ e.exists = event.exists /\ e.status = event.status /\ e.closed = event.closed
  BY <1>2, <1>3, Zenon DEF Event
<1> HIDE DEF e
<1> QED
  BY <1>1, <1>4, RowKeeps DEF GateInv, GateTypeOK

LEMMA ReleaseKeeps ==
  ASSUME GateInv, ReleaseWrite
  PROVE  GateInv'
<1>1. CASE ~event.exists
  BY <1>1, RowKeeps DEF ReleaseWrite, GateInv, GateTypeOK
<1>2. CASE event.exists
  <2> DEFINE s == "presale_active"
             e == [event EXCEPT !.status = s]
  <2>1. /\ Blunder("crossed", Stopping(event.status)) /\ event' = e
        /\ UNCHANGED <<desk, editor, stops>>
    BY <1>2 DEF ReleaseWrite
  <2>2. event \in Event /\ s \in Statuses
    BY DEF GateInv, GateTypeOK, Statuses
  <2> HIDE DEF s
  <2>3. e \in Event /\ e.exists = event.exists /\ e.closed = event.closed
    BY <2>2, Zenon DEF Event
  <2>4. /\ mishaps' \subseteq GateFaults /\ mishaps \subseteq mishaps'
        /\ mishaps' = {} => ~Stopping(event.status)
    BY <2>1, BlunderOnly DEF GateInv
  <2> HIDE DEF e
  <2> QED
    BY <1>2, <2>1, <2>3, <2>4, RowKeeps
<1> QED
  BY <1>1, <1>2

LEMMA StartComesKeeps ==
  ASSUME GateInv, StartComes
  PROVE  GateInv'
<1> DEFINE f == "due"
           planned(x) == "start" \in DOMAIN x /\ x.start = "future"
           come(x) == IF planned(x) THEN [x EXCEPT !.start = f] ELSE x
<1>1. /\ event' = come(event) /\ desk' = [k \in Clerks |-> come(desk[k])]
      /\ UNCHANGED <<editor, stops, mishaps>>
  BY DEF StartComes
<1>2. f \in Starts
  BY DEF Starts
<1> HIDE DEF f
<1>3. ASSUME NEW e \in Event
      PROVE  LET d == [e EXCEPT !.start = f]
             IN  d \in Event /\ d.exists = e.exists /\ d.status = e.status /\ d.closed = e.closed
  BY <1>2, Zenon DEF Event
<1>4. ASSUME NEW t \in DeskTask
      PROVE  LET d == [t EXCEPT !.start = f]
             IN  /\ d \in DeskTask /\ d.op = t.op /\ d.seen = t.seen /\ d.will = t.will
                 /\ d.status = t.status /\ d.covered = t.covered
  BY <1>2, Zenon DEF DeskTask
<1>5. event \in Event /\ event' \in {event, [event EXCEPT !.start = f]}
  BY <1>1 DEF GateInv, GateTypeOK
<1>6. /\ event' \in Event /\ event'.exists = event.exists /\ event'.status = event.status
      /\ event'.closed = event.closed
  BY <1>3, <1>5
<1>7. ASSUME NEW k \in Clerks
      PROVE  /\ desk'[k] \in DeskTask \cup {Nothing}
             /\ desk'[k] # Nothing =>
                  Ordered(desk'[k]) /\ (mishaps' = {} => Honest(desk'[k]))
  <2>1. desk[k] \in DeskTask \cup {Nothing} /\ desk'[k] = come(desk[k])
    BY <1>1 DEF GateInv, GateTypeOK
  <2>2. CASE desk[k] = Nothing
    <3>1. "start" \notin DOMAIN Nothing
      BY DEF Nothing
    <3>2. desk'[k] = Nothing
      BY <2>1, <2>2, <3>1
    <3> QED
      BY <3>2
  <2>3. CASE desk[k] # Nothing
    <3> DEFINE t == desk[k]
               d == [t EXCEPT !.start = f]
    <3>1. t \in DeskTask /\ desk'[k] \in {t, d}
      BY <2>1, <2>3
    <3>2. /\ d \in DeskTask /\ d.op = t.op /\ d.seen = t.seen /\ d.will = t.will
          /\ d.status = t.status /\ d.covered = t.covered
      BY <1>4, <3>1
    <3>3. Ordered(t) /\ (mishaps = {} => Honest(t))
      BY <2>3 DEF GateInv
    <3> HIDE DEF d, t
    <3>4. Ordered(d) /\ (mishaps = {} => Honest(d))
      BY <3>2, <3>3 DEF Ordered, Honest
    <3> QED
      BY <1>1, <3>1, <3>2, <3>3, <3>4
  <2> QED
    BY <2>2, <2>3
<1>8. desk' \in [Clerks -> DeskTask \cup {Nothing}]
  BY <1>1, <1>7
<1>9. GateTypeOK'
  BY <1>1, <1>6, <1>8 DEF GateInv, GateTypeOK
<1> QED
  BY <1>1, <1>6, <1>7, <1>9 DEF GateInv

LEMMA GateInvNext == GateInv /\ [GateNext]_gateVars => GateInv'
<1> SUFFICES ASSUME GateInv, [GateNext]_gateVars PROVE GateInv'
  OBVIOUS
<1>1. CASE UNCHANGED gateVars
  BY <1>1 DEF gateVars, GateInv, GateTypeOK
<1>2. CASE OpenForm
  BY <1>2 DEF OpenForm, GateInv, GateTypeOK, Event
<1>3. CASE ReleaseRead \/ Buy \/ SellAtCounter
  BY <1>3 DEF ReleaseRead, Buy, SellAtCounter, GateInv, GateTypeOK
<1> QED
  BY <1>1, <1>2, <1>3, CreateKeeps, ButtonsKeep, WriteRowKeeps, DeleteKeeps, SaveKeeps,
     ChangeKeeps, ReleaseKeeps, StartComesKeeps DEF GateNext

LEMMA GateInvInit == GateInit => GateInv
<1>1. NoEvent \in Event
  BY DEF NoEvent, Event, Statuses, Befores, Starts
<1> QED
  BY <1>1 DEF GateInit, GateInv, GateTypeOK

LEMMA GateInvariant == GateSpec => []GateInv
<1> QED
  BY GateInvInit, GateInvNext, PTL DEF GateSpec

\* An early close holds against every race of staff, release and form; a pause, a
\* cancellation or the end of an event unless a write crosses it, an old form is saved
\* over it, or it was a "sold out" of an event that lacks something.
THEOREM StopHolds == GateSpec => []StoppedStaysStopped
<1>1. GateInv => StoppedStaysStopped
  <2> SUFFICES ASSUME GateInv, "closed" \in stops \/ (stops # {} /\ mishaps = {})
               PROVE  ~SaleOpen(event)
    BY DEF StoppedStaysStopped
  <2> QED
    BY DEF GateInv, GateTypeOK, SaleOpen
<1> QED
  BY <1>1, GateInvariant, PTL

-----------------------------------------------------------------------------
(* The block of tickets: types, and nothing before it is allocated.          *)

Block == [allocated: BOOLEAN, delivered: BOOLEAN, closed: BOOLEAN]

ConsignTypeOK ==
    /\ print \in [Prints -> Printed]
    /\ block \in Block
    /\ stock \in Nat
    /\ request \in [Requests -> Request \cup {NoRequest}]
    /\ \A r \in Voiding : request[r].op \in {"rest", "void"}
    /\ ~block.allocated =>
        /\ ~block.closed /\ \A t \in Prints : print[t].status = "none"
        /\ \A r \in Requests : request[r] = NoRequest

\* A request that will close the order is about all active tickets.
LastIsAll ==
    \A r \in Voiding : request[r].last => Active \subseteq request[r].of

\* One that voids alone has read what is so: it closes the order with the last ticket.
Alone ==
    /\ \A q, r \in Voiding : q = r
    /\ \A r \in Voiding : ~request[r].last => ~(Active \subseteq request[r].of)
    /\ \A r \in Requests : request[r].at = "read" => request[r].of \subseteq Active
    /\ stock = Cardinality(Active)
    /\ block.allocated /\ Active = {} => block.closed

\* Nobody inside has a ticket that is being voided, nobody who bought one of the rest.
Spared ==
    /\ \A r \in Voiding : \A t \in request[r].of : print[t].presence # "in"
    /\ \A r \in Requests : request[r].op = "rest" => \A t \in request[r].of : ~print[t].sold

ConsignInv ==
    /\ ConsignTypeOK
    /\ LastIsAll
    /\ block.closed => Active = {}
    /\ "overlap" \notin slips => Alone
    /\ "sold" \notin slips => Spared

LEMMA SlipsGrow ==
  ASSUME NEW fs, Slips(fs)
  PROVE  slips \subseteq slips' /\ fs \subseteq slips'
  BY DEF Slips

LEMMA ActiveFinite == IsFiniteSet(Active) /\ Cardinality(Active) \in Nat
<1>1. Active \subseteq Prints
  BY DEF Active
<1> QED
  BY <1>1, ConsignmentAssumption, FS_Subset, FS_CardinalityType

LEMMA NoRequestIsNone ==
  NoRequest \notin Request /\ NoRequest.at = "none" /\ NoRequest.op = "none" /\ NoRequest.of = {}
  BY DEF NoRequest, Request

\* A set of tickets gets another status.
Restated(ts, s) ==
    /\ print' \in [Prints -> Printed]
    /\ \A t \in Prints : /\ print'[t].sold = print[t].sold
                         /\ print'[t].presence = print[t].presence
                         /\ print'[t].status = IF t \in ts THEN s ELSE print[t].status

LEMMA StatusWrites ==
  ASSUME ConsignTypeOK, NEW ts, NEW s \in {"none", "active", "voided"},
         print' = [t \in Prints |-> IF t \in ts THEN [print[t] EXCEPT !.status = s] ELSE print[t]]
  PROVE  Restated(ts, s)
<1>1. ASSUME NEW t \in Prints
      PROVE  /\ print'[t] \in Printed
             /\ print'[t].sold = print[t].sold /\ print'[t].presence = print[t].presence
             /\ print'[t].status = IF t \in ts THEN s ELSE print[t].status
  <2>1. print[t] \in Printed
    BY DEF ConsignTypeOK
  <2> DEFINE q == [print[t] EXCEPT !.status = s]
  <2>2. q \in Printed /\ q.status = s /\ q.sold = print[t].sold /\ q.presence = print[t].presence
    BY <2>1, Zenon DEF Printed
  <2> HIDE DEF q
  <2>3. print'[t] = IF t \in ts THEN q ELSE print[t]
    BY DEF q
  <2> QED
    BY <2>1, <2>2, <2>3
<1> QED
  BY <1>1 DEF Restated

\* What a request does to itself.
LEMMA RequestWrites ==
  ASSUME ConsignTypeOK, NEW r \in Requests, NEW q \in Request \cup {NoRequest},
         request' = [request EXCEPT ![r] = q]
  PROVE  /\ request' \in [Requests -> Request \cup {NoRequest}]
         /\ request'[r] = q
         /\ \A p \in Requests : p # r => request'[p] = request[p]
  BY DEF ConsignTypeOK

\* A step that leaves tickets and order alone: the request r goes on to q.
LEMMA RequestKeeps ==
  ASSUME ConsignInv, NEW r \in Requests, NEW q \in Request \cup {NoRequest},
         request' = [request EXCEPT ![r] = q], UNCHANGED <<print, block, stock>>,
         block.allocated, slips \subseteq slips',
         q.at \in {"checked", "read"} =>
           /\ q.op \in {"rest", "void"}
           /\ "overlap" \notin slips' => Voiding \subseteq {r}
           /\ q.last => Active \subseteq q.of
           /\ "overlap" \notin slips' /\ ~q.last => ~(Active \subseteq q.of)
           /\ "overlap" \notin slips' /\ q.at = "read" => q.of \subseteq Active
           /\ "sold" \notin slips' => \A t \in q.of : print[t].presence # "in",
         "sold" \notin slips' /\ q.op = "rest" => \A t \in q.of : ~print[t].sold
  PROVE  ConsignInv'
<1>1. /\ request' \in [Requests -> Request \cup {NoRequest}]
      /\ request'[r] = q
      /\ \A p \in Requests : p # r => request'[p] = request[p]
  BY RequestWrites DEF ConsignInv
<1>2. Active' = Active
  BY DEF Active
<1>3. Voiding' \subseteq Voiding \cup {r} /\ (r \in Voiding' => q.at \in {"checked", "read"})
  BY <1>1 DEF Voiding
<1>4. ConsignTypeOK'
  BY <1>1, <1>3 DEF ConsignInv, ConsignTypeOK, Voiding
<1>5. LastIsAll'
  BY <1>1, <1>2, <1>3 DEF ConsignInv, LastIsAll
<1>6. "overlap" \notin slips' => Alone'
  <2> SUFFICES ASSUME "overlap" \notin slips' PROVE Alone'
    OBVIOUS
  <2>1. Alone
    BY DEF ConsignInv
  <2>2. \A p \in Requests : request'[p].at = "read" => request'[p].of \subseteq Active
    BY <1>1, <2>1 DEF Alone
  <2> QED
    BY <1>1, <1>2, <1>3, <2>1, <2>2 DEF Alone
<1>7. "sold" \notin slips' => Spared'
  BY <1>1, <1>3 DEF ConsignInv, Spared
<1> QED
  BY <1>2, <1>4, <1>5, <1>6, <1>7 DEF ConsignInv

LEMMA Underway ==
  ASSUME ConsignInv, NEW r \in Requests
  PROVE  /\ request[r].op # "none" \/ request[r].at # "none" => block.allocated /\ request[r] \in Request
         /\ \A t \in Active : block.allocated
  BY NoRequestIsNone DEF ConsignInv, ConsignTypeOK, Active

LEMMA BeginKeeps ==
  ASSUME ConsignInv, NEW r \in Requests, NEW q \in Request, Begin(r, q), UNCHANGED slips,
         q.at = "chosen", q.op = "rest" => \A t \in q.of : ~print[t].sold, block.allocated
  PROVE  ConsignInv'
<1>1. request' = [request EXCEPT ![r] = q] /\ UNCHANGED <<print, block, stock>>
  BY DEF Begin
<1>2. q \in Request \cup {NoRequest} /\ q.at \notin {"checked", "read"}
  OBVIOUS
<1> QED
  BY <1>1, <1>2, RequestKeeps

LEMMA ChoiceKeeps ==
  ASSUME ConsignInv, NEW r \in Requests, NEW ts \in SUBSET Prints,
         MarkRead(r, ts) \/ Rest(r) \/ Void(r, ts)
  PROVE  ConsignInv'
<1>1. Active \subseteq Prints /\ Unsold \subseteq Active
  BY DEF Active, Unsold
<1> DEFINE m == [op |-> "mark", at |-> "chosen", of |-> ts \cap Unsold, last |-> FALSE]
           u == [op |-> "rest", at |-> "chosen", of |-> Unsold, last |-> FALSE]
           v == [op |-> "void", at |-> "chosen", of |-> ts, last |-> FALSE]
<1>2. m \in Request /\ u \in Request /\ v \in Request
  BY <1>1 DEF Request
<1>3. /\ m.at = "chosen" /\ u.at = "chosen" /\ v.at = "chosen"
      /\ m.op = "mark" /\ v.op = "void" /\ u.of = Unsold
  OBVIOUS
<1>4. MarkRead(r, ts) => Begin(r, m) /\ UNCHANGED slips /\ ts \cap Unsold # {}
  BY DEF MarkRead
<1>5. Rest(r) => Begin(r, u) /\ UNCHANGED slips /\ Unsold # {}
  BY DEF Rest
<1>6. Void(r, ts) => Begin(r, v) /\ UNCHANGED slips /\ block.allocated
  BY DEF Void
<1> HIDE DEF m, u, v
<1>7. \A t \in Unsold : ~print[t].sold
  BY DEF Unsold
<1>8. block.allocated
  BY <1>1, <1>4, <1>5, <1>6, Underway
<1>9. CASE MarkRead(r, ts)
  BY <1>2, <1>3, <1>4, <1>8, <1>9, BeginKeeps
<1>10. CASE Rest(r)
  BY <1>2, <1>3, <1>5, <1>7, <1>8, <1>10, BeginKeeps
<1>11. CASE Void(r, ts)
  BY <1>2, <1>3, <1>6, <1>8, <1>11, BeginKeeps
<1> QED
  BY <1>9, <1>10, <1>11

LEMMA CheckKeeps ==
  ASSUME ConsignInv, NEW r \in Requests, NEW admin \in BOOLEAN, Check(r, admin)
  PROVE  ConsignInv'
<1>1. /\ request[r].op \in {"rest", "void"} /\ request[r].at = "chosen"
      /\ UNCHANGED <<print, block, stock>>
  BY DEF Check
<1>2. block.allocated /\ request[r] \in Request
  BY <1>1, Underway
<1>3. CASE Refused(request[r].of, admin)
  <2>1. request' = [request EXCEPT ![r] = NoRequest] /\ UNCHANGED slips
    BY <1>3 DEF Check
  <2> QED
    BY <1>1, <1>2, <2>1, NoRequestIsNone, RequestKeeps
<1>4. CASE ~Refused(request[r].of, admin)
  <2> DEFINE at == "checked"
             l == Active \subseteq request[r].of
             q == [request[r] EXCEPT !.at = at, !.last = l]
  <2>1. /\ request' = [request EXCEPT ![r] = q]
        /\ Slips(IF Voiding = {} THEN {} ELSE {"overlap"})
    BY <1>4 DEF Check
  <2>2. /\ at \in {"chosen", "checked", "read"} /\ at = "checked" /\ l \in BOOLEAN
        /\ l <=> Active \subseteq request[r].of
    OBVIOUS
  <2>3. slips \subseteq slips' /\ ("overlap" \notin slips' => Voiding = {})
    BY <2>1, SlipsGrow
  <2> HIDE DEF at, l
  <2>4. /\ q \in Request /\ q.at = at /\ q.op = request[r].op /\ q.of = request[r].of
    BY <1>2, <2>2, Zenon DEF Request
  <2>5. q.last = l
    BY <1>2, <2>2, Zenon DEF Request
  <2>6. q.last <=> Active \subseteq q.of
    BY <2>2, <2>4, <2>5, Zenon
  <2> HIDE DEF q
  <2>7. \A t \in q.of : print[t].presence # "in"
    BY <1>4, <2>4 DEF Refused
  <2>8. q.op = "rest" /\ "sold" \notin slips' => \A t \in q.of : ~print[t].sold
    BY <2>3, <2>4 DEF ConsignInv, Spared
  <2> QED
    BY <1>1, <1>2, <2>1, <2>2, <2>3, <2>4, <2>6, <2>7, <2>8, RequestKeeps
<1> QED
  BY <1>3, <1>4

LEMMA TicketsReadKeeps ==
  ASSUME ConsignInv, NEW r \in Requests, TicketsRead(r)
  PROVE  ConsignInv'
<1> DEFINE at == "read"
           of == request[r].of \cap Active
           q == [request[r] EXCEPT !.at = at, !.of = of]
<1>1. /\ request[r].at = "checked" /\ request' = [request EXCEPT ![r] = q]
      /\ UNCHANGED <<print, block, stock, slips>>
  BY DEF TicketsRead
<1>2. block.allocated /\ request[r] \in Request /\ r \in Voiding
  BY <1>1, Underway DEF Voiding
<1>3. /\ at \in {"chosen", "checked", "read"} /\ at = "read"
      /\ of = request[r].of \cap Active /\ of \subseteq Prints
  BY DEF Active
<1> HIDE DEF at, of
<1>4. q \in Request /\ q.at = at /\ q.op = request[r].op /\ q.of = of
  BY <1>2, <1>3, Zenon DEF Request
<1>5. q.last <=> request[r].last
  BY <1>2, <1>3, Zenon DEF Request
<1> HIDE DEF q
<1>6. request[r].op \in {"rest", "void"}
  BY <1>2 DEF ConsignInv, ConsignTypeOK
<1>7. "overlap" \notin slips' => Voiding \subseteq {r}
  BY <1>1, <1>2 DEF ConsignInv, Alone
<1>8. /\ q.last => Active \subseteq q.of
      /\ "overlap" \notin slips' /\ ~q.last => ~(Active \subseteq q.of)
  BY <1>1, <1>2, <1>3, <1>4, <1>5 DEF ConsignInv, LastIsAll, Alone
<1>9. "sold" \notin slips' =>
        /\ \A t \in q.of : print[t].presence # "in"
        /\ q.op = "rest" => \A t \in q.of : ~print[t].sold
  BY <1>1, <1>2, <1>3, <1>4 DEF ConsignInv, Spared
<1> QED
  BY <1>1, <1>2, <1>3, <1>4, <1>6, <1>7, <1>8, <1>9, RequestKeeps

LEMMA AllocateKeeps ==
  ASSUME ConsignInv, NEW ts \in SUBSET Prints, Allocate(ts)
  PROVE  ConsignInv'
<1> DEFINE b == TRUE
           k == [block EXCEPT !.allocated = b]
<1>1. /\ ~block.allocated /\ ts # {} /\ block' = k
      /\ print' = [t \in Prints |->
                     IF t \in ts THEN [print[t] EXCEPT !.status = "active"] ELSE print[t]]
      /\ stock' = stock + Cardinality(ts) /\ UNCHANGED <<request, slips>>
  BY DEF Allocate
<1>2. block \in Block /\ b \in BOOLEAN /\ b
  BY DEF ConsignInv, ConsignTypeOK
<1> HIDE DEF b
<1>3. k \in Block /\ k.allocated = b /\ k.closed = block.closed
  BY <1>2, Zenon DEF Block
<1> HIDE DEF k
<1>4. Restated(ts, "active")
  BY <1>1, StatusWrites DEF ConsignInv
<1>5. /\ ~block.closed /\ Active = {} /\ Voiding = {} /\ Voiding' = {}
      /\ \A r \in Requests : request[r] = NoRequest
  BY <1>1, NoRequestIsNone DEF ConsignInv, ConsignTypeOK, Active, Voiding
<1>6. Active' = ts
  BY <1>4, <1>5 DEF Restated, Active
<1>7. IsFiniteSet(ts) /\ Cardinality(ts) \in Nat
  BY ConsignmentAssumption, FS_Subset, FS_CardinalityType
<1>8. ConsignTypeOK'
  BY <1>1, <1>2, <1>3, <1>4, <1>5, <1>7 DEF ConsignInv, ConsignTypeOK, Restated
<1>9. "overlap" \notin slips' => Alone'
  <2>1. Cardinality({}) = 0
    BY FS_EmptySet
  <2> QED
    BY <1>1, <1>5, <1>6, <1>7, <2>1, NoRequestIsNone DEF ConsignInv, Alone
<1>10. Spared'
  BY <1>1, <1>5, NoRequestIsNone DEF Spared
<1> QED
  BY <1>1, <1>3, <1>5, <1>8, <1>9, <1>10 DEF ConsignInv, LastIsAll

LEMMA DeliverKeeps ==
  ASSUME ConsignInv, Deliver
  PROVE  ConsignInv'
<1> DEFINE b == TRUE
           k == [block EXCEPT !.delivered = b]
<1>1. block' = k /\ UNCHANGED <<print, stock, request, slips>>
  BY DEF Deliver
<1>2. block \in Block /\ b \in BOOLEAN
  BY DEF ConsignInv, ConsignTypeOK
<1> HIDE DEF b
<1>3. k \in Block /\ k.allocated = block.allocated /\ k.closed = block.closed
  BY <1>2, Zenon DEF Block
<1> HIDE DEF k
<1>4. ConsignTypeOK'
  BY <1>1, <1>3 DEF ConsignInv, ConsignTypeOK, Voiding
<1>5. Active' = Active /\ Voiding' = Voiding
  BY <1>1 DEF Active, Voiding
<1> QED
  BY <1>1, <1>3, <1>4, <1>5 DEF ConsignInv, LastIsAll, Alone, Spared

\* A step that leaves status and order alone, and at most ends a request.
LEMMA TicketKeeps ==
  ASSUME ConsignInv, UNCHANGED <<block, stock>>, slips \subseteq slips',
         print' \in [Prints -> Printed],
         \A t \in Prints : print'[t].status = print[t].status,
         request' \in [Requests -> Request \cup {NoRequest}],
         \A r \in Requests : request'[r] \in {request[r], NoRequest},
         "sold" \notin slips' => Spared'
  PROVE  ConsignInv'
<1>1. Active' = Active /\ Voiding' \subseteq Voiding
      /\ \A r \in Voiding' : request'[r] = request[r]
  BY NoRequestIsNone DEF Active, Voiding
<1>2. ConsignTypeOK'
  BY <1>1 DEF ConsignInv, ConsignTypeOK
<1>3. LastIsAll'
  BY <1>1 DEF ConsignInv, LastIsAll
<1>4. "overlap" \notin slips' => Alone'
  BY <1>1, NoRequestIsNone DEF ConsignInv, Alone
<1> QED
  BY <1>1, <1>2, <1>3, <1>4 DEF ConsignInv

LEMMA MarkWriteKeeps ==
  ASSUME ConsignInv, NEW r \in Requests, MarkWrite(r)
  PROVE  ConsignInv'
<1> DEFINE of == request[r].of
           b == TRUE
<1>1. /\ request[r].op = "mark" /\ UNCHANGED <<block, stock>>
      /\ Slips(IF \E t \in of : TakingBack(t) \/ t \notin Active THEN {"sold"} ELSE {})
      /\ print' = [t \in Prints |-> IF t \in of THEN [print[t] EXCEPT !.sold = b] ELSE print[t]]
      /\ request' = [request EXCEPT ![r] = NoRequest]
  BY DEF MarkWrite
<1>2. b \in BOOLEAN
  OBVIOUS
<1> HIDE DEF b
<1>3. ASSUME NEW t \in Prints
      PROVE  /\ print'[t] \in Printed /\ print'[t].status = print[t].status
             /\ print'[t].presence = print[t].presence
             /\ t \notin of => print'[t] = print[t]
  <2>1. print[t] \in Printed
    BY DEF ConsignInv, ConsignTypeOK
  <2> DEFINE q == [print[t] EXCEPT !.sold = b]
  <2>2. q \in Printed /\ q.status = print[t].status /\ q.presence = print[t].presence
    BY <1>2, <2>1, Zenon DEF Printed
  <2> HIDE DEF q
  <2>3. print'[t] = IF t \in of THEN q ELSE print[t]
    BY <1>1 DEF q
  <2> QED
    BY <2>1, <2>2, <2>3
<1>4. /\ request' \in [Requests -> Request \cup {NoRequest}] /\ request'[r] = NoRequest
      /\ \A p \in Requests : p # r => request'[p] = request[p]
  BY <1>1, RequestWrites DEF ConsignInv
<1>5. slips \subseteq slips' /\ ("sold" \notin slips' => \A t \in of : ~TakingBack(t))
  BY <1>1, SlipsGrow
<1>6. print' \in [Prints -> Printed]
  BY <1>1, <1>3
<1>7. \A p \in Requests : request'[p] \in {request[p], NoRequest}
  BY <1>4
<1>8. \A p \in Requests : request'[p].of \subseteq Prints
  BY <1>4, NoRequestIsNone DEF Request
<1>9. ASSUME "sold" \notin slips' PROVE Spared'
  <2>1. Spared
    BY <1>5, <1>9 DEF ConsignInv
  <2>2. ASSUME NEW p \in Voiding', NEW t \in request'[p].of
        PROVE  print'[t].presence # "in"
    <3>1. p \in Voiding /\ request'[p] = request[p]
      BY <1>7, NoRequestIsNone DEF Voiding
    <3> QED
      BY <1>3, <1>8, <2>1, <3>1 DEF Spared, Voiding
  <2>3. ASSUME NEW p \in Requests, request'[p].op = "rest", NEW t \in request'[p].of
        PROVE  ~print'[t].sold
    <3>1. request'[p] = request[p] /\ TakingBack(t) /\ t \in Prints
      BY <1>7, <1>8, <2>3, NoRequestIsNone DEF TakingBack
    <3>2. print'[t] = print[t]
      BY <1>3, <1>5, <1>9, <3>1
    <3> QED
      BY <2>1, <2>3, <3>1, <3>2 DEF Spared
  <2> QED
    BY <2>2, <2>3 DEF Spared
<1> HIDE DEF of
<1> QED
  BY <1>1, <1>3, <1>4, <1>5, <1>6, <1>7, <1>9, TicketKeeps

LEMMA ScanKeeps ==
  ASSUME ConsignInv, NEW t \in Prints, NEW to \in {"in", "out"}, Scan(t, to)
  PROVE  ConsignInv'
<1> DEFINE q == [print[t] EXCEPT !.presence = to]
<1>1. /\ Slips(IF to = "in" /\ TakingBack(t) THEN {"sold"} ELSE {})
      /\ print' = [print EXCEPT ![t] = q] /\ UNCHANGED <<block, stock, request>>
  BY DEF Scan
<1>2. print[t] \in Printed /\ to \in {"away", "in", "out"}
  BY DEF ConsignInv, ConsignTypeOK
<1>3. q \in Printed /\ q.status = print[t].status /\ q.sold = print[t].sold /\ q.presence = to
  BY <1>2, Zenon DEF Printed
<1> HIDE DEF q
<1>4. /\ print' \in [Prints -> Printed] /\ print'[t] = q
      /\ \A x \in Prints : x # t => print'[x] = print[x]
  BY <1>1, <1>3 DEF ConsignInv, ConsignTypeOK
<1>5. slips \subseteq slips' /\ ("sold" \notin slips' /\ to = "in" => ~TakingBack(t))
  BY <1>1, SlipsGrow
<1>6. \A x \in Prints : print'[x].status = print[x].status /\ (print'[x].sold <=> print[x].sold)
  BY <1>3, <1>4
<1>7. \A r \in Requests : request[r].of \subseteq Prints
  BY NoRequestIsNone DEF ConsignInv, ConsignTypeOK, Request
<1>8. ASSUME "sold" \notin slips' PROVE Spared'
  <2>1. Spared /\ Voiding' = Voiding
    BY <1>1, <1>5, <1>8 DEF ConsignInv, Voiding
  <2>2. \A r \in Requests : request'[r].op = "rest" => \A x \in request'[r].of : ~print'[x].sold
    BY <1>1, <1>6, <1>7, <2>1 DEF Spared
  <2>3. ASSUME NEW r \in Voiding, NEW x \in request[r].of
        PROVE  print'[x].presence # "in"
    <3>1. r \in Requests /\ request[r].op \in {"rest", "void"} /\ x \in Prints
      BY <1>7 DEF ConsignInv, ConsignTypeOK, Voiding
    <3>2. CASE x # t
      BY <1>4, <2>1, <3>1, <3>2 DEF Spared
    <3>3. CASE x = t
      BY <1>3, <1>4, <1>5, <1>8, <3>1, <3>3 DEF TakingBack
    <3> QED
      BY <3>2, <3>3
  <2> QED
    BY <1>1, <2>1, <2>2, <2>3 DEF Spared
<1>9. request' \in [Requests -> Request \cup {NoRequest}]
  BY <1>1 DEF ConsignInv, ConsignTypeOK
<1> QED
  BY <1>1, <1>4, <1>5, <1>6, <1>8, <1>9, TicketKeeps

LEMMA VoidCommitKeeps ==
  ASSUME ConsignInv, NEW r \in Requests, VoidCommit(r)
  PROVE  ConsignInv'
<1> DEFINE of == request[r].of
           l == request[r].last
           c == block.closed \/ l
           k == [block EXCEPT !.closed = c]
           n == Cardinality(of)
<1>1. /\ request[r].at = "read"
      /\ stock' = IF n <= stock THEN stock - n ELSE 0
      /\ print' = [t \in Prints |-> IF t \in of THEN [print[t] EXCEPT !.status = "voided"] ELSE print[t]]
      /\ block' = k
      /\ request' = [request EXCEPT ![r] = NoRequest]
      /\ UNCHANGED slips
  BY DEF VoidCommit
<1>2. block.allocated /\ request[r] \in Request /\ r \in Voiding
  BY <1>1, Underway DEF Voiding
<1>3. block \in Block /\ l \in BOOLEAN /\ of \subseteq Prints
  BY <1>2 DEF ConsignInv, ConsignTypeOK, Request
<1>4. c \in BOOLEAN /\ (c <=> block.closed \/ l)
  OBVIOUS
<1> HIDE DEF c
<1>5. k \in Block /\ k.allocated = block.allocated /\ k.closed = c
  BY <1>3, <1>4, Zenon DEF Block
<1> HIDE DEF k
<1>6. /\ block' \in Block /\ block'.allocated
      /\ block'.closed <=> block.closed \/ l
  BY <1>1, <1>2, <1>4, <1>5, Zenon
<1>7. Restated(of, "voided")
  BY <1>1, StatusWrites DEF ConsignInv
<1>8. Active' = Active \ of
  BY <1>7 DEF Restated, Active
<1>9. /\ request' \in [Requests -> Request \cup {NoRequest}] /\ request'[r] = NoRequest
      /\ \A p \in Requests : p # r => request'[p] = request[p]
  BY <1>1, RequestWrites DEF ConsignInv
<1>10. Voiding' = Voiding \ {r}
  BY <1>9, NoRequestIsNone DEF Voiding
<1>11. IsFiniteSet(of) /\ n \in Nat /\ stock \in Nat
  BY <1>3, ConsignmentAssumption, FS_Subset, FS_CardinalityType DEF ConsignInv, ConsignTypeOK
<1>12. l => Active \subseteq of
  BY <1>2 DEF ConsignInv, LastIsAll
<1> HIDE DEF of, l, n
<1>13. ConsignTypeOK'
  BY <1>1, <1>6, <1>7, <1>9, <1>10, <1>11 DEF ConsignInv, ConsignTypeOK, Restated
<1>14. LastIsAll'
  BY <1>8, <1>9, <1>10 DEF ConsignInv, LastIsAll, Voiding
<1>15. block'.closed => Active' = {}
  BY <1>6, <1>8, <1>12 DEF ConsignInv
<1>16. ASSUME "overlap" \notin slips' PROVE Alone'
  <2>1. Alone
    BY <1>1, <1>16 DEF ConsignInv
  <2>2. Voiding' = {}
    BY <1>2, <1>10, <2>1 DEF Alone
  <2>3. of \subseteq Active /\ (~l => ~(Active \subseteq of))
    BY <1>1, <1>2, <2>1 DEF Alone, of, l
  <2>4. stock = Cardinality(Active) /\ IsFiniteSet(Active)
    BY <2>1, ActiveFinite DEF Alone
  <2>5. Cardinality(Active \ of) = Cardinality(Active) - n
    <3>1. Active \cap of = of
      BY <2>3
    <3> QED
      BY <2>4, <3>1, FS_Difference DEF n
  <2>6. n <= Cardinality(Active)
    BY <2>3, <2>4, FS_Subset DEF n
  <2>7. stock' = Cardinality(Active')
    BY <1>1, <1>8, <2>4, <2>5, <2>6
  <2>8. \A p \in Requests : request'[p].at # "read"
    BY <2>2 DEF Voiding
  <2>9. Active' = {} => block'.closed
    BY <1>6, <1>8, <2>3
  <2> QED
    BY <2>2, <2>7, <2>8, <2>9 DEF Alone
<1>17. ASSUME "sold" \notin slips' PROVE Spared'
  <2>1. Spared
    BY <1>1, <1>17 DEF ConsignInv
  <2>2. \A p \in Requests : request'[p].of \subseteq Prints
    BY <1>9, NoRequestIsNone DEF Request
  <2>3. \A t \in Prints : print'[t].presence = print[t].presence
                            /\ (print'[t].sold <=> print[t].sold)
    BY <1>7 DEF Restated
  <2>4. \A p \in Requests : request'[p] \in {request[p], NoRequest}
    BY <1>9
  <2> QED
    BY <1>9, <1>10, <2>1, <2>2, <2>3, <2>4, NoRequestIsNone DEF Spared, Voiding
<1> QED
  BY <1>13, <1>14, <1>15, <1>16, <1>17 DEF ConsignInv

LEMMA ConsignInvNext == ConsignInv /\ [ConsignNext]_consignVars => ConsignInv'
<1> SUFFICES ASSUME ConsignInv, [ConsignNext]_consignVars PROVE ConsignInv'
  OBVIOUS
<1>1. CASE UNCHANGED consignVars
  BY <1>1 DEF consignVars, ConsignInv, ConsignTypeOK, LastIsAll, Alone, Spared, Active, Voiding
<1> QED
  BY <1>1, AllocateKeeps, DeliverKeeps, ChoiceKeeps, CheckKeeps, MarkWriteKeeps, TicketsReadKeeps,
     VoidCommitKeeps, ScanKeeps DEF ConsignNext

LEMMA ConsignInvInit == ConsignInit => ConsignInv
<1> SUFFICES ASSUME ConsignInit PROVE ConsignInv
  OBVIOUS
<1>1. Active = {} /\ Voiding = {} /\ Cardinality({}) = 0
  BY FS_EmptySet, NoRequestIsNone DEF ConsignInit, Active, Voiding
<1>2. ConsignTypeOK
  BY <1>1 DEF ConsignInit, ConsignTypeOK, Printed, Block
<1> QED
  BY <1>1, <1>2, NoRequestIsNone DEF ConsignInit, ConsignInv, LastIsAll, Alone, Spared

LEMMA ConsignInvariant == ConsignSpec => []ConsignInv
<1> QED
  BY ConsignInvInit, ConsignInvNext, PTL DEF ConsignSpec

\* A closed block never has an active ticket; and while no two requests void at once,
\* it counts in the pool for exactly its active tickets and is closed with the last.
THEOREM StockFollowsBlock == ConsignSpec => []StockIsOut
<1>1. ConsignInv => StockIsOut
  <2> SUFFICES ASSUME ConsignInv PROVE StockIsOut
    OBVIOUS
  <2>1. block.closed \in BOOLEAN /\ (~block.allocated => ~block.closed)
    BY DEF ConsignInv, ConsignTypeOK, Block
  <2>2. block.closed => Active = {}
    BY DEF ConsignInv
  <2>3. "overlap" \notin slips =>
          stock = Cardinality(Active) /\ (block.allocated /\ Active = {} => block.closed)
    BY DEF ConsignInv, Alone
  <2>4. "overlap" \notin slips => block.closed = (block.allocated /\ Active = {})
    BY <2>1, <2>2, <2>3, Zenon
  <2> QED
    BY <2>2, <2>3, <2>4 DEF StockIsOut
<1> QED
  BY <1>1, ConsignInvariant, PTL

\* Only a request that asks for the ticket voids a sold one, and none that of a guest
\* who is inside, unless it was sold or scanned while the request was under way.
THEOREM SoldTicketsStay == ConsignSpec => BuyersKeepTickets
<1> DEFINE Fair == \A t \in Prints :
                     ~Lost(t) /\ Lost(t)' =>
                       \/ "sold" \in slips'
                       \/ /\ print'[t].presence # "in"
                          /\ \E r \in Requests : request[r].op = "void" /\ t \in request[r].of
<1>1. ConsignInv /\ [ConsignNext]_consignVars => [Fair]_consignVars
  <2> SUFFICES ASSUME ConsignInv, ConsignNext, NEW t \in Prints, ~Lost(t), Lost(t)',
                      "sold" \notin slips'
               PROVE  /\ print'[t].presence # "in"
                      /\ \E r \in Requests : request[r].op = "void" /\ t \in request[r].of
    OBVIOUS
  <2>1. print[t] \in Printed
    BY DEF ConsignInv, ConsignTypeOK
  <2>2. print'[t] # print[t]
    BY DEF Lost
  <2>3. ASSUME NEW ts \in SUBSET Prints, Allocate(ts) PROVE FALSE
    <3>1. Restated(ts, "active")
      BY <2>3, StatusWrites DEF Allocate, ConsignInv
    <3> QED
      BY <3>1 DEF Restated, Lost
  <2>4. ASSUME NEW r \in Requests, MarkWrite(r) PROVE FALSE
    <3> DEFINE b == TRUE
               q == [print[t] EXCEPT !.sold = b]
    <3>1. print'[t] = IF t \in request[r].of THEN q ELSE print[t]
      BY <2>4 DEF MarkWrite
    <3>2. t \in request[r].of => t \in Active
      BY <2>4, SlipsGrow DEF MarkWrite
    <3>3. b \in BOOLEAN
      OBVIOUS
    <3> HIDE DEF b
    <3>4. q.status = print[t].status
      BY <2>1, <3>3, Zenon DEF Printed
    <3> HIDE DEF q
    <3> QED
      BY <2>2, <3>1, <3>2, <3>4 DEF Active, Lost
  <2>5. ASSUME NEW x \in Prints, NEW to \in {"in", "out"}, Scan(x, to) PROVE FALSE
    <3> DEFINE q == [print[x] EXCEPT !.presence = to]
    <3>1. print[x].status = "active" /\ print' = [print EXCEPT ![x] = q]
      BY <2>5 DEF Scan
    <3>2. q.status = "active"
      BY <2>5, <3>1 DEF ConsignInv, ConsignTypeOK, Printed
    <3> HIDE DEF q
    <3> QED
      BY <2>2, <3>1, <3>2 DEF ConsignInv, ConsignTypeOK, Lost
  <2>6. ASSUME NEW r \in Requests, VoidCommit(r)
        PROVE  print'[t].presence # "in" /\ request[r].op = "void" /\ t \in request[r].of
    <3>1. Restated(request[r].of, "voided")
      BY <2>6, StatusWrites DEF VoidCommit, ConsignInv
    <3>2. t \in request[r].of
      BY <3>1 DEF Restated, Lost
    <3>3. r \in Voiding /\ Spared
      BY <2>6 DEF VoidCommit, Voiding, ConsignInv
    <3> QED
      BY <3>1, <3>2, <3>3 DEF Restated, Lost, Spared, ConsignInv, ConsignTypeOK
  <2>7. ASSUME NEW r \in Requests, Rest(r) \/ TicketsRead(r) PROVE FALSE
    BY <2>2, <2>7 DEF Rest, TicketsRead, Begin
  <2>8. ASSUME NEW r \in Requests, NEW ts, MarkRead(r, ts) \/ Void(r, ts) \/ Check(r, ts) PROVE FALSE
    BY <2>2, <2>8 DEF MarkRead, Void, Check, Begin
  <2>9. CASE Deliver
    BY <2>2, <2>9 DEF Deliver
  <2> QED
    BY <2>3, <2>4, <2>5, <2>6, <2>7, <2>8, <2>9 DEF ConsignNext
<1> QED
  BY <1>1, ConsignInvariant, PTL DEF ConsignSpec, BuyersKeepTickets

-----------------------------------------------------------------------------
(* The payout: types, and nothing before Stripe has announced it.            *)

Remote == [status: RemoteStatus \cup {"none"}, listed: SUBSET Entries, linked: SUBSET Entries]

PayoutTypeOK ==
    /\ remote \in Remote
    /\ notices \subseteq RemoteStatus
    /\ payout \in PayoutRow
    /\ entry \in [Entries -> {"absent", "unmapped", "mapped", "manual"}]
    /\ import \in [Importers -> ImportTask \cup {Resting}]
    /\ notary \subseteq DocumentTypes
    /\ papers \in [DocumentTypes -> [count: {0, 1, 2}, sound: BOOLEAN]]
    /\ told \in BOOLEAN
    /\ remote.status = "none" =>
         /\ notices = {} /\ ~payout.exists /\ Importing = {}
         /\ \A e \in Entries : entry[e] = "absent"

Solid == Sums(Stored) = PaidOut

\* A failure that was written is Stripe's last word.
FailureKnown ==
    "late" \notin lapses /\ told => remote.status = "failed" /\ payout.status = "failed"

\* What is reconciled, or about to be, balances.
Verdicts ==
    /\ payout.recon = "reconciled" => Solid
    /\ \A w \in Importers : import[w].at = "conclude" /\ import[w].result = "reconciled" => Solid

Midway(q) == q.at \in {"answered", "store", "judge", "conclude"}

OneImport ==
    /\ \A v, w \in Importing : v = w
    /\ \A w \in Importers : Midway(import[w]) => payout.recon # "reconciled"

\* While documents are built, the books rest.
BooksRest ==
    /\ Importing = {}
    /\ payout.recon = "reconciled" /\ payout.status # "failed" /\ Unmapped = {}

PayoutInv ==
    /\ PayoutTypeOK
    /\ FailureKnown
    /\ ("overlap" \in lapses => NoPartBalances) => Verdicts
    /\ "overlap" \notin lapses => OneImport
    /\ "crossed" \notin lapses /\ notary # {} => BooksRest
    /\ "twice" \notin lapses => \A d \in notary : papers[d].count = 0
    /\ DocumentsShowBalance

LEMMA SlipGrows ==
  ASSUME NEW fs, Slip(fs)
  PROVE  lapses \subseteq lapses' /\ fs \subseteq lapses'
  BY DEF Slip

LEMMA RestingIsIdle == Resting.at = "idle" /\ Resting \notin ImportTask
  BY DEF Resting, ImportTask

\* A status is written to the row.
LEMMA UpsertWrites ==
  ASSUME PayoutTypeOK, NEW s \in RemoteStatus, Upsert(s)
  PROVE  /\ payout' \in PayoutRow /\ payout'.exists /\ payout'.status = s
         /\ payout'.recon = IF s = "failed" THEN "payout_failed" ELSE payout.recon
         /\ told' \in BOOLEAN /\ (told' <=> told \/ s = "failed")
<1> DEFINE b == TRUE
           r == IF s = "failed" THEN "payout_failed" ELSE payout.recon
           q == [payout EXCEPT !.exists = b, !.status = s, !.recon = r]
<1>1. payout \in PayoutRow /\ b \in BOOLEAN /\ b
  BY DEF PayoutTypeOK
<1>2. r \in Recon
  BY <1>1 DEF PayoutRow, Recon
<1>3. payout' = q /\ (told' <=> told \/ s = "failed") /\ told' \in BOOLEAN
  BY DEF Upsert, Upserted, PayoutTypeOK
<1> HIDE DEF b, r
<1>4. q \in PayoutRow /\ q.status = s /\ q.recon = r /\ q.exists = b
  BY <1>1, <1>2, Zenon DEF PayoutRow
<1> QED
  BY <1>1, <1>3, <1>4 DEF r

\* What one process does to its own task.
LEMMA TaskWrites ==
  ASSUME PayoutTypeOK, NEW w \in Importers, NEW q \in ImportTask \cup {Resting},
         import' = [import EXCEPT ![w] = q]
  PROVE  /\ import' \in [Importers -> ImportTask \cup {Resting}]
         /\ import'[w] = q
         /\ \A v \in Importers : v # w => import'[v] = import[v]
  BY DEF PayoutTypeOK

\* The records of all tasks, a resting one included.
Ats == {"listed", "begin", "answered", "store", "judge", "conclude"}
AnyTask == [at: Ats \cup {"idle"}, notice: RemoteStatus \cup {"none"},
            status: RemoteStatus, result: Recon]

LEMMA TaskIsAny ==
  ASSUME PayoutTypeOK, NEW w \in Importers
  PROVE  import[w] \in AnyTask
<1>1. import[w] \in ImportTask \cup {Resting}
  BY DEF PayoutTypeOK
<1> QED
  BY <1>1 DEF ImportTask, AnyTask, Ats, Resting, RemoteStatus, Recon

LEMMA MovesTask ==
  ASSUME PayoutTypeOK, NEW w \in Importers, NEW at \in Ats, Moves(w, at)
  PROVE  /\ import' \in [Importers -> ImportTask \cup {Resting}]
         /\ import'[w].at = at
         /\ \A v \in Importers : v # w => import'[v] = import[v]
<1> DEFINE q == [import[w] EXCEPT !.at = at]
<1>1. import' = [import EXCEPT ![w] = q]
  BY DEF Moves
<1>2. import[w] \in AnyTask
  BY TaskIsAny
<1>3. q \in ImportTask /\ q.at = at
  BY <1>2, Zenon DEF AnyTask, ImportTask, Ats
<1> HIDE DEF q
<1> QED
  BY <1>1, <1>3, TaskWrites

-----------------------------------------------------------------------------
(* What a step of an importing process does, in one formula for all of them. *)

ImportStep(w) ==
    /\ PayoutTypeOK'
    /\ lapses \subseteq lapses'
    /\ \A v \in Importers : v # w => import'[v] = import[v]
    /\ import[w] = Resting => Crowd \subseteq lapses'
    /\ payout'.recon = "reconciled" =>
         \/ payout.recon = "reconciled"
         \/ import[w].at = "conclude" /\ import[w].result = "reconciled" /\ import'[w] = Resting
    /\ Midway(import'[w]) /\ payout'.recon = "reconciled" =>
         Midway(import[w]) /\ payout.recon = "reconciled"
    /\ import'[w].at = "conclude" /\ import'[w].result = "reconciled" => Solid
    /\ \/ Stored' = Stored
       \/ /\ import[w].at = "store" /\ import'[w].at = "judge" /\ UNCHANGED payout
          /\ Stored \subseteq Stored'
    /\ FailureKnown => FailureKnown'
    /\ UNCHANGED <<notary, papers>>

LEMMA VerdictIsSound == Verdict \in Recon /\ (Verdict = "reconciled" => Solid)
  BY DEF Verdict, Recon, Solid

LEMMA UpsertKnows ==
  ASSUME PayoutTypeOK, NEW s \in RemoteStatus, Upsert(s), NEW fs,
         Slip(Stale(s) \cup fs), UNCHANGED remote, FailureKnown
  PROVE  FailureKnown'
<1>1. lapses \subseteq lapses' /\ ("late" \notin lapses' => s = remote.status)
  BY SlipGrows DEF Stale
<1> QED
  BY <1>1, UpsertWrites DEF FailureKnown

LEMMA KnowledgeKept ==
  ASSUME FailureKnown, lapses \subseteq lapses', UNCHANGED <<remote, told>>,
         payout'.status = payout.status
  PROVE  FailureKnown'
  BY DEF FailureKnown

LEMMA LapsesType ==
  ASSUME PayoutTypeOK, import' \in [Importers -> ImportTask \cup {Resting}],
         remote' = remote, notary' = notary, papers' = papers,
         notices' \subseteq RemoteStatus, payout' \in PayoutRow,
         entry' \in [Entries -> {"absent", "unmapped", "mapped", "manual"}],
         told' \in BOOLEAN, remote.status # "none"
  PROVE  PayoutTypeOK'
  BY DEF PayoutTypeOK

LEMMA Announced ==
  ASSUME PayoutTypeOK
  PROVE  /\ \A w \in Importers : import[w] # Resting => remote.status # "none"
         /\ \A n \in notices : remote.status # "none"
         /\ payout.exists => remote.status # "none"
         /\ \A e \in Entries : entry[e] # "absent" => remote.status # "none"
  BY DEF PayoutTypeOK, Importing

\* Not midway at its beginning, and without a verdict.
LEMMA Starting ==
  ASSUME NEW q, q = Resting \/ q.at \in {"listed", "begin"}
  PROVE  ~Midway(q) /\ q.at # "conclude"
  BY RestingIsIdle DEF Midway

LEMMA WebhookImports ==
  ASSUME PayoutTypeOK, NEW w \in Importers, NEW n \in notices, Webhook(w, n)
  PROVE  ImportStep(w)
<1>1. /\ import[w] = Resting /\ Slip(Stale(n) \cup Crowd) /\ Upsert(n) /\ n \in RemoteStatus
      /\ notices' = notices \ {n}
      /\ UNCHANGED <<remote, entry, notary, papers>>
  BY DEF Webhook, PayoutTypeOK
<1>2. lapses \subseteq lapses' /\ Crowd \subseteq lapses'
  BY <1>1, SlipGrows
<1>3. /\ import' \in [Importers -> ImportTask \cup {Resting}]
      /\ \A v \in Importers : v # w => import'[v] = import[v]
      /\ import'[w] = Resting \/ import'[w].at = "begin"
  <2>1. CASE n = "paid"
    <3> DEFINE at == "begin"
               q == [import[w] EXCEPT !.at = at, !.notice = n]
    <3>1. import' = [import EXCEPT ![w] = q]
      BY <2>1 DEF Webhook
    <3>2. import[w] \in AnyTask /\ at \in Ats /\ at = "begin"
      BY TaskIsAny DEF Ats
    <3> HIDE DEF at
    <3>4. q \in ImportTask /\ q.at = at
      BY <1>1, <3>2, Zenon DEF AnyTask, ImportTask, Ats
    <3> HIDE DEF q
    <3> QED
      BY <3>1, <3>2, <3>4, TaskWrites
  <2>2. CASE n # "paid"
    BY <1>1, <2>2 DEF Webhook, PayoutTypeOK
  <2> QED
    BY <2>1, <2>2
<1>4. PayoutTypeOK'
  <2>1. remote.status # "none"
    BY Announced
  <2>2. notices' \subseteq RemoteStatus /\ entry' = entry
    BY <1>1 DEF PayoutTypeOK
  <2> QED
    BY <1>1, <1>3, <2>1, <2>2, UpsertWrites, LapsesType DEF PayoutTypeOK
<1>5. payout'.recon = "reconciled" => payout.recon = "reconciled"
  BY <1>1, UpsertWrites
<1>6. ~Midway(import'[w]) /\ import'[w].at # "conclude"
  BY <1>3, Starting
<1>7. FailureKnown => FailureKnown'
  BY <1>1, UpsertKnows
<1>8. Stored' = Stored
  BY <1>1 DEF Stored
<1> QED
  BY <1>1, <1>2, <1>3, <1>4, <1>5, <1>6, <1>7, <1>8 DEF ImportStep

LEMMA DailyAskImports ==
  ASSUME PayoutTypeOK, NEW w \in Importers, DailyAsk(w)
  PROVE  ImportStep(w)
<1> DEFINE at == "listed"
           s == remote.status
           q == [import[w] EXCEPT !.at = at, !.status = s]
<1>1. /\ import[w] = Resting /\ Slip(Crowd) /\ remote.status # "none"
      /\ import' = [import EXCEPT ![w] = q]
      /\ UNCHANGED <<remote, notices, payout, entry, notary, papers, told>>
  BY DEF DailyAsk
<1>2. lapses \subseteq lapses' /\ Crowd \subseteq lapses'
  BY <1>1, SlipGrows
<1>3. import[w] \in AnyTask /\ at \in Ats /\ at = "listed" /\ s \in RemoteStatus
  BY <1>1, TaskIsAny DEF Ats, PayoutTypeOK, Remote
<1> HIDE DEF at, s
<1>4. q \in ImportTask /\ q.at = at
  BY <1>3, Zenon DEF AnyTask, ImportTask, Ats
<1> HIDE DEF q
<1>5. /\ import' \in [Importers -> ImportTask \cup {Resting}]
      /\ \A v \in Importers : v # w => import'[v] = import[v]
      /\ import'[w].at = "listed"
  BY <1>1, <1>3, <1>4, TaskWrites
<1>6. PayoutTypeOK'
  BY <1>1, <1>5, LapsesType DEF PayoutTypeOK
<1>7. ~Midway(import'[w]) /\ import'[w].at # "conclude"
  BY <1>5, Starting
<1>8. Stored' = Stored
  BY <1>1 DEF Stored
<1> QED
  BY <1>1, <1>2, <1>5, <1>6, <1>7, <1>8, KnowledgeKept DEF ImportStep

LEMMA DailyUpsertImports ==
  ASSUME PayoutTypeOK, NEW w \in Importers, DailyUpsert(w)
  PROVE  ImportStep(w)
<1> DEFINE s == import[w].status
           at == "begin"
           r == [Resting EXCEPT !.at = at]
           q == IF payout.recon # "reconciled" \/ ~payout.complete \/ payout.error
                THEN r ELSE Resting
<1>1. /\ import[w].at = "listed" /\ Slip(Stale(s)) /\ Upsert(s)
      /\ import' = [import EXCEPT ![w] = q]
      /\ UNCHANGED <<remote, notices, entry, notary, papers>>
  BY DEF DailyUpsert
<1>2. import[w] # Resting /\ s \in RemoteStatus /\ remote.status # "none"
  BY <1>1, RestingIsIdle, TaskIsAny, Announced DEF AnyTask
<1>3. at = "begin" /\ at \in Ats
  BY DEF Ats
<1> HIDE DEF at, s
<1>4. r \in ImportTask /\ r.at = at
  BY <1>3 DEF Resting, ImportTask, Ats, RemoteStatus, Recon
<1> HIDE DEF r
<1>5. /\ import' \in [Importers -> ImportTask \cup {Resting}]
      /\ \A v \in Importers : v # w => import'[v] = import[v]
      /\ import'[w] = Resting \/ import'[w].at = "begin"
  BY <1>1, <1>3, <1>4, TaskWrites
<1>6. Slip(Stale(s) \cup {}) /\ lapses \subseteq lapses'
  BY <1>1, SlipGrows DEF Slip
<1>7. PayoutTypeOK'
  BY <1>1, <1>2, <1>5, UpsertWrites, LapsesType DEF PayoutTypeOK
<1>8. ~Midway(import'[w]) /\ import'[w].at # "conclude"
  BY <1>5, Starting
<1>9. payout'.recon = "reconciled" => payout.recon = "reconciled"
  BY <1>1, <1>2, UpsertWrites
<1>10. FailureKnown => FailureKnown'
  BY <1>1, <1>2, <1>6, UpsertKnows
<1>11. Stored' = Stored
  BY <1>1 DEF Stored
<1> QED
  BY <1>1, <1>2, <1>5, <1>6, <1>7, <1>8, <1>9, <1>10, <1>11 DEF ImportStep

\* What has been stored stays, also when its order is set by hand.
LEMMA SyncImports ==
  ASSUME PayoutTypeOK, NEW w \in Importers, Sync(w) \/ \E e \in Entries : MapOrder(w, e)
  PROVE  ImportStep(w)
<1>1. /\ import[w] = Resting /\ Slip(Crowd) /\ Moves(w, "begin")
      /\ UNCHANGED <<remote, notices, payout, notary, papers, told>>
  BY DEF Sync, MapOrder
<1>2. lapses \subseteq lapses' /\ Crowd \subseteq lapses'
  BY <1>1, SlipGrows
<1> DEFINE Kept == /\ entry' \in [Entries -> {"absent", "unmapped", "mapped", "manual"}]
                   /\ Stored' = Stored /\ remote.status # "none"
<1>3. "begin" \in Ats
  BY DEF Ats
<1>4. /\ import' \in [Importers -> ImportTask \cup {Resting}]
      /\ \A v \in Importers : v # w => import'[v] = import[v]
      /\ import'[w].at = "begin"
  BY <1>1, <1>3, MovesTask
<1>5. Kept
  <2>1. CASE Sync(w)
    BY <2>1, Announced DEF Sync, PayoutTypeOK, Stored
  <2>2. ASSUME NEW e \in Entries, MapOrder(w, e)
        PROVE  Kept
    <3>1. entry' = [entry EXCEPT ![e] = "manual"] /\ entry[e] = "unmapped"
      BY <2>2 DEF MapOrder, Unmapped
    <3> QED
      BY <3>1, Announced DEF PayoutTypeOK, Stored
  <2> QED
    BY <2>1, <2>2
<1>6. PayoutTypeOK'
  BY <1>1, <1>4, <1>5, LapsesType DEF PayoutTypeOK
<1>7. ~Midway(import'[w]) /\ import'[w].at # "conclude"
  BY <1>4, Starting
<1> QED
  BY <1>1, <1>2, <1>4, <1>5, <1>6, <1>7, KnowledgeKept DEF ImportStep

LEMMA StartImports ==
  ASSUME PayoutTypeOK, NEW w \in Importers, StartImport(w)
  PROVE  ImportStep(w)
<1> DEFINE at == "answered"
           s == remote.status
           q == [import[w] EXCEPT !.at = at, !.status = s]
           r == "importing"
           b == FALSE
           p == [payout EXCEPT !.recon = r, !.error = b]
<1>1. /\ import[w].at = "begin" /\ payout' = p /\ import' = [import EXCEPT ![w] = q]
      /\ UNCHANGED <<remote, notices, entry, notary, papers, told, lapses>>
  BY DEF StartImport
<1>2. import[w] # Resting /\ remote.status # "none"
  BY <1>1, RestingIsIdle, Announced
<1>3. /\ import[w] \in AnyTask /\ payout \in PayoutRow
      /\ at \in Ats /\ at = "answered" /\ s \in RemoteStatus /\ b \in BOOLEAN
      /\ r \in Recon /\ r # "reconciled"
  BY <1>2, TaskIsAny DEF Ats, PayoutTypeOK, Remote, Recon
<1> HIDE DEF at, s, r, b
<1>4. q \in ImportTask /\ q.at = at
  BY <1>3, Zenon DEF AnyTask, ImportTask, Ats
<1>5. p \in PayoutRow /\ p.status = payout.status /\ p.recon = r
  BY <1>3, Zenon DEF PayoutRow
<1> HIDE DEF q, p
<1>6. /\ import' \in [Importers -> ImportTask \cup {Resting}]
      /\ \A v \in Importers : v # w => import'[v] = import[v]
      /\ import'[w].at = "answered"
  BY <1>1, <1>3, <1>4, TaskWrites
<1>7. PayoutTypeOK'
  BY <1>1, <1>2, <1>5, <1>6, LapsesType DEF PayoutTypeOK
<1>8. Stored' = Stored
  BY <1>1 DEF Stored
<1>9. FailureKnown => FailureKnown'
  BY <1>1, <1>5, KnowledgeKept
<1> QED
  BY <1>1, <1>2, <1>3, <1>5, <1>6, <1>7, <1>8, <1>9 DEF ImportStep

LEMMA RefreshImports ==
  ASSUME PayoutTypeOK, NEW w \in Importers, Refresh(w)
  PROVE  ImportStep(w)
<1> DEFINE s == import[w].status
           at == "store"
           t == Resting.status
           q == [import[w] EXCEPT !.at = at, !.status = t]
<1>1. /\ import[w].at = "answered" /\ Slip(Stale(s)) /\ Upsert(s)
      /\ import' = [import EXCEPT ![w] = q]
      /\ UNCHANGED <<remote, notices, entry, notary, papers>>
  BY DEF Refresh
<1>2. import[w] # Resting /\ s \in RemoteStatus /\ remote.status # "none"
  BY <1>1, RestingIsIdle, TaskIsAny, Announced DEF AnyTask
<1>3. import[w] \in AnyTask /\ at = "store" /\ at \in Ats /\ t \in RemoteStatus
  BY TaskIsAny DEF Ats, Resting, RemoteStatus
<1> HIDE DEF at, s, t
<1>4. q \in ImportTask /\ q.at = at
  BY <1>3, Zenon DEF AnyTask, ImportTask, Ats
<1> HIDE DEF q
<1>5. /\ import' \in [Importers -> ImportTask \cup {Resting}]
      /\ \A v \in Importers : v # w => import'[v] = import[v]
      /\ import'[w].at = "store"
  BY <1>1, <1>3, <1>4, TaskWrites
<1>6. Slip(Stale(s) \cup {}) /\ lapses \subseteq lapses'
  BY <1>1, SlipGrows DEF Slip
<1>7. PayoutTypeOK'
  BY <1>1, <1>2, <1>5, UpsertWrites, LapsesType DEF PayoutTypeOK
<1>8. Midway(import[w])
  BY <1>1 DEF Midway
<1>9. payout'.recon = "reconciled" => payout.recon = "reconciled"
  BY <1>1, <1>2, UpsertWrites
<1>10. FailureKnown => FailureKnown'
  BY <1>1, <1>2, <1>6, UpsertKnows
<1>11. Stored' = Stored
  BY <1>1 DEF Stored
<1> QED
  BY <1>1, <1>2, <1>5, <1>6, <1>7, <1>8, <1>9, <1>10, <1>11 DEF ImportStep

LEMMA StoreImports ==
  ASSUME PayoutTypeOK, NEW w \in Importers, Store(w)
  PROVE  ImportStep(w)
<1> DEFINE at == "judge"
           q == [Resting EXCEPT !.at = at]
<1>1. /\ import[w].at = "store"
      /\ entry' = [e \in Entries |-> IF e \in remote.listed THEN Mapped(e) ELSE entry[e]]
      /\ import' = [import EXCEPT ![w] = q]
      /\ UNCHANGED <<remote, notices, payout, notary, papers, told, lapses>>
  BY DEF Store
<1>2. import[w] # Resting /\ remote.status # "none"
  BY <1>1, RestingIsIdle, Announced
<1>3. at = "judge" /\ at \in Ats
  BY DEF Ats
<1> HIDE DEF at
<1>4. q \in ImportTask /\ q.at = at
  BY <1>3 DEF Resting, ImportTask, Ats, RemoteStatus, Recon
<1> HIDE DEF q
<1>5. /\ import' \in [Importers -> ImportTask \cup {Resting}]
      /\ \A v \in Importers : v # w => import'[v] = import[v]
      /\ import'[w].at = "judge"
  BY <1>1, <1>3, <1>4, TaskWrites
<1>6. \A e \in Entries : Mapped(e) \in {"unmapped", "mapped"}
  BY DEF Mapped
<1>7. /\ entry' \in [Entries -> {"absent", "unmapped", "mapped", "manual"}]
      /\ Stored \subseteq Stored'
  BY <1>1, <1>6 DEF PayoutTypeOK, Stored
<1>8. PayoutTypeOK'
  BY <1>1, <1>2, <1>5, <1>7, LapsesType DEF PayoutTypeOK
<1>9. Midway(import[w])
  BY <1>1 DEF Midway
<1> QED
  BY <1>1, <1>2, <1>5, <1>7, <1>8, <1>9, KnowledgeKept DEF ImportStep

\* The verdict is about the books of this moment.
LEMMA JudgeImports ==
  ASSUME PayoutTypeOK, NEW w \in Importers, Judge(w)
  PROVE  ImportStep(w)
<1> DEFINE at == "conclude"
           r == Verdict
           q == [import[w] EXCEPT !.at = at, !.result = r]
<1>1. /\ import[w].at = "judge" /\ import' = [import EXCEPT ![w] = q]
      /\ UNCHANGED <<remote, notices, payout, entry, notary, papers, told, lapses>>
  BY DEF Judge
<1>2. import[w] # Resting /\ remote.status # "none"
  BY <1>1, RestingIsIdle, Announced
<1>3. /\ import[w] \in AnyTask /\ at = "conclude" /\ at \in Ats
      /\ r \in Recon /\ (r = "reconciled" => Solid)
  BY TaskIsAny, VerdictIsSound DEF Ats
<1> HIDE DEF at, r
<1>4. q \in ImportTask /\ q.at = at /\ q.result = r
  BY <1>3, Zenon DEF AnyTask, ImportTask, Ats
<1> HIDE DEF q
<1>5. /\ import' \in [Importers -> ImportTask \cup {Resting}]
      /\ \A v \in Importers : v # w => import'[v] = import[v]
      /\ import'[w].result = "reconciled" => Solid
  BY <1>1, <1>3, <1>4, TaskWrites
<1>6. PayoutTypeOK'
  BY <1>1, <1>2, <1>5, LapsesType DEF PayoutTypeOK
<1>7. Midway(import[w])
  BY <1>1 DEF Midway
<1>8. Stored' = Stored
  BY <1>1 DEF Stored
<1> QED
  BY <1>1, <1>2, <1>5, <1>6, <1>7, <1>8, KnowledgeKept DEF ImportStep

LEMMA ConcludeImports ==
  ASSUME PayoutTypeOK, NEW w \in Importers, Conclude(w)
  PROVE  ImportStep(w)
<1> DEFINE r == import[w].result
           b == TRUE
           c == r # "reconciled"
           p == [payout EXCEPT !.recon = r, !.complete = b, !.error = c]
<1>1. /\ import[w].at = "conclude" /\ payout' = p
      /\ import' = [import EXCEPT ![w] = Resting]
      /\ UNCHANGED <<remote, notices, entry, notary, papers, told, lapses>>
  BY DEF Conclude
<1>2. import[w] # Resting /\ remote.status # "none"
  BY <1>1, RestingIsIdle, Announced
<1>3. r \in Recon /\ b \in BOOLEAN /\ c \in BOOLEAN /\ payout \in PayoutRow
  BY TaskIsAny DEF AnyTask, PayoutTypeOK
<1> HIDE DEF b, c
<1>4. p \in PayoutRow /\ p.status = payout.status /\ p.recon = r
  BY <1>3, Zenon DEF PayoutRow
<1> HIDE DEF p
<1>5. /\ import' \in [Importers -> ImportTask \cup {Resting}]
      /\ import'[w] = Resting
      /\ \A v \in Importers : v # w => import'[v] = import[v]
  BY <1>1, TaskWrites
<1>6. PayoutTypeOK'
  BY <1>1, <1>2, <1>4, <1>5, LapsesType DEF PayoutTypeOK
<1>7. ~Midway(import'[w]) /\ import'[w].at # "conclude"
  BY <1>5, Starting
<1>8. Stored' = Stored
  BY <1>1 DEF Stored
<1>9. FailureKnown => FailureKnown'
  BY <1>1, <1>4, KnowledgeKept
<1> QED
  BY <1>1, <1>2, <1>4, <1>5, <1>6, <1>7, <1>8, <1>9 DEF ImportStep

LEMMA GivesUpImports ==
  ASSUME PayoutTypeOK, NEW w \in Importers, Fails(w) \/ Dies(w)
  PROVE  ImportStep(w)
<1> DEFINE r == "in_progress"
           b == TRUE
           p == [payout EXCEPT !.recon = r, !.error = b]
<1>1. /\ import[w] # Resting /\ import' = [import EXCEPT ![w] = Resting]
      /\ UNCHANGED <<remote, entry, notary, papers, told>>
      /\ lapses \subseteq lapses'
  BY RestingIsIdle, SlipGrows DEF Fails, Dies
<1>2. /\ payout \in PayoutRow /\ b \in BOOLEAN /\ r \in Recon /\ r # "reconciled"
  BY DEF PayoutTypeOK, Recon
<1>3. payout' \in {payout, p}
  BY DEF Fails, Dies
<1> HIDE DEF r, b
<1>4. p \in PayoutRow /\ p.status = payout.status /\ p.recon = r
  BY <1>2, Zenon DEF PayoutRow
<1> HIDE DEF p
<1>5. notices' \subseteq RemoteStatus
  BY TaskIsAny DEF Fails, Dies, PayoutTypeOK, AnyTask
<1>6. /\ import' \in [Importers -> ImportTask \cup {Resting}]
      /\ import'[w] = Resting
      /\ \A v \in Importers : v # w => import'[v] = import[v]
  BY <1>1, TaskWrites
<1>7. PayoutTypeOK'
  BY <1>1, <1>2, <1>3, <1>4, <1>5, <1>6, Announced, LapsesType DEF PayoutTypeOK
<1>8. ~Midway(import'[w]) /\ import'[w].at # "conclude"
  BY <1>6, Starting
<1>9. Stored' = Stored
  BY <1>1 DEF Stored
<1>10. FailureKnown => FailureKnown'
  BY <1>1, <1>3, <1>4, KnowledgeKept
<1> QED
  BY <1>1, <1>2, <1>3, <1>4, <1>6, <1>7, <1>8, <1>9, <1>10 DEF ImportStep

-----------------------------------------------------------------------------
(* The invariant. *)

\* What balances goes on to do so, if no part of the transactions does.
LEMMA SolidStays ==
  ASSUME NoPartBalances, Solid, Stored \subseteq Stored', PayoutTypeOK'
  PROVE  Solid'
<1>1. Stored \subseteq Entries /\ Stored' \subseteq Entries
  BY DEF Stored
<1>2. Stored = Entries
  BY <1>1 DEF NoPartBalances, Solid
<1>3. Stored' = Stored
  BY <1>1, <1>2
<1> QED
  BY <1>3 DEF Solid

LEMMA ImportKeeps ==
  ASSUME PayoutInv, NEW w \in Importers, ImportStep(w)
  PROVE  PayoutInv'
<1>1. /\ PayoutTypeOK /\ PayoutTypeOK' /\ lapses \subseteq lapses' /\ FailureKnown'
      /\ \A v \in Importers : v # w => import'[v] = import[v]
      /\ UNCHANGED <<notary, papers>>
  BY DEF ImportStep, PayoutInv
<1>2. "crossed" \notin lapses' => notary' = {}
  <2> SUFFICES ASSUME "crossed" \notin lapses', notary # {} PROVE FALSE
    BY <1>1
  <2>1. Importing = {} /\ "crossed" \in Crowd
    BY <1>1 DEF PayoutInv, BooksRest, Crowd
  <2>2. import[w] = Resting
    BY <2>1 DEF Importing
  <2> QED
    BY <2>1, <2>2 DEF ImportStep
<1>3. "overlap" \notin lapses' => OneImport'
  <2> SUFFICES ASSUME "overlap" \notin lapses' PROVE OneImport'
    OBVIOUS
  <2>1. OneImport
    BY <1>1 DEF PayoutInv
  <2>2. import[w] = Resting => Importing = {}
    BY DEF ImportStep, Crowd
  <2>3. \A v \in Importers : v # w => import[v] = Resting
    BY <2>1, <2>2 DEF OneImport, Importing
  <2>4. \A v, x \in Importing' : v = x
    BY <1>1, <2>3 DEF Importing
  <2>5. ASSUME NEW v \in Importers, Midway(import'[v]) PROVE payout'.recon # "reconciled"
    <3>1. v = w
      BY <1>1, <2>3, <2>5, Starting
    <3> QED
      BY <2>1, <2>5, <3>1 DEF ImportStep, OneImport
  <2> QED
    BY <2>4, <2>5 DEF OneImport
<1>4. ("overlap" \in lapses' => NoPartBalances) => Verdicts'
  <2> SUFFICES ASSUME "overlap" \in lapses' => NoPartBalances PROVE Verdicts'
    OBVIOUS
  <2>1. Verdicts
    BY <1>1 DEF PayoutInv
  <2>2. \/ Stored' = Stored
        \/ NoPartBalances /\ Stored \subseteq Stored'
        \/ /\ import[w].at = "store" /\ import'[w].at = "judge" /\ UNCHANGED payout
           /\ OneImport
    BY <1>1 DEF ImportStep, PayoutInv
  <2>3. CASE Solid => Solid'
    BY <1>1, <2>1, <2>3 DEF ImportStep, Verdicts
  <2>4. CASE /\ import[w].at = "store" /\ import'[w].at = "judge" /\ UNCHANGED payout
             /\ OneImport
    <3>1. Midway(import[w]) /\ import[w] # Resting
      BY <2>4, RestingIsIdle DEF Midway
    <3>2. payout'.recon # "reconciled"
      BY <2>4, <3>1 DEF OneImport
    <3>3. ASSUME NEW v \in Importers PROVE import'[v].at # "conclude"
      <4>1. v # w => import[v] = Resting
        BY <2>4, <3>1 DEF OneImport, Importing
      <4> QED
        BY <1>1, <2>4, <4>1, RestingIsIdle
    <3> QED
      BY <3>2, <3>3 DEF Verdicts
  <2>5. Stored' = Stored => Solid' = Solid
    BY DEF Solid
  <2> QED
    BY <1>1, <2>2, <2>3, <2>4, <2>5, SolidStays
<1>5. DocumentsShowBalance'
  BY <1>1 DEF DocumentsShowBalance, PayoutInv
<1>6. "twice" \notin lapses' => \A d \in notary' : papers'[d].count = 0
  BY <1>1 DEF PayoutInv
<1> QED
  BY <1>1, <1>2, <1>3, <1>4, <1>5, <1>6 DEF PayoutInv

LEMMA StripeKeeps ==
  ASSUME PayoutInv, StripePays \/ \E e \in Entries : StripeLists(e) \/ OrderLinked(e)
  PROVE  PayoutInv'
<1>1. /\ UNCHANGED <<payout, entry, import, notary, papers, told, lapses>>
      /\ remote' \in Remote /\ notices' \subseteq RemoteStatus
      /\ remote'.status = "none" => remote.status = "none" /\ notices' = notices
      /\ remote.status = "failed" => remote'.status = "failed"
  <2>1. remote \in Remote /\ notices \subseteq RemoteStatus
    BY DEF PayoutInv, PayoutTypeOK
  <2>2. ASSUME NEW e \in Entries, StripeLists(e)
        PROVE  remote' \in Remote /\ remote'.status = remote.status
    <3> DEFINE l == remote.listed \cup {e}
    <3>1. remote' = [remote EXCEPT !.listed = l]
      BY <2>2 DEF StripeLists
    <3>2. l \subseteq Entries
      BY <2>1 DEF Remote
    <3> HIDE DEF l
    <3> QED
      BY <2>1, <3>1, <3>2, Zenon DEF Remote
  <2>3. ASSUME NEW e \in Entries, OrderLinked(e)
        PROVE  remote' \in Remote /\ remote'.status = remote.status
    <3> DEFINE l == remote.linked \cup {e}
    <3>1. remote' = [remote EXCEPT !.linked = l]
      BY <2>3 DEF OrderLinked
    <3>2. l \subseteq Entries
      BY <2>1 DEF Remote
    <3> HIDE DEF l
    <3> QED
      BY <2>1, <3>1, <3>2, Zenon DEF Remote
  <2>4. ASSUME NEW s \in RemoteStatus, Announces(s)
        PROVE  remote' \in Remote /\ remote'.status = s /\ notices' \subseteq RemoteStatus
    <3>1. remote' = [remote EXCEPT !.status = s] /\ notices' = notices \cup {s}
      BY <2>4 DEF Announces
    <3>2. s \in RemoteStatus \cup {"none"}
      OBVIOUS
    <3>3. remote' \in Remote /\ remote'.status = s
      BY <2>1, <3>1, <3>2, Zenon DEF Remote
    <3> QED
      BY <2>1, <3>1, <3>3
  <2>5. CASE \E e \in Entries : StripeLists(e) \/ OrderLinked(e)
    BY <2>1, <2>2, <2>3, <2>5 DEF StripeLists, OrderLinked
  <2>6. CASE StripePays
    BY <2>4, <2>6 DEF StripePays, RemoteStatus
  <2> QED
    BY <2>5, <2>6
<1>2. PayoutTypeOK'
  BY <1>1 DEF PayoutInv, PayoutTypeOK, Importing
<1>3. FailureKnown'
  BY <1>1 DEF PayoutInv, FailureKnown
<1> QED
  BY <1>1, <1>2, <1>3 DEF PayoutInv, Verdicts, Solid, Stored, OneImport, Importing, BooksRest,
     Unmapped, DocumentsShowBalance

\* The books are looked at when the button is pressed.
LEMMA FinalizeKeeps ==
  ASSUME PayoutInv, Finalize
  PROVE  PayoutInv'
<1>1. /\ notary = {} /\ payout.recon = "reconciled" /\ payout.status # "failed"
      /\ Unmapped = {} /\ notary' = DocumentTypes
      /\ UNCHANGED <<remote, notices, payout, entry, import, papers, told>>
      /\ lapses \subseteq lapses'
      /\ "twice" \notin lapses' => \A d \in DocumentTypes : ~(papers[d].count > 0)
      /\ "crossed" \notin lapses' => Importing = {}
  BY SlipGrows DEF Finalize
<1>2. PayoutTypeOK'
  BY <1>1 DEF PayoutInv, PayoutTypeOK, Importing
<1>3. FailureKnown'
  BY <1>1 DEF PayoutInv, FailureKnown
<1>4. "twice" \notin lapses' => \A d \in notary' : papers'[d].count = 0
  BY <1>1 DEF PayoutInv, PayoutTypeOK
<1>5. DocumentsShowBalance'
  BY <1>1 DEF PayoutInv, DocumentsShowBalance
<1> QED
  BY <1>1, <1>2, <1>3, <1>4, <1>5 DEF PayoutInv, Verdicts, Solid, Stored, OneImport, Importing,
     BooksRest, Unmapped

LEMMA BuildKeeps ==
  ASSUME PayoutInv, NEW d \in DocumentTypes, Build(d)
  PROVE  PayoutInv'
<1> DEFINE n == IF papers[d].count = 2 THEN 2 ELSE papers[d].count + 1
           b == papers[d].sound /\ Balanced /\ ~told
           q == [count |-> n, sound |-> b]
           f == payout.finalized \/ notary = {d}
           p == [payout EXCEPT !.finalized = f]
<1>1. /\ d \in notary /\ papers' = [papers EXCEPT ![d] = q] /\ notary' = notary \ {d}
      /\ payout' = p
      /\ UNCHANGED <<remote, notices, entry, import, told, lapses>>
  BY DEF Build
<1>2. payout \in PayoutRow /\ f \in BOOLEAN
  BY DEF PayoutInv, PayoutTypeOK, PayoutRow
<1>3. papers[d].count \in {0, 1, 2} /\ papers[d].sound \in BOOLEAN
  BY DEF PayoutInv, PayoutTypeOK
<1> HIDE DEF f
<1>4. /\ p \in PayoutRow /\ p.exists = payout.exists /\ p.status = payout.status
      /\ p.recon = payout.recon
  BY <1>2, Zenon DEF PayoutRow
<1> HIDE DEF p
<1>11. n \in {0, 1, 2} /\ b \in BOOLEAN
  BY <1>3
<1> HIDE DEF n, b
<1>5. q \in [count: {0, 1, 2}, sound: BOOLEAN] /\ q.count = n /\ q.sound = b
  BY <1>11, Zenon
<1> HIDE DEF q
<1>6. /\ papers' \in [DocumentTypes -> [count: {0, 1, 2}, sound: BOOLEAN]]
      /\ papers'[d] = q
      /\ \A c \in DocumentTypes : c # d => papers'[c] = papers[c]
  BY <1>1, <1>5 DEF PayoutInv, PayoutTypeOK
<1>7. PayoutTypeOK'
  BY <1>1, <1>4, <1>6 DEF PayoutInv, PayoutTypeOK, Importing
<1>8. FailureKnown'
  BY <1>1, <1>4 DEF PayoutInv, FailureKnown
<1>9. "twice" \notin lapses' => \A c \in notary' : papers'[c].count = 0
  BY <1>1, <1>6 DEF PayoutInv, PayoutTypeOK
<1>10. DocumentsShowBalance'
  <2> SUFFICES ASSUME lapses \cap {"crossed", "twice", "late"} = {},
                      "overlap" \in lapses => NoPartBalances
               PROVE  \A c \in DocumentTypes : papers'[c].count <= 1 /\ papers'[c].sound
    BY <1>1 DEF DocumentsShowBalance
  <2>1. \A c \in DocumentTypes : papers[c].count <= 1 /\ papers[c].sound
    BY DEF PayoutInv, DocumentsShowBalance
  <2>2. BooksRest /\ Verdicts /\ papers[d].count = 0
    BY <1>1 DEF PayoutInv
  <2>3. Balanced
    BY <2>2 DEF BooksRest, Verdicts, Solid, Balanced
  <2>4. ~told
    BY <2>2 DEF PayoutInv, FailureKnown, BooksRest
  <2>5. n = 1 /\ b
    BY <2>1, <2>2, <2>3, <2>4 DEF n, b
  <2>6. papers'[d].sound
    BY <1>5, <1>6, <2>5, Zenon
  <2>7. papers'[d].count <= 1
    BY <1>5, <1>6, <2>5
  <2> QED
    BY <1>6, <2>1, <2>6, <2>7
<1> QED
  BY <1>1, <1>4, <1>7, <1>8, <1>9, <1>10 DEF PayoutInv, Verdicts, Solid, Stored, OneImport,
     Importing, BooksRest, Unmapped

LEMMA AbandonKeeps ==
  ASSUME PayoutInv, Abandon
  PROVE  PayoutInv'
<1>1. /\ notary' = {} /\ lapses \subseteq lapses'
      /\ UNCHANGED <<remote, notices, payout, entry, import, papers, told>>
  BY SlipGrows DEF Abandon
<1>2. PayoutTypeOK'
  BY <1>1 DEF PayoutInv, PayoutTypeOK, Importing
<1> QED
  BY <1>1, <1>2 DEF PayoutInv, FailureKnown, Verdicts, Solid, Stored, OneImport, Importing,
     DocumentsShowBalance

LEMMA PayoutInvNext == PayoutInv /\ [PayoutNext]_payoutVars => PayoutInv'
<1> SUFFICES ASSUME PayoutInv, [PayoutNext]_payoutVars PROVE PayoutInv'
  OBVIOUS
<1>1. PayoutTypeOK
  BY DEF PayoutInv
<1>2. CASE UNCHANGED payoutVars
  BY <1>2 DEF payoutVars, PayoutInv, PayoutTypeOK, FailureKnown, Verdicts, Solid, Stored,
     OneImport, Importing, BooksRest, Unmapped, DocumentsShowBalance
<1>3. ASSUME NEW w \in Importers, \/ \E n \in notices : Webhook(w, n)
                                  \/ DailyAsk(w) \/ Sync(w) \/ \E e \in Entries : MapOrder(w, e)
                                  \/ Works(w) \/ Fails(w) \/ Dies(w)
      PROVE  PayoutInv'
  <2>1. ImportStep(w)
    BY <1>1, <1>3, WebhookImports, DailyAskImports, SyncImports, DailyUpsertImports, StartImports,
       RefreshImports, StoreImports, JudgeImports, ConcludeImports, GivesUpImports DEF Works
  <2> QED
    BY <2>1, ImportKeeps
<1> QED
  BY <1>2, <1>3, StripeKeeps, FinalizeKeeps, BuildKeeps, AbandonKeeps DEF PayoutNext

LEMMA PayoutInvInit == PayoutInit => PayoutInv
<1> SUFFICES ASSUME PayoutInit PROVE PayoutInv
  OBVIOUS
<1>1. NoRow \in PayoutRow /\ ~NoRow.exists /\ NoRow.recon = "announced"
  BY DEF NoRow, PayoutRow, RemoteStatus, Recon
<1>2. Importing = {}
  BY DEF PayoutInit, Importing
<1>3. PayoutTypeOK
  BY <1>1, <1>2 DEF PayoutInit, PayoutTypeOK, Remote
<1>4. Verdicts /\ OneImport
  BY <1>1, <1>2, RestingIsIdle DEF PayoutInit, Verdicts, OneImport
<1> QED
  BY <1>3, <1>4 DEF PayoutInit, PayoutInv, FailureKnown, DocumentsShowBalance

LEMMA PayoutInvariant == PayoutSpec => []PayoutInv
<1> QED
  BY PayoutInvInit, PayoutInvNext, PTL DEF PayoutSpec

\* However many imports, retries, crashes and failures there are: documents that were
\* built once and without an import under way show books that balance.
THEOREM DocumentsBalance == PayoutSpec => []DocumentsShowBalance
<1>1. PayoutInv => DocumentsShowBalance
  BY DEF PayoutInv
<1> QED
  BY <1>1, PayoutInvariant, PTL
=============================================================================
