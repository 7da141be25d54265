------------------------------ MODULE JobQueue ------------------------------
(***************************************************************************)
(* The background jobs of one paid online order: order.post_fulfill, which *)
(* mails the buyer and the staff, and reconcile.heal_order, which mints    *)
(* missing tickets or sends the buyer's mail itself.                       *)
(*                                                                         *)
(* A worker is whoever runs the queue: a webhook request, the cron job, or *)
(* a run kicked off after enqueueing.  Every statement is a step.          *)
(* The order is no demonstration, and its buyer's address has not bounced: *)
(* those suppress the mail.                                                *)
(***************************************************************************)
EXTENDS Naturals, FiniteSets

CONSTANTS
    Jobs,         \* the jobs that may be enqueued
    Workers,
    MaxAttempts,  \* maxAttempts of a job
    MaxMails,     \* bound on the mails counted
    Allow,        \* faults that may happen
    None

\* overlap:  a worker starts while another one is busy.
\* crash:    a worker stops between two of its steps.
\* slow:     a lock goes stale although its worker is still at it.
\* unmarked: a mail is out and the statement that records it fails.
Faults == {"overlap", "crash", "slow", "unmarked"}

ASSUME ConstantsAssumption ==
    /\ MaxAttempts \in Nat \ {0} /\ MaxMails \in Nat \ {0}
    /\ Allow \subseteq Faults
    /\ "post_fulfill" \in Jobs /\ Jobs \subseteq {"post_fulfill", "heal"} /\ None \notin Jobs

VARIABLES
    job,     \* background_jobs, one row per dedupe key
    order,   \* the order: tickets minted, ticketSentAt, staff audit, age
    mails,   \* mails the mail server has accepted
    kicked,  \* jobs with a kickJob run that has not begun
    task,    \* what each worker is doing
    faults   \* faults that have happened

vars == <<job, order, mails, kicked, task, faults>>

-----------------------------------------------------------------------------
Status == {"none", "pending", "processing", "succeeded", "dead_letter"}

\* due: runAfter has passed; stale: lockedAt is more than five minutes ago.
Job == [status: Status, attempts: 0..MaxAttempts, due: BOOLEAN, stale: BOOLEAN]

\* age counts the limits an order has passed: one day (staff), a week (buyer).
Order == [tickets: BOOLEAN, sent: BOOLEAN, notified: BOOLEAN, age: 0..2]

Mails == [{"buyer", "staff"} -> 0..MaxMails]

Handling == {"mailRead", "mailSend", "mailMark", "staffRead", "staffSend", "staffMark",
             "healRead", "healFulfil"}

Step == Handling \cup {"idle", "down", "enqueue", "create", "requeue", "select", "claim", "next",
                       "load", "take", "fresh", "finish", "retry", "bury"}

\* run is the job being processed, target the one being enqueued; again says
\* that it is enqueued twice in a row.
Task == [step: Step, run: Jobs \cup {None}, target: Jobs \cup {None}, again: BOOLEAN,
         attempts: 0..MaxAttempts, candidates: SUBSET Jobs, claimed: SUBSET Jobs]

Idle == [step |-> "idle", run |-> None, target |-> None, again |-> FALSE, attempts |-> 0,
         candidates |-> {}, claimed |-> {}]

At(w, s) == task[w].step = s

Become(w, t) == task' = [task EXCEPT ![w] = t]

Goto(w, s) == Become(w, [task[w] EXCEPT !.step = s])

Lesser(a, b) == IF a < b THEN a ELSE b

\* Only compared with maxAttempts, so counted up to it.
Locked(r) == [r EXCEPT !.status = "processing", !.stale = FALSE,
                       !.attempts = Lesser(@ + 1, MaxAttempts)]

\* A mail has gone to one more buyer or staff.
Sent(whom) == mails' = [mails EXCEPT ![whom] = Lesser(@ + 1, MaxMails)]

Write(j, r) == job' = [job EXCEPT ![j] = r]

Busy == {w \in Workers : task[w].step \notin {"idle", "down"}}

\* A worker may begin something.
Begin(w) ==
    /\ task[w] = Idle
    /\ \/ /\ Busy = {}
          /\ UNCHANGED faults
       \/ /\ "overlap" \in Allow /\ Busy # {}
          /\ faults' = faults \cup {"overlap"}

-----------------------------------------------------------------------------
(* enqueueJob with a dedupe key, and the kick that follows it. *)

Enqueue(w, j, twice) ==
    Become(w, [task[w] EXCEPT !.step = "enqueue", !.target = j, !.again = twice])

Enqueued(w) == {task[w].target}

\* Back to the caller: enqueue once more, finish the job that enqueued, or stop.
Kick(w) ==
    /\ kicked' = kicked \cup Enqueued(w)
    /\ Become(w, IF task[w].again
                 THEN [task[w] EXCEPT !.step = "enqueue", !.again = FALSE]
                 ELSE IF task[w].run # None
                      THEN [task[w] EXCEPT !.step = "finish", !.target = None]
                      ELSE Idle)

\* Mutant: a dead job is never queued again.
NeverAgain(status) == FALSE

Requeued(status) == status = "dead_letter"

EnqueueRead(w) ==
    /\ At(w, "enqueue")
    /\ LET status == job[task[w].target].status
       IN  \/ status = "none" /\ Goto(w, "create") /\ UNCHANGED kicked
           \/ Requeued(status) /\ Goto(w, "requeue") /\ UNCHANGED kicked
           \/ status # "none" /\ ~Requeued(status) /\ Kick(w)
    /\ UNCHANGED <<job, order, mails, faults>>

\* The unique dedupe key lets one of two concurrent creations through.
EnqueueCreate(w) ==
    /\ At(w, "create")
    /\ LET j == task[w].target
       IN  Write(j, IF job[j].status # "none" THEN job[j]
                    ELSE [job[j] EXCEPT !.status = "pending", !.due = TRUE])
    /\ Kick(w)
    /\ UNCHANGED <<order, mails, faults>>

EnqueueRequeue(w) ==
    /\ At(w, "requeue")
    /\ LET j == task[w].target
       IN  Write(j, [job[j] EXCEPT !.status = "pending", !.due = TRUE, !.stale = FALSE])
    /\ Kick(w)
    /\ UNCHANGED <<order, mails, faults>>

\* fulfillPaidOrder, called by the webhook or a page: mint, then enqueue.
Fulfil(w) ==
    /\ Begin(w)
    /\ ~order.tickets \/ ~order.sent
    /\ order' = [order EXCEPT !.tickets = TRUE]
    /\ Enqueue(w, "post_fulfill", FALSE)
    /\ UNCHANGED <<job, mails, kicked>>

\* runCommerceReconciliation: a paid order without tickets, or without a mail.
Reconcile(w) ==
    /\ Begin(w)
    /\ \/ ~order.tickets /\ "heal" \in Jobs /\ Enqueue(w, "heal", FALSE)
       \/ /\ order.tickets /\ ~order.sent /\ order.age < 2
          /\ Enqueue(w, "post_fulfill", FALSE)
    /\ UNCHANGED <<job, order, mails, kicked>>

-----------------------------------------------------------------------------
(* processPendingJobs: recover stale locks, select, claim, run one by one. *)

\* Mutant: stale locks are not recovered.
StillLocked(r) == r

Recovered(r) ==
    IF r.status = "processing" /\ r.stale
    THEN [r EXCEPT !.status = "pending", !.stale = FALSE] ELSE r

Drain(w) ==
    /\ Begin(w)
    /\ job' = [j \in Jobs |-> Recovered(job[j])]
    /\ Goto(w, "select")
    /\ UNCHANGED <<order, mails, kicked>>

Select(w) ==
    /\ At(w, "select")
    /\ LET due == {j \in Jobs : job[j].status = "pending" /\ job[j].due}
       IN  Become(w, IF due = {} THEN Idle
                     ELSE [task[w] EXCEPT !.step = "claim", !.candidates = due])
    /\ UNCHANGED <<job, order, mails, kicked, faults>>

Claim(w) ==
    /\ At(w, "claim")
    /\ \E j \in task[w].candidates :
         LET rest == task[w].candidates \ {j}
             won  == job[j].status = "pending"
         IN  /\ Write(j, IF won THEN Locked(job[j]) ELSE job[j])
             /\ Become(w, [task[w] EXCEPT !.candidates = rest,
                                          !.claimed = IF won THEN @ \cup {j} ELSE @,
                                          !.step = IF rest = {} THEN "next" ELSE "claim"])
    /\ UNCHANGED <<order, mails, kicked, faults>>

NextClaimed(w) ==
    /\ At(w, "next")
    /\ \/ task[w].claimed = {} /\ Become(w, Idle)
       \/ \E j \in task[w].claimed :
            Become(w, [task[w] EXCEPT !.claimed = @ \ {j}, !.step = "load", !.run = j])
    /\ UNCHANGED <<job, order, mails, kicked, faults>>

\* A kicked run begins, or the instance is frozen before it does.
RunKicked(w, j) ==
    /\ Begin(w) /\ j \in kicked
    /\ kicked' = kicked \ {j}
    /\ Become(w, [Idle EXCEPT !.step = "load", !.run = j])
    /\ UNCHANGED <<job, order, mails>>

LoseKick(j) ==
    /\ j \in kicked
    /\ kicked' = kicked \ {j}
    /\ UNCHANGED <<job, order, mails, task, faults>>

-----------------------------------------------------------------------------
(* processJobById. *)

EndRun(w) == Become(w, IF task[w].claimed = {} THEN Idle
                       ELSE [Idle EXCEPT !.step = "next", !.claimed = task[w].claimed])

Load(w) ==
    /\ At(w, "load")
    /\ LET status == job[task[w].run].status
       IN  \/ status = "pending" /\ Goto(w, "take")
           \/ status = "processing" /\ Goto(w, "fresh")
           \/ status \notin {"pending", "processing"} /\ EndRun(w)
    /\ UNCHANGED <<job, order, mails, kicked, faults>>

Take(w) ==
    /\ At(w, "take")
    /\ LET j == task[w].run
       IN  Write(j, IF job[j].status = "pending" THEN Locked(job[j]) ELSE job[j])
    /\ Goto(w, "fresh")
    /\ UNCHANGED <<order, mails, kicked, faults>>

\* Whoever holds the lock, a job in progress is run.
Fresh(w) ==
    /\ At(w, "fresh")
    /\ LET r == job[task[w].run]
       IN  \/ r.status # "processing" /\ EndRun(w)
           \/ /\ r.status = "processing"
              /\ Become(w, [task[w] EXCEPT
                              !.attempts = r.attempts,
                              !.step = IF task[w].run = "heal" THEN "healRead" ELSE "mailRead"])
    /\ UNCHANGED <<job, order, mails, kicked, faults>>

\* None of the final writes asks who owns the job.
Conclude(w, from, status, due) ==
    /\ At(w, from)
    /\ LET j == task[w].run
       IN  Write(j, [job[j] EXCEPT !.status = status, !.due = due, !.stale = FALSE])
    /\ EndRun(w)
    /\ UNCHANGED <<order, mails, kicked, faults>>

Finish(w) == Conclude(w, "finish", "succeeded", job[task[w].run].due)
Retry(w)  == Conclude(w, "retry", "pending", FALSE)
Bury(w)   == Conclude(w, "bury", "dead_letter", job[task[w].run].due)

Exhausted(kind, attempts) == kind = "PERMANENT" \/ attempts >= MaxAttempts

Throw(w, kind) ==
    Become(w, [task[w] EXCEPT
                 !.step = IF Exhausted(kind, task[w].attempts) THEN "bury" ELSE "retry"])

\* A statement or the mail server fails.
HandlerFails(w) ==
    /\ task[w].step \in Handling
    /\ \E kind \in {"TEMP", "PERMANENT"} : Throw(w, kind)
    /\ IF At(w, "mailMark") \/ At(w, "staffMark")
       THEN "unmarked" \in Allow /\ faults' = faults \cup {"unmarked"}
       ELSE UNCHANGED faults
    /\ UNCHANGED <<job, order, mails, kicked>>

-----------------------------------------------------------------------------
(* The handlers. *)

AfterMail(w) == IF task[w].run = "heal" THEN "finish" ELSE "staffRead"

\* Mutant: the buyer's mail is not guarded by ticketSentAt.
NeverMailed == FALSE

AlreadyMailed == order.sent

\* Without tickets the mail is tried again later.
MailRead(w) ==
    /\ At(w, "mailRead")
    /\ IF AlreadyMailed THEN Goto(w, AfterMail(w))
       ELSE IF order.tickets THEN Goto(w, "mailSend") ELSE Throw(w, "TEMP")
    /\ UNCHANGED <<job, order, mails, kicked, faults>>

MailSend(w) ==
    /\ At(w, "mailSend")
    /\ Sent("buyer")
    /\ Goto(w, "mailMark")
    /\ UNCHANGED <<job, order, kicked, faults>>

MailMark(w) ==
    /\ At(w, "mailMark")
    /\ order' = [order EXCEPT !.sent = TRUE]
    /\ Goto(w, AfterMail(w))
    /\ UNCHANGED <<job, mails, kicked, faults>>

StaffRead(w) ==
    /\ At(w, "staffRead")
    /\ Goto(w, IF order.notified \/ order.age > 0 THEN "finish" ELSE "staffSend")
    /\ UNCHANGED <<job, order, mails, kicked, faults>>

StaffSend(w) ==
    /\ At(w, "staffSend")
    /\ Sent("staff")
    /\ Goto(w, "staffMark")
    /\ UNCHANGED <<job, order, kicked, faults>>

\* Nobody to tell: the job is done without a mark.
NoRecipients(w) ==
    /\ At(w, "staffSend")
    /\ Goto(w, "finish")
    /\ UNCHANGED <<job, order, mails, kicked, faults>>

StaffMark(w) ==
    /\ At(w, "staffMark")
    /\ order' = [order EXCEPT !.notified = TRUE]
    /\ Goto(w, "finish")
    /\ UNCHANGED <<job, mails, kicked, faults>>

HealRead(w) ==
    /\ At(w, "healRead")
    /\ Goto(w, IF ~order.tickets THEN "healFulfil"
               ELSE IF ~order.sent /\ order.age < 2 THEN "mailRead" ELSE "finish")
    /\ UNCHANGED <<job, order, mails, kicked, faults>>

\* fulfillPaidOrder enqueues the mails itself unless they are out; the heal job
\* enqueues them in any case.
HealFulfil(w) ==
    /\ At(w, "healFulfil")
    /\ order' = [order EXCEPT !.tickets = TRUE]
    /\ Enqueue(w, "post_fulfill", ~order.tickets \/ ~order.sent)
    /\ UNCHANGED <<job, mails, kicked, faults>>

-----------------------------------------------------------------------------
(* Time and faults. *)

GoStale(j) ==
    /\ job[j].status = "processing" /\ ~job[j].stale
    /\ Write(j, [job[j] EXCEPT !.stale = TRUE])
    /\ UNCHANGED <<order, mails, kicked, task>>

Deserted(j) == \A w \in Workers : task[w].run # j /\ j \notin task[w].claimed

\* Five minutes have passed over a job whose worker is gone, or over a slow worker.
LockExpires(j) == Deserted(j) /\ GoStale(j) /\ UNCHANGED faults

Stalls(j) ==
    /\ "slow" \in Allow /\ ~Deserted(j) /\ GoStale(j)
    /\ faults' = faults \cup {"slow"}

RetryFallsDue(j) ==
    /\ job[j].status = "pending" /\ ~job[j].due
    /\ Write(j, [job[j] EXCEPT !.due = TRUE])
    /\ UNCHANGED <<order, mails, kicked, task, faults>>

OrderAges ==
    /\ order.age < 2
    /\ order' = [order EXCEPT !.age = @ + 1]
    /\ UNCHANGED <<job, mails, kicked, task, faults>>

Crash(w) ==
    /\ "crash" \in Allow /\ w \in Busy
    /\ Become(w, [Idle EXCEPT !.step = "down"])
    /\ faults' = faults \cup {"crash"}
    /\ UNCHANGED <<job, order, mails, kicked>>

Restart(w) ==
    /\ At(w, "down")
    /\ Become(w, Idle)
    /\ UNCHANGED <<job, order, mails, kicked, faults>>

Init ==
    /\ job = [j \in Jobs |-> [status |-> "none", attempts |-> 0, due |-> FALSE, stale |-> FALSE]]
    /\ order = [tickets |-> FALSE, sent |-> FALSE, notified |-> FALSE, age |-> 0]
    /\ mails = [whom \in {"buyer", "staff"} |-> 0]
    /\ kicked = {}
    /\ task = [w \in Workers |-> Idle]
    /\ faults = {}

Queue(w) ==
    \/ EnqueueRead(w) \/ EnqueueCreate(w) \/ EnqueueRequeue(w)
    \/ Select(w) \/ Claim(w) \/ NextClaimed(w)
    \/ Load(w) \/ Take(w) \/ Fresh(w)
    \/ Finish(w) \/ Retry(w) \/ Bury(w)

Handle(w) ==
    \/ MailRead(w) \/ MailSend(w) \/ MailMark(w)
    \/ StaffRead(w) \/ StaffSend(w) \/ NoRecipients(w) \/ StaffMark(w)
    \/ HealRead(w) \/ HealFulfil(w)

Time(j) == LockExpires(j) \/ RetryFallsDue(j)

Next ==
    \/ \E w \in Workers :
         \/ Fulfil(w) \/ Reconcile(w) \/ Drain(w)
         \/ \E j \in Jobs : RunKicked(w, j)
         \/ Queue(w) \/ Handle(w) \/ HandlerFails(w) \/ Crash(w) \/ Restart(w)
    \/ \E j \in Jobs : LoseKick(j) \/ Time(j) \/ Stalls(j)
    \/ OrderAges

Spec == Init /\ [][Next]_vars

\* Started workers go on, time passes, and the cron job reconciles and drains day
\* after day in an instance of its own; crashes and stalls end.
Fairness ==
    /\ \A w \in Workers : WF_vars(Queue(w) \/ Handle(w) \/ Restart(w))
    /\ \A j \in Jobs : WF_vars(Time(j))
    /\ SF_vars(\E w \in Workers : Reconcile(w))
    /\ SF_vars(\E w \in Workers : Drain(w))
    /\ <>[][/\ \A w \in Workers : ~Crash(w)
             /\ \A j \in Jobs : ~Stalls(j)]_vars

MailWorks == <>[][\A w \in Workers : ~HandlerFails(w)]_vars

FairSpec == Spec /\ Fairness
=============================================================================
