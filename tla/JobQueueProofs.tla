--------------------------- MODULE JobQueueProofs ---------------------------
(***************************************************************************)
(* What holds of the background jobs of an order for any number of workers *)
(* and attempts and under every fault: a finished job has mailed its       *)
(* buyer, and without a fault nobody gets a mail twice.                    *)
(*                                                                         *)
(* Three invariants, each proved with the help of those before it: the     *)
(* types; what a worker knows at each of its steps; the one worker at work *)
(* and the mails that are out.                                             *)
(***************************************************************************)
EXTENDS JobQueueProps, TLAPS

-----------------------------------------------------------------------------
(* Lemmas about the operators. *)

LEMMA IdleType ==
  /\ Idle \in Task /\ Idle.step = "idle" /\ Idle.run = None
  /\ "idle" \in Step
  BY ConstantsAssumption DEF Idle, Task, Step

\* A worker's step to another one keeps the rest of its task.
LEMMA GotoType ==
  ASSUME NEW t \in Task, NEW s \in Step
  PROVE  LET u == [t EXCEPT !.step = s]
         IN  /\ u \in Task /\ u.step = s /\ u.run = t.run /\ u.target = t.target
  BY Zenon DEF Task

LEMMA BecomeType ==
  ASSUME TypeOK, NEW w \in Workers, NEW t \in Task, Become(w, t)
  PROVE  /\ task' \in [Workers -> Task]
         /\ task'[w] = t
         /\ \A v \in Workers : v # w => task'[v] = task[v]
  BY DEF TypeOK, Become

LEMMA Goes ==
  ASSUME TypeOK, NEW w \in Workers, NEW s \in Step, Goto(w, s)
  PROVE  /\ task' \in [Workers -> Task]
         /\ task'[w].step = s /\ task'[w].run = task[w].run /\ task'[w].target = task[w].target
         /\ \A v \in Workers : v # w => task'[v] = task[v]
<1>1. task[w] \in Task
  BY DEF TypeOK
<1> DEFINE t == [task[w] EXCEPT !.step = s]
<1>2. t \in Task /\ t.step = s /\ t.run = task[w].run /\ t.target = task[w].target
  BY <1>1, GotoType
<1>3. Become(w, t)
  BY DEF Goto
<1> HIDE DEF t
<1> QED
  BY <1>2, <1>3, BecomeType

LEMMA LesserType ==
  ASSUME NEW n \in Nat \ {0}, NEW a \in 0..n
  PROVE  /\ Lesser(a + 1, n) \in 0..n
         /\ a = 0 => Lesser(a + 1, n) = 1
  BY DEF Lesser

LEMMA LockedType ==
  ASSUME NEW r \in Job
  PROVE  Locked(r) \in Job /\ Locked(r).status = "processing"
<1>1. r.attempts \in 0..MaxAttempts
  BY DEF Job
<1>2. Lesser(r.attempts + 1, MaxAttempts) \in 0..MaxAttempts
  BY <1>1, LesserType, ConstantsAssumption
<1>3. "processing" \in Status
  BY DEF Status
<1> DEFINE n == Lesser(r.attempts + 1, MaxAttempts)
<1>4. Locked(r) = [r EXCEPT !.status = "processing", !.stale = FALSE, !.attempts = n]
  BY DEF Locked
<1> HIDE DEF n
<1>5. n \in 0..MaxAttempts
  BY <1>2 DEF n
<1> QED
  BY <1>3, <1>4, <1>5, Zenon DEF Job

LEMMA RowType ==
  ASSUME NEW r \in Job, NEW s \in Status, NEW d \in BOOLEAN, NEW b \in BOOLEAN
  PROVE  LET q == [r EXCEPT !.status = s, !.due = d, !.stale = b]
         IN  q \in Job /\ q.status = s
  BY Zenon DEF Job

LEMMA WriteType ==
  ASSUME TypeOK, NEW j \in Jobs, NEW r \in Job, Write(j, r)
  PROVE  /\ job' \in [Jobs -> Job]
         /\ job'[j] = r
         /\ \A i \in Jobs : i # j => job'[i] = job[i]
  BY DEF TypeOK, Write

LEMMA SentType ==
  ASSUME TypeOK, NEW whom \in {"buyer", "staff"}, Sent(whom)
  PROVE  /\ mails' \in Mails
         /\ mails[whom] = 0 => mails'[whom] = 1
         /\ \A h \in {"buyer", "staff"} : h # whom => mails'[h] = mails[h]
<1>1. mails[whom] \in 0..MaxMails
  BY DEF TypeOK, Mails
<1>2. Lesser(mails[whom] + 1, MaxMails) \in 0..MaxMails
      /\ (mails[whom] = 0 => Lesser(mails[whom] + 1, MaxMails) = 1)
  BY <1>1, LesserType, ConstantsAssumption
<1> DEFINE n == Lesser(mails[whom] + 1, MaxMails)
<1>3. mails' = [mails EXCEPT ![whom] = n]
  BY DEF Sent
<1> HIDE DEF n
<1>4. n \in 0..MaxMails /\ (mails[whom] = 0 => n = 1)
  BY <1>2 DEF n
<1> QED
  BY <1>3, <1>4 DEF TypeOK, Mails

-----------------------------------------------------------------------------
(* What a worker knows at each step. *)

Enqueueing == {"enqueue", "create", "requeue"}
Running == Handling \cup {"load", "take", "fresh", "finish", "retry", "bury"}

\* Only a heal job or nobody enqueues; a running step has its job; the staff's
\* mail and the end of a post-fulfilment job come after the buyer's mail.
Knows(t, sent) ==
    /\ t.step \in Enqueueing => t.target \in Jobs /\ t.run # "post_fulfill"
    /\ t.step \in Running => t.run \in Jobs
    /\ t.step \in {"healRead", "healFulfil"} => t.run = "heal"
    /\ t.step \in {"staffRead", "staffSend", "staffMark"} => t.run # "heal" /\ sent
    /\ t.step = "finish" /\ t.run = "post_fulfill" => sent

Aimed == \A w \in Workers : Knows(task[w], order.sent)

IInv == TypeOK /\ Aimed /\ DoneIsMailed

LEMMA IdleKnows == \A sent \in BOOLEAN : Knows(Idle, sent)
  BY IdleType DEF Knows, Enqueueing, Running, Handling

\* What every step of a worker keeps.
StepOf(w) ==
    /\ TypeOK'
    /\ Knows(task'[w], order'.sent)
    /\ \A v \in Workers : v # w => task'[v] = task[v]
    /\ order.sent => order'.sent
    /\ DoneIsMailed'

LEMMA StepKeeps ==
  ASSUME IInv, NEW w \in Workers, StepOf(w)
  PROVE  IInv'
<1> USE DEF IInv, Aimed, StepOf
<1>1. ASSUME NEW v \in Workers
      PROVE  Knows(task'[v], order'.sent)
  <2>1. CASE v = w
    BY <2>1
  <2>2. CASE v # w
    <3>1. Knows(task[v], order.sent) /\ task'[v] = task[v]
      BY <2>2
    <3> QED
      BY <3>1 DEF Knows
  <2> QED
    BY <2>1, <2>2
<1> QED
  BY <1>1

\* A step that writes no job and keeps order, mails and kicks.
LEMMA Quiet ==
  ASSUME IInv, NEW w \in Workers, NEW t \in Task, Become(w, t), faults' \subseteq Allow,
         UNCHANGED <<job, order, mails, kicked>>, Knows(t, order.sent)
  PROVE  StepOf(w)
<1>1. TypeOK'
  BY BecomeType DEF IInv, TypeOK
<1> QED
  BY <1>1, BecomeType DEF IInv, StepOf, DoneIsMailed

LEMMA QuietGoto ==
  ASSUME IInv, NEW w \in Workers, NEW s \in Step, Goto(w, s), faults' \subseteq Allow,
         UNCHANGED <<job, order, mails, kicked>>,
         Knows([task[w] EXCEPT !.step = s], order.sent)
  PROVE  StepOf(w)
<1>1. [task[w] EXCEPT !.step = s] \in Task
  BY GotoType DEF IInv, TypeOK
<1> QED
  BY <1>1, Quiet DEF Goto

\* What a worker knows after a bare change of step.
LEMMA GotoKnows ==
  ASSUME IInv, NEW w \in Workers, NEW s \in Step, NEW sent \in BOOLEAN,
         s \in Enqueueing => task[w].target \in Jobs /\ task[w].run # "post_fulfill",
         s \in Running => task[w].run \in Jobs,
         s \in {"healRead", "healFulfil"} => task[w].run = "heal",
         s \in {"staffRead", "staffSend", "staffMark"} => task[w].run # "heal" /\ sent,
         s = "finish" /\ task[w].run = "post_fulfill" => sent
  PROVE  Knows([task[w] EXCEPT !.step = s], sent)
<1> DEFINE t == [task[w] EXCEPT !.step = s]
<1>1. t.step = s /\ t.run = task[w].run /\ t.target = task[w].target
  BY GotoType DEF IInv, TypeOK
<1> HIDE DEF t
<1>2. Knows(t, sent)
  BY <1>1 DEF Knows
<1> QED
  BY <1>2 DEF t
-----------------------------------------------------------------------------
(* Every step keeps the invariant: enqueueing, claiming and running,        *)
(* concluding, handling.                                                    *)

\* Back to the caller after enqueueing.
LEMMA KickKeeps ==
  ASSUME IInv, NEW w \in Workers, task[w].step \in Enqueueing, Kick(w)
  PROVE  /\ kicked' \subseteq Jobs /\ task' \in [Workers -> Task]
         /\ Knows(task'[w], order.sent)
         /\ \A v \in Workers : v # w => task'[v] = task[v]
<1>1. task[w] \in Task /\ task[w].target \in Jobs /\ task[w].run # "post_fulfill" /\ TypeOK
      /\ order.sent \in BOOLEAN
  BY DEF IInv, TypeOK, Aimed, Knows, Order
<1>2. kicked' \subseteq Jobs
  BY <1>1 DEF Kick, Enqueued, TypeOK
<1>3. CASE task[w].again
  <2> DEFINE t == [task[w] EXCEPT !.step = "enqueue", !.again = FALSE]
  <2>1. t \in Task /\ t.step = "enqueue" /\ t.target = task[w].target /\ t.run = task[w].run
    BY <1>1, Zenon DEF Task, Step
  <2>2. Become(w, t)
    BY <1>3 DEF Kick
  <2> HIDE DEF t
  <2>3. Knows(t, order.sent)
    BY <1>1, <2>1 DEF Knows, Running, Handling
  <2> QED
    BY <1>1, <1>2, <2>1, <2>2, <2>3, BecomeType
<1>4. CASE ~task[w].again /\ task[w].run # None
  <2> DEFINE t == [task[w] EXCEPT !.step = "finish", !.target = None]
  <2>1. t \in Task /\ t.step = "finish" /\ t.run = task[w].run
    BY <1>1, Zenon DEF Task, Step
  <2>2. Become(w, t)
    BY <1>4 DEF Kick
  <2> HIDE DEF t
  <2>3. task[w].run \in Jobs
    BY <1>1, <1>4 DEF Task
  <2>4. Knows(t, order.sent)
    BY <1>1, <2>1, <2>3 DEF Knows, Enqueueing
  <2> QED
    BY <1>1, <1>2, <2>1, <2>2, <2>4, BecomeType
<1>5. CASE ~task[w].again /\ task[w].run = None
  <2>1. Become(w, Idle)
    BY <1>5 DEF Kick
  <2> QED
    BY <1>1, <1>2, <2>1, IdleType, IdleKnows, BecomeType
<1> QED
  BY <1>3, <1>4, <1>5, <1>1 DEF Task

\* What an enqueueing worker becomes.
LEMMA EnqueueType ==
  ASSUME NEW t \in Task, NEW j \in Jobs, NEW twice \in BOOLEAN, t.run # "post_fulfill"
  PROVE  LET u == [t EXCEPT !.step = "enqueue", !.target = j, !.again = twice]
         IN  u \in Task /\ \A sent \in BOOLEAN : Knows(u, sent)
<1> DEFINE u == [t EXCEPT !.step = "enqueue", !.target = j, !.again = twice]
<1>1. u \in Task /\ u.step = "enqueue" /\ u.target = j /\ u.run = t.run
  BY Zenon DEF Task, Step
<1> HIDE DEF u
<1>2. \A sent \in BOOLEAN : Knows(u, sent)
  BY <1>1 DEF Knows, Running, Handling
<1> QED
  BY <1>1, <1>2 DEF u

LEMMA BeginType ==
  ASSUME IInv, NEW w \in Workers, Begin(w)
  PROVE  /\ faults' \subseteq Allow
         /\ task[w] = Idle /\ Idle \in Task /\ Idle.run \notin Jobs /\ Idle.run # "post_fulfill"
  BY IdleType, ConstantsAssumption DEF Begin, IInv, TypeOK

LEMMA EnqueueSteps ==
  ASSUME IInv, NEW w \in Workers,
         Fulfil(w) \/ Reconcile(w) \/ EnqueueRead(w) \/ EnqueueCreate(w) \/ EnqueueRequeue(w)
  PROVE  StepOf(w)
<1>1. order \in Order /\ order.sent \in BOOLEAN /\ TypeOK /\ "post_fulfill" \in Jobs
  BY ConstantsAssumption DEF IInv, TypeOK, Order
<1>2. ASSUME Fulfil(w) \/ Reconcile(w)
      PROVE  StepOf(w)
  <2>1. faults' \subseteq Allow /\ task[w] = Idle /\ Idle \in Task /\ Idle.run # "post_fulfill"
    BY <1>2, BeginType DEF Fulfil, Reconcile
  <2>2. order' \in Order /\ order'.sent = order.sent
    <3>1. [order EXCEPT !.tickets = TRUE] \in Order
          /\ [order EXCEPT !.tickets = TRUE].sent = order.sent
      BY <1>1, Zenon DEF Order
    <3> QED
      BY <1>1, <1>2, <3>1 DEF Fulfil, Reconcile
  <2>3. PICK j \in Jobs : Enqueue(w, j, FALSE)
    BY <1>1, <1>2 DEF Fulfil, Reconcile
  <2>4. FALSE \in BOOLEAN
    OBVIOUS
  <2> DEFINE t == [Idle EXCEPT !.step = "enqueue", !.target = j, !.again = FALSE]
  <2>5. t \in Task /\ Knows(t, order.sent)
    BY <1>1, <2>1, <2>4, EnqueueType
  <2>6. Become(w, t)
    BY <2>1, <2>3 DEF Enqueue
  <2> HIDE DEF t
  <2>7. UNCHANGED <<job, mails, kicked>>
    BY <1>2 DEF Fulfil, Reconcile
  <2>8. TypeOK'
    BY <1>1, <2>1, <2>2, <2>5, <2>6, <2>7, BecomeType DEF TypeOK
  <2> QED
    BY <1>1, <2>2, <2>5, <2>6, <2>7, <2>8, BecomeType DEF StepOf, IInv, DoneIsMailed
<1>3. ASSUME task[w].step \in Enqueueing
      PROVE  task[w].target \in Jobs /\ task[w].run # "post_fulfill"
  BY <1>3 DEF IInv, Aimed, Knows
<1>4. ASSUME EnqueueRead(w)
      PROVE  StepOf(w)
  <2>1. task[w].step \in Enqueueing
    BY <1>4 DEF EnqueueRead, At, Enqueueing
  <2>2. UNCHANGED <<job, order, mails, faults>>
    BY <1>4 DEF EnqueueRead
  <2>3. CASE Kick(w)
    BY <1>1, <2>1, <2>2, <2>3, KickKeeps DEF StepOf, IInv, DoneIsMailed, TypeOK
  <2>4. ASSUME NEW s \in {"create", "requeue"}, Goto(w, s), kicked' = kicked
        PROVE  StepOf(w)
    <3>1. s \in Step /\ s \in Enqueueing /\ s \notin Running /\ s # "finish"
          /\ s \notin {"healRead", "healFulfil", "staffRead", "staffSend", "staffMark"}
      BY DEF Step, Enqueueing, Running, Handling
    <3>2. Knows([task[w] EXCEPT !.step = s], order.sent)
      BY <1>1, <1>3, <2>1, <3>1, GotoKnows
    <3> QED
      BY <2>2, <2>4, <3>1, <3>2, <1>1, QuietGoto DEF TypeOK
  <2> QED
    BY <1>4, <2>3, <2>4 DEF EnqueueRead
<1>5. ASSUME EnqueueCreate(w) \/ EnqueueRequeue(w)
      PROVE  StepOf(w)
  <2>1. task[w].step \in Enqueueing /\ Kick(w) /\ UNCHANGED <<order, mails, faults>>
    BY <1>5 DEF EnqueueCreate, EnqueueRequeue, At, Enqueueing
  <2> DEFINE j == task[w].target
  <2>2. j \in Jobs /\ job[j] \in Job
    BY <1>1, <1>3, <2>1 DEF TypeOK
  <2>3. PICK r \in Job : Write(j, r) /\ (r.status = "succeeded" => r = job[j])
    <3>1. "pending" \in Status
      BY DEF Status
    <3>2. job[j].stale \in BOOLEAN
      BY <2>2 DEF Job
    <3>3. [job[j] EXCEPT !.status = "pending", !.due = TRUE] \in Job
          /\ [job[j] EXCEPT !.status = "pending", !.due = TRUE].status = "pending"
      BY <2>2, <3>1, Zenon DEF Job
    <3>4. [job[j] EXCEPT !.status = "pending", !.due = TRUE, !.stale = FALSE] \in Job
          /\ [job[j] EXCEPT !.status = "pending", !.due = TRUE, !.stale = FALSE].status = "pending"
      BY <2>2, <3>1, RowType
    <3>5. CASE EnqueueCreate(w)
      <4>1. CASE job[j].status # "none"
        BY <2>2, <3>5, <4>1 DEF EnqueueCreate
      <4>2. CASE job[j].status = "none"
        BY <3>3, <3>5, <4>2 DEF EnqueueCreate
      <4> QED
        BY <4>1, <4>2
    <3>6. CASE EnqueueRequeue(w)
      BY <3>4, <3>6 DEF EnqueueRequeue
    <3> QED
      BY <1>5, <3>5, <3>6
  <2> HIDE DEF j
  <2>4. TypeOK'
    BY <1>1, <2>1, <2>2, <2>3, KickKeeps, WriteType DEF TypeOK
  <2>5. DoneIsMailed'
    BY <1>1, <2>1, <2>2, <2>3, WriteType DEF DoneIsMailed, IInv
  <2> QED
    BY <2>1, <2>4, <2>5, KickKeeps DEF StepOf
<1> QED
  BY <1>2, <1>4, <1>5
\* The next claimed job, or the end.
LEMMA EndRunType ==
  ASSUME IInv, NEW w \in Workers, EndRun(w)
  PROVE  \E t \in Task : Become(w, t) /\ \A sent \in BOOLEAN : Knows(t, sent)
<1>1. task[w] \in Task
  BY DEF IInv, TypeOK
<1> DEFINE c == task[w].claimed
           t == [Idle EXCEPT !.step = "next", !.claimed = c]
<1>2. c \in SUBSET Jobs
  BY <1>1 DEF Task
<1>3. EndRun(w) => Become(w, IF c = {} THEN Idle ELSE t)
  BY DEF EndRun
<1> HIDE DEF c
<1>4. t \in Task /\ t.step = "next"
  BY <1>2, IdleType, Zenon DEF Task, Step
<1> HIDE DEF t
<1>5. \A sent \in BOOLEAN : Knows(t, sent)
  BY <1>4 DEF Knows, Enqueueing, Running, Handling
<1> QED
  BY <1>3, <1>4, <1>5, IdleType, IdleKnows

LEMMA EndRunKeeps ==
  ASSUME IInv, NEW w \in Workers, EndRun(w), faults' \subseteq Allow,
         UNCHANGED <<job, order, mails, kicked>>
  PROVE  StepOf(w)
<1>1. PICK t \in Task : Become(w, t) /\ \A sent \in BOOLEAN : Knows(t, sent)
  BY EndRunType
<1>2. order.sent \in BOOLEAN
  BY DEF IInv, TypeOK, Order
<1> QED
  BY <1>1, <1>2, Quiet

LEMMA DrainSteps ==
  ASSUME IInv, NEW w \in Workers,
         Drain(w) \/ (\E j \in Jobs : RunKicked(w, j)) \/ Select(w) \/ Claim(w) \/ NextClaimed(w)
  PROVE  StepOf(w)
<1>1. TypeOK /\ task[w] \in Task /\ order.sent \in BOOLEAN
  BY DEF IInv, TypeOK, Order
<1>2. ASSUME Drain(w)
      PROVE  StepOf(w)
  <2>1. faults' \subseteq Allow /\ "select" \in Step /\ UNCHANGED <<order, mails, kicked>>
    BY <1>2, BeginType DEF Drain, Step
  <2>2. \A j \in Jobs : Recovered(job[j]) \in Job
                        /\ (Recovered(job[j]).status = "succeeded" => job[j].status = "succeeded")
    <3> SUFFICES ASSUME NEW j \in Jobs
                 PROVE  Recovered(job[j]) \in Job
                        /\ (Recovered(job[j]).status = "succeeded" => job[j].status = "succeeded")
      OBVIOUS
    <3>1. job[j] \in Job /\ "pending" \in Status
      BY <1>1 DEF TypeOK, Status
    <3>2. [job[j] EXCEPT !.status = "pending", !.stale = FALSE] \in Job
          /\ [job[j] EXCEPT !.status = "pending", !.stale = FALSE].status = "pending"
      BY <3>1, Zenon DEF Job
    <3> QED
      BY <3>1, <3>2 DEF Recovered
  <2>3. job' = [j \in Jobs |-> Recovered(job[j])] /\ Goto(w, "select")
    BY <1>2 DEF Drain
  <2>4. Knows([task[w] EXCEPT !.step = "select"], order.sent)
    BY <1>1, <2>1, GotoKnows DEF Enqueueing, Running, Handling
  <2>5. job' \in [Jobs -> Job] /\ DoneIsMailed'
    BY <2>1, <2>2, <2>3, ConstantsAssumption DEF DoneIsMailed, IInv
  <2>6. TypeOK'
    BY <1>1, <2>1, <2>3, <2>5, Goes DEF TypeOK
  <2>7. Become(w, [task[w] EXCEPT !.step = "select"]) /\ [task[w] EXCEPT !.step = "select"] \in Task
    BY <1>1, <2>1, <2>3, GotoType DEF Goto
  <2> QED
    BY <1>1, <2>1, <2>4, <2>5, <2>6, <2>7, BecomeType DEF StepOf
<1>3. ASSUME NEW j \in Jobs, RunKicked(w, j)
      PROVE  StepOf(w)
  <2>1. faults' \subseteq Allow /\ UNCHANGED <<job, order, mails>> /\ kicked' = kicked \ {j}
    BY <1>3, BeginType DEF RunKicked
  <2> DEFINE t == [Idle EXCEPT !.step = "load", !.run = j]
  <2>2. t \in Task /\ t.step = "load" /\ t.run = j
    BY IdleType, Zenon DEF Task, Step
  <2>3. Become(w, t)
    BY <1>3 DEF RunKicked
  <2> HIDE DEF t
  <2>4. Knows(t, order.sent)
    BY <2>2 DEF Knows, Enqueueing
  <2>5. TypeOK'
    BY <1>1, <2>1, <2>2, <2>3, BecomeType DEF TypeOK
  <2> QED
    BY <1>1, <2>1, <2>2, <2>3, <2>4, <2>5, BecomeType DEF StepOf, IInv, DoneIsMailed
<1>4. ASSUME Select(w)
      PROVE  StepOf(w)
  <2> DEFINE due == {j \in Jobs : job[j].status = "pending" /\ job[j].due}
             t == [task[w] EXCEPT !.step = "claim", !.candidates = due]
  <2>1. Become(w, IF due = {} THEN Idle ELSE t) /\ due \in SUBSET Jobs
    BY <1>4 DEF Select
  <2> HIDE DEF due
  <2>2. t \in Task /\ t.step = "claim"
    BY <1>1, <2>1, Zenon DEF Task, Step
  <2> HIDE DEF t
  <2>3. Knows(t, order.sent)
    BY <2>2 DEF Knows, Enqueueing, Running, Handling
  <2>4. UNCHANGED <<job, order, mails, kicked>> /\ faults' \subseteq Allow
    BY <1>1, <1>4 DEF Select, TypeOK
  <2>5. CASE due = {}
    BY <1>1, <2>1, <2>4, <2>5, IdleType, IdleKnows, Quiet
  <2>6. CASE due # {}
    BY <2>1, <2>2, <2>3, <2>4, <2>6, Quiet
  <2> QED
    BY <2>5, <2>6
<1>5. ASSUME Claim(w)
      PROVE  StepOf(w)
  <2>1. PICK j \in task[w].candidates :
          LET rest == task[w].candidates \ {j}
              won  == job[j].status = "pending"
          IN  /\ Write(j, IF won THEN Locked(job[j]) ELSE job[j])
              /\ Become(w, [task[w] EXCEPT !.candidates = rest,
                                           !.claimed = IF won THEN @ \cup {j} ELSE @,
                                           !.step = IF rest = {} THEN "next" ELSE "claim"])
    BY <1>5 DEF Claim
  <2> DEFINE rest == task[w].candidates \ {j}
             won == job[j].status = "pending"
             more == IF won THEN task[w].claimed \cup {j} ELSE task[w].claimed
             s == IF rest = {} THEN "next" ELSE "claim"
             r == IF won THEN Locked(job[j]) ELSE job[j]
             t == [task[w] EXCEPT !.candidates = rest, !.claimed = more, !.step = s]
  <2>2. j \in Jobs /\ rest \in SUBSET Jobs /\ more \in SUBSET Jobs /\ s \in {"next", "claim"}
        /\ s \in Step
    BY <1>1 DEF Task, Step
  <2>3. r \in Job /\ (r.status = "succeeded" => job[j].status = "succeeded")
    BY <1>1, <2>2, LockedType DEF TypeOK
  <2>4. Write(j, r) /\ Become(w, t)
    BY <2>1
  <2> HIDE DEF rest, more, s, r
  <2>5. t \in Task /\ t.step = s
    BY <1>1, <2>2, Zenon DEF Task
  <2> HIDE DEF t
  <2>6. Knows(t, order.sent)
    BY <2>2, <2>5 DEF Knows, Enqueueing, Running, Handling
  <2>7. UNCHANGED <<order, mails, kicked, faults>>
    BY <1>5 DEF Claim
  <2>8. TypeOK'
    BY <1>1, <2>2, <2>3, <2>4, <2>5, <2>7, BecomeType, WriteType DEF TypeOK
  <2>9. DoneIsMailed'
    BY <1>1, <2>2, <2>3, <2>4, <2>7, WriteType, ConstantsAssumption DEF DoneIsMailed, IInv
  <2> QED
    BY <1>1, <2>4, <2>5, <2>6, <2>7, <2>8, <2>9, BecomeType DEF StepOf
<1>6. ASSUME NextClaimed(w)
      PROVE  StepOf(w)
  <2>1. UNCHANGED <<job, order, mails, kicked>> /\ faults' \subseteq Allow
    BY <1>1, <1>6 DEF NextClaimed, TypeOK
  <2>2. CASE Become(w, Idle)
    BY <1>1, <2>1, <2>2, IdleType, IdleKnows, Quiet
  <2>3. ASSUME NEW j \in task[w].claimed,
               Become(w, [task[w] EXCEPT !.claimed = @ \ {j}, !.step = "load", !.run = j])
        PROVE  StepOf(w)
    <3> DEFINE c == task[w].claimed \ {j}
               t == [task[w] EXCEPT !.claimed = c, !.step = "load", !.run = j]
    <3>1. j \in Jobs /\ c \in SUBSET Jobs
      BY <1>1 DEF Task
    <3>2. Become(w, t)
      BY <2>3
    <3> HIDE DEF c
    <3>3. t \in Task /\ t.step = "load" /\ t.run = j
      BY <1>1, <3>1, Zenon DEF Task, Step
    <3> HIDE DEF t
    <3>4. Knows(t, order.sent)
      BY <3>1, <3>3 DEF Knows, Enqueueing
    <3> QED
      BY <2>1, <3>2, <3>3, <3>4, Quiet
  <2> QED
    BY <1>6, <2>2, <2>3 DEF NextClaimed
<1> QED
  BY <1>2, <1>3, <1>4, <1>5, <1>6

LEMMA RunSteps ==
  ASSUME IInv, NEW w \in Workers, Load(w) \/ Take(w) \/ Fresh(w) \/ Finish(w) \/ Retry(w) \/ Bury(w)
  PROVE  StepOf(w)
<1>1. TypeOK /\ task[w] \in Task /\ order.sent \in BOOLEAN
  BY DEF IInv, TypeOK, Order
<1>2. task[w].step \in Running
  BY DEF Load, Take, Fresh, Finish, Retry, Bury, Conclude, At, Running
<1>3. task[w].run \in Jobs /\ job[task[w].run] \in Job
  BY <1>1, <1>2 DEF IInv, Aimed, Knows, TypeOK
<1>4. \A s \in {"take", "fresh"} : s \in Step /\ Knows([task[w] EXCEPT !.step = s], order.sent)
  <2>1. ASSUME NEW s \in {"take", "fresh"}
        PROVE  s \in Step /\ s \notin Enqueueing /\ s # "finish"
               /\ s \notin {"healRead", "healFulfil", "staffRead", "staffSend", "staffMark"}
    BY DEF Step, Enqueueing
  <2> QED
    BY <1>1, <1>3, <2>1, GotoKnows
<1>5. ASSUME Load(w)
      PROVE  StepOf(w)
  <2>1. UNCHANGED <<job, order, mails, kicked>> /\ faults' \subseteq Allow
    BY <1>1, <1>5 DEF Load, TypeOK
  <2>2. EndRun(w) \/ \E s \in {"take", "fresh"} : Goto(w, s)
    BY <1>5 DEF Load
  <2> QED
    BY <1>4, <2>1, <2>2, EndRunKeeps, QuietGoto
<1>6. ASSUME Take(w)
      PROVE  StepOf(w)
  <2> DEFINE j == task[w].run
             r == IF job[j].status = "pending" THEN Locked(job[j]) ELSE job[j]
  <2>1. r \in Job /\ (r.status = "succeeded" => job[j].status = "succeeded")
    BY <1>3, LockedType
  <2>2. Write(j, r) /\ Goto(w, "fresh") /\ UNCHANGED <<order, mails, kicked, faults>> /\ j \in Jobs
    BY <1>3, <1>6 DEF Take
  <2> HIDE DEF r, j
  <2>3. TypeOK'
    BY <1>1, <1>4, <2>1, <2>2, Goes, WriteType DEF TypeOK
  <2>4. DoneIsMailed'
    BY <1>1, <2>1, <2>2, WriteType, ConstantsAssumption DEF DoneIsMailed, IInv
  <2>5. task'[w] = [task[w] EXCEPT !.step = "fresh"]
        /\ \A v \in Workers : v # w => task'[v] = task[v]
    BY <1>1, <2>2 DEF Goto, Become, TypeOK
  <2> QED
    BY <1>4, <2>2, <2>3, <2>4, <2>5 DEF StepOf
<1>7. ASSUME Fresh(w)
      PROVE  StepOf(w)
  <2>1. UNCHANGED <<job, order, mails, kicked>> /\ faults' \subseteq Allow
    BY <1>1, <1>7 DEF Fresh, TypeOK
  <2>2. CASE EndRun(w)
    BY <2>1, <2>2, EndRunKeeps
  <2> DEFINE n == job[task[w].run].attempts
             s == IF task[w].run = "heal" THEN "healRead" ELSE "mailRead"
             t == [task[w] EXCEPT !.attempts = n, !.step = s]
  <2>3. ASSUME Become(w, t)
        PROVE  StepOf(w)
    <3>1. n \in 0..MaxAttempts /\ s \in Step
      BY <1>3 DEF Job, Step, Handling
    <3>2. s \in {"healRead", "mailRead"} /\ (s = "healRead" => task[w].run = "heal")
      OBVIOUS
    <3> HIDE DEF n, s
    <3>3. t \in Task /\ t.step = s /\ t.run = task[w].run
      BY <1>1, <3>1, Zenon DEF Task
    <3> HIDE DEF t
    <3>4. Knows(t, order.sent)
      BY <1>3, <3>2, <3>3 DEF Knows, Enqueueing
    <3> QED
      BY <2>1, <2>3, <3>3, <3>4, Quiet
  <2> QED
    BY <1>7, <2>2, <2>3 DEF Fresh
<1>8. ASSUME Finish(w) \/ Retry(w) \/ Bury(w)
      PROVE  StepOf(w)
  <2> DEFINE j == task[w].run
  <2>1. PICK s \in {"succeeded", "pending", "dead_letter"}, d \in BOOLEAN :
          /\ Write(j, [job[j] EXCEPT !.status = s, !.due = d, !.stale = FALSE])
          /\ s = "succeeded" => At(w, "finish")
    BY <1>3, <1>8 DEF Finish, Retry, Bury, Conclude, Job
  <2>2. EndRun(w) /\ UNCHANGED <<order, mails, kicked, faults>>
    BY <1>8 DEF Finish, Retry, Bury, Conclude
  <2> DEFINE r == [job[j] EXCEPT !.status = s, !.due = d, !.stale = FALSE]
  <2>3. r \in Job /\ r.status = s
    <3>1. s \in Status /\ FALSE \in BOOLEAN /\ job[j] \in Job
      BY <1>3 DEF Status
    <3> QED
      BY <3>1, Zenon DEF Job
  <2>4. j \in Jobs /\ Write(j, r)
    BY <1>3, <2>1
  <2> HIDE DEF r
  <2>5. s = "succeeded" /\ j = "post_fulfill" => order.sent
    BY <2>1 DEF At, IInv, Aimed, Knows
  <2> HIDE DEF j
  <2>6. PICK t \in Task : Become(w, t) /\ \A sent \in BOOLEAN : Knows(t, sent)
    BY <2>2, EndRunType
  <2>7. TypeOK'
    BY <1>1, <2>2, <2>3, <2>4, <2>6, BecomeType, WriteType DEF TypeOK
  <2>8. DoneIsMailed'
    BY <1>1, <2>2, <2>3, <2>4, <2>5, WriteType, ConstantsAssumption DEF DoneIsMailed, IInv
  <2> QED
    BY <1>1, <2>2, <2>6, <2>7, <2>8, BecomeType DEF StepOf
<1> QED
  BY <1>5, <1>6, <1>7, <1>8
\* A handler that fails is retried or given up; the mail is not there yet.
LEMMA ThrowKeeps ==
  ASSUME IInv, NEW w \in Workers, NEW kind, Throw(w, kind), task[w].step \in Running,
         faults' \subseteq Allow, UNCHANGED <<job, order, mails, kicked>>
  PROVE  StepOf(w)
<1>1. TypeOK /\ order.sent \in BOOLEAN /\ task[w].run \in Jobs
  BY DEF IInv, TypeOK, Order, Aimed, Knows
<1>2. PICK s \in {"bury", "retry"} : Goto(w, s)
  BY DEF Throw, Goto
<1>3. s \in Step /\ s \notin Enqueueing /\ s # "finish"
      /\ s \notin {"healRead", "healFulfil", "staffRead", "staffSend", "staffMark"}
  BY DEF Step, Enqueueing
<1>4. Knows([task[w] EXCEPT !.step = s], order.sent)
  BY <1>1, <1>3, GotoKnows
<1> QED
  BY <1>2, <1>3, <1>4, QuietGoto

\* A running worker at s, next, with what it takes to be there.
LEMMA RunGoto ==
  ASSUME IInv, NEW w \in Workers, task[w].step \in Running, NEW sent \in BOOLEAN,
         NEW s \in {"mailSend", "mailMark", "mailRead", "staffRead", "staffSend", "staffMark",
                    "healFulfil", "finish"},
         s = "healFulfil" => task[w].run = "heal",
         s \in {"staffRead", "staffSend", "staffMark"} => task[w].run # "heal" /\ sent,
         s = "finish" /\ task[w].run = "post_fulfill" => sent
  PROVE  s \in Step /\ Knows([task[w] EXCEPT !.step = s], sent)
<1>1. task[w].run \in Jobs
  BY DEF IInv, Aimed, Knows
<1>2. s \in Step /\ s \notin Enqueueing /\ s # "healRead"
  BY DEF Step, Enqueueing, Handling
<1> QED
  BY <1>1, <1>2, GotoKnows

LEMMA HandlerSteps ==
  ASSUME IInv, NEW w \in Workers, Handle(w) \/ HandlerFails(w)
  PROVE  StepOf(w)
<1>1. TypeOK /\ task[w] \in Task /\ order \in Order /\ order.sent \in BOOLEAN
  BY DEF IInv, TypeOK, Order
<1>2. task[w].step \in Handling /\ task[w].step \in Running
  BY DEF Handle, HandlerFails, MailRead, MailSend, MailMark, StaffRead, StaffSend, NoRecipients,
         StaffMark, HealRead, HealFulfil, At, Handling, Running
<1>3. /\ task[w].run \in Jobs
      /\ task[w].step \in {"healRead", "healFulfil"} => task[w].run = "heal"
      /\ task[w].step \in {"staffRead", "staffSend", "staffMark"}
           => task[w].run # "heal" /\ order.sent
  BY <1>2 DEF IInv, Aimed, Knows
<1>4. ASSUME MailRead(w) \/ HealRead(w) \/ StaffRead(w) \/ NoRecipients(w)
      PROVE  StepOf(w)
  <2>1. UNCHANGED <<job, order, mails, kicked>> /\ faults' \subseteq Allow
    BY <1>1, <1>4 DEF MailRead, HealRead, StaffRead, NoRecipients, TypeOK
  <2>2. CASE Throw(w, "TEMP")
    BY <1>2, <2>1, <2>2, ThrowKeeps
  <2>3. ASSUME NEW s \in {"mailSend", "mailRead", "staffRead", "staffSend", "healFulfil", "finish"},
               Goto(w, s),
               s = "healFulfil" => task[w].run = "heal",
               s \in {"staffRead", "staffSend"} => task[w].run # "heal" /\ order.sent,
               s = "finish" /\ task[w].run = "post_fulfill" => order.sent
        PROVE  StepOf(w)
    <3>1. s \in Step /\ Knows([task[w] EXCEPT !.step = s], order.sent)
      BY <1>1, <1>2, <2>3, RunGoto
    <3> QED
      BY <2>1, <2>3, <3>1, QuietGoto
  <2>4. CASE MailRead(w)
    <3>1. CASE order.sent
      BY <2>3, <2>4, <3>1 DEF MailRead, AlreadyMailed, AfterMail
    <3>2. CASE ~order.sent /\ order.tickets
      BY <2>3, <2>4, <3>2 DEF MailRead, AlreadyMailed
    <3>3. CASE ~order.sent /\ ~order.tickets
      BY <2>2, <2>4, <3>3 DEF MailRead, AlreadyMailed
    <3> QED
      BY <3>1, <3>2, <3>3
  <2>5. CASE HealRead(w)
    <3>1. task[w].run = "heal"
      BY <1>3, <2>5 DEF HealRead, At
    <3>2. PICK s \in {"healFulfil", "mailRead", "finish"} : Goto(w, s)
      BY <2>5 DEF HealRead
    <3> QED
      BY <2>3, <3>1, <3>2
  <2>6. CASE StaffRead(w) \/ NoRecipients(w)
    <3>1. task[w].run # "heal" /\ order.sent
      BY <1>3, <2>6 DEF StaffRead, NoRecipients, At
    <3>2. PICK s \in {"finish", "staffSend"} : Goto(w, s)
      BY <2>6 DEF StaffRead, NoRecipients
    <3> QED
      BY <2>3, <3>1, <3>2
  <2> QED
    BY <1>4, <2>4, <2>5, <2>6
<1>5. ASSUME MailSend(w) \/ StaffSend(w)
      PROVE  StepOf(w)
  <2>1. UNCHANGED <<job, order, kicked, faults>> /\ mails' \in Mails
    BY <1>1, <1>5, SentType DEF MailSend, StaffSend
  <2>2. PICK s \in {"mailMark", "staffMark"} :
          /\ Goto(w, s)
          /\ s = "staffMark" => task[w].run # "heal" /\ order.sent
    BY <1>3, <1>5 DEF MailSend, StaffSend, At
  <2>3. s \in Step /\ Knows([task[w] EXCEPT !.step = s], order.sent)
    BY <1>1, <1>2, <2>2, RunGoto
  <2>4. task' \in [Workers -> Task] /\ task'[w] = [task[w] EXCEPT !.step = s]
        /\ \A v \in Workers : v # w => task'[v] = task[v]
    BY <1>1, <2>2, <2>3, Goes, GotoType, BecomeType DEF Goto
  <2>5. TypeOK'
    BY <1>1, <2>1, <2>4 DEF TypeOK
  <2> QED
    BY <2>1, <2>3, <2>4, <2>5 DEF StepOf, IInv, DoneIsMailed
<1>6. ASSUME MailMark(w) \/ StaffMark(w)
      PROVE  StepOf(w)
  <2>1. UNCHANGED <<job, mails, kicked, faults>>
    BY <1>6 DEF MailMark, StaffMark
  <2>2. order' \in Order /\ (order.sent => order'.sent) /\ order'.sent
    <3>1. [order EXCEPT !.sent = TRUE] \in Order /\ [order EXCEPT !.sent = TRUE].sent
      BY <1>1, Zenon DEF Order
    <3>2. [order EXCEPT !.notified = TRUE] \in Order
          /\ [order EXCEPT !.notified = TRUE].sent = order.sent
      BY <1>1, Zenon DEF Order
    <3>3. CASE MailMark(w)
      BY <3>1, <3>3 DEF MailMark
    <3>4. CASE StaffMark(w)
      BY <1>3, <3>2, <3>4 DEF StaffMark, At
    <3> QED
      BY <1>6, <3>3, <3>4
  <2>3. PICK s \in {"finish", "staffRead"} :
          Goto(w, s) /\ (s = "staffRead" => task[w].run # "heal")
    BY <1>6 DEF MailMark, StaffMark, AfterMail
  <2>4. s \in Step /\ Knows([task[w] EXCEPT !.step = s], TRUE)
    BY <1>1, <1>2, <2>3, RunGoto
  <2>5. task' \in [Workers -> Task] /\ task'[w] = [task[w] EXCEPT !.step = s]
        /\ \A v \in Workers : v # w => task'[v] = task[v]
    BY <1>1, <2>3, <2>4, Goes, GotoType, BecomeType DEF Goto
  <2>6. TypeOK'
    BY <1>1, <2>1, <2>2, <2>5 DEF TypeOK
  <2>7. Knows(task'[w], order'.sent)
    BY <2>2, <2>4, <2>5 DEF Knows
  <2> QED
    BY <2>1, <2>2, <2>5, <2>6, <2>7 DEF StepOf, IInv, DoneIsMailed
<1>7. ASSUME HealFulfil(w)
      PROVE  StepOf(w)
  <2>1. UNCHANGED <<job, mails, kicked, faults>>
    BY <1>7 DEF HealFulfil
  <2>2. order' \in Order /\ order'.sent = order.sent
    <3>1. [order EXCEPT !.tickets = TRUE] \in Order
          /\ [order EXCEPT !.tickets = TRUE].sent = order.sent
      BY <1>1, Zenon DEF Order
    <3> QED
      BY <1>7, <3>1 DEF HealFulfil
  <2> DEFINE twice == ~order.tickets \/ ~order.sent
             t == [task[w] EXCEPT !.step = "enqueue", !.target = "post_fulfill", !.again = twice]
  <2>3. twice \in BOOLEAN /\ "post_fulfill" \in Jobs /\ task[w].run # "post_fulfill"
    BY <1>3, <1>7, ConstantsAssumption DEF HealFulfil, At
  <2>4. Become(w, t)
    BY <1>7 DEF HealFulfil, Enqueue
  <2> HIDE DEF twice
  <2>5. t \in Task /\ \A sent \in BOOLEAN : Knows(t, sent)
    BY <1>1, <2>3, EnqueueType
  <2> HIDE DEF t
  <2>6. TypeOK'
    BY <1>1, <2>1, <2>2, <2>4, <2>5, BecomeType DEF TypeOK
  <2> QED
    BY <1>1, <2>1, <2>2, <2>4, <2>5, <2>6, BecomeType DEF StepOf, IInv, DoneIsMailed
<1>8. ASSUME HandlerFails(w)
      PROVE  StepOf(w)
  <2>1. UNCHANGED <<job, order, mails, kicked>> /\ faults' \subseteq Allow
    BY <1>1, <1>8 DEF HandlerFails, TypeOK
  <2>2. PICK kind \in {"TEMP", "PERMANENT"} : Throw(w, kind)
    BY <1>8 DEF HandlerFails
  <2> QED
    BY <1>2, <2>1, <2>2, ThrowKeeps
<1> QED
  BY <1>4, <1>5, <1>6, <1>7, <1>8 DEF Handle

LEMMA CrashSteps ==
  ASSUME IInv, NEW w \in Workers, Crash(w) \/ Restart(w)
  PROVE  StepOf(w)
<1>1. TypeOK /\ order.sent \in BOOLEAN
  BY DEF IInv, TypeOK, Order
<1>2. UNCHANGED <<job, order, mails, kicked>> /\ faults' \subseteq Allow
  BY <1>1 DEF Crash, Restart, TypeOK
<1> DEFINE t == [Idle EXCEPT !.step = "down"]
<1>3. t \in Task /\ t.step = "down"
  BY IdleType, Zenon DEF Task, Step
<1>4. Become(w, t) \/ Become(w, Idle)
  BY DEF Crash, Restart
<1> HIDE DEF t
<1>5. Knows(t, order.sent)
  BY <1>3 DEF Knows, Enqueueing, Running, Handling
<1> QED
  BY <1>1, <1>2, <1>3, <1>4, <1>5, IdleType, IdleKnows, Quiet

\* Locks that expire, retries that fall due, kicks that are lost, days that pass.
LEMMA TimeSteps ==
  ASSUME IInv, (\E j \in Jobs : LoseKick(j) \/ Time(j) \/ Stalls(j)) \/ OrderAges
  PROVE  IInv'
<1>1. TypeOK /\ order \in Order
  BY DEF IInv, TypeOK
<1>2. UNCHANGED <<task, mails>> /\ order'.sent = order.sent /\ order' \in Order
  <2>1. CASE OrderAges
    <3>1. order.age + 1 \in 0..2
      BY <1>1, <2>1 DEF OrderAges, Order
    <3> DEFINE n == order.age + 1
    <3>2. order' = [order EXCEPT !.age = n] /\ UNCHANGED <<task, mails>>
      BY <2>1 DEF OrderAges
    <3> HIDE DEF n
    <3>3. n \in 0..2
      BY <3>1 DEF n
    <3>4. [order EXCEPT !.age = n] \in Order /\ [order EXCEPT !.age = n].sent = order.sent
      BY <1>1, <3>3, Zenon DEF Order
    <3> QED
      BY <3>2, <3>4
  <2>2. CASE \E j \in Jobs : LoseKick(j) \/ Time(j) \/ Stalls(j)
    BY <1>1, <2>2 DEF LoseKick, Time, LockExpires, RetryFallsDue, Stalls, GoStale
  <2> QED
    BY <2>1, <2>2
<1>3. job' \in [Jobs -> Job] /\ \A i \in Jobs : job'[i].status = job[i].status
  <2>1. CASE UNCHANGED job
    BY <1>1, <2>1 DEF TypeOK
  <2>2. ASSUME NEW j \in Jobs, NEW r \in Job, Write(j, r), r.status = job[j].status
        PROVE  job' \in [Jobs -> Job] /\ \A i \in Jobs : job'[i].status = job[i].status
    BY <1>1, <2>2, WriteType
  <2>3. \A j \in Jobs :
          /\ [job[j] EXCEPT !.stale = TRUE] \in Job
          /\ [job[j] EXCEPT !.stale = TRUE].status = job[j].status
          /\ [job[j] EXCEPT !.due = TRUE] \in Job
          /\ [job[j] EXCEPT !.due = TRUE].status = job[j].status
    <3> SUFFICES ASSUME NEW j \in Jobs
                 PROVE  /\ [job[j] EXCEPT !.stale = TRUE] \in Job
                        /\ [job[j] EXCEPT !.stale = TRUE].status = job[j].status
                        /\ [job[j] EXCEPT !.due = TRUE] \in Job
                        /\ [job[j] EXCEPT !.due = TRUE].status = job[j].status
      OBVIOUS
    <3>1. job[j] \in Job
      BY <1>1 DEF TypeOK
    <3> QED
      BY <3>1, Zenon DEF Job
  <2>4. \/ UNCHANGED job
        \/ \E j \in Jobs : \/ Write(j, [job[j] EXCEPT !.stale = TRUE])
                           \/ Write(j, [job[j] EXCEPT !.due = TRUE])
    BY DEF OrderAges, LoseKick, Time, LockExpires, RetryFallsDue, Stalls, GoStale
  <2> QED
    BY <2>1, <2>2, <2>3, <2>4
<1>4. kicked' \subseteq Jobs /\ faults' \subseteq Allow
  BY <1>1 DEF TypeOK, OrderAges, LoseKick, Time, LockExpires, RetryFallsDue, Stalls, GoStale
<1> QED
  BY <1>1, <1>2, <1>3, <1>4, ConstantsAssumption DEF IInv, TypeOK, Aimed, DoneIsMailed

LEMMA WorkerSteps ==
  ASSUME IInv, NEW w \in Workers,
         \/ Fulfil(w) \/ Reconcile(w) \/ Drain(w) \/ \E j \in Jobs : RunKicked(w, j)
         \/ Queue(w) \/ Handle(w) \/ HandlerFails(w) \/ Crash(w) \/ Restart(w)
  PROVE  StepOf(w)
  BY EnqueueSteps, DrainSteps, RunSteps, HandlerSteps, CrashSteps DEF Queue

LEMMA InitHolds == Init => IInv
<1> SUFFICES ASSUME Init PROVE IInv
  OBVIOUS
<1>1. TypeOK
  BY IdleType, ConstantsAssumption DEF Init, TypeOK, Job, Status, Order, Mails
<1>2. Aimed
  BY IdleKnows DEF Init, Aimed
<1>3. DoneIsMailed
  BY ConstantsAssumption DEF Init, DoneIsMailed
<1> QED
  BY <1>1, <1>2, <1>3 DEF IInv

LEMMA NextKeeps == IInv /\ [Next]_vars => IInv'
<1> SUFFICES ASSUME IInv, [Next]_vars PROVE IInv'
  OBVIOUS
<1>1. CASE UNCHANGED vars
  BY <1>1 DEF vars, IInv, TypeOK, Aimed, Knows, DoneIsMailed
<1>2. CASE Next
  BY <1>2, WorkerSteps, StepKeeps, TimeSteps DEF Next
<1> QED
  BY <1>1, <1>2

LEMMA Invariant == Spec => []IInv
<1> QED
  BY InitHolds, NextKeeps, PTL DEF Spec

\* The types of every variable of the queue, for any number of workers and attempts.
THEOREM JobsTyped == Spec => []TypeOK
<1>1. IInv => TypeOK
  BY DEF IInv
<1> QED
  BY <1>1, Invariant, PTL

\* processJobById writes a job's final status without asking who holds its lock:
\* still, whoever writes "succeeded" for the post-fulfilment job has found the
\* buyer's mail sent.
THEOREM DoneHasMailed == Spec => []DoneIsMailed
<1>1. IInv => DoneIsMailed
  BY DEF IInv
<1> QED
  BY <1>1, Invariant, PTL
-----------------------------------------------------------------------------
(* One mail each.  Without a fault one worker is at work at a time, and the *)
(* mail it is about to send is not out.                                     *)

Sending == {"mailSend", "mailMark", "staffSend", "staffMark"}

Unsent ==
    /\ \A w \in Workers : task[w].step = "mailSend" => ~order.sent
    /\ \A w \in Workers : task[w].step = "staffSend" => ~order.notified
    /\ ~order.sent /\ (\A w \in Workers : task[w].step # "mailMark") => mails["buyer"] = 0
    /\ ~order.notified /\ (\A w \in Workers : task[w].step # "staffMark") => mails["staff"] = 0

CalmInv ==
    faults = {} =>
      /\ \A v, w \in Busy : v = w
      /\ Unsent
      /\ mails["buyer"] <= 1 /\ mails["staff"] <= 1

\* Who takes a step is alone at work, before it and after it.
LEMMA WorksAlone ==
  ASSUME IInv, CalmInv, NEW w \in Workers, faults' = {}, StepOf(w),
         \/ Fulfil(w) \/ Reconcile(w) \/ Drain(w) \/ \E j \in Jobs : RunKicked(w, j)
         \/ Queue(w) \/ Handle(w) \/ HandlerFails(w) \/ Restart(w)
  PROVE  /\ faults = {} /\ Unsent
         /\ mails["buyer"] <= 1 /\ mails["staff"] <= 1
         /\ \A v \in Workers : v # w => task'[v] = task[v]
         /\ task[w].step = "down"
              \/ \A v \in Workers : v # w => task[v].step \in {"idle", "down"}
<1>1. \/ Begin(w) \/ task[w].step = "down"
      \/ w \in Busy /\ (UNCHANGED faults \/ HandlerFails(w))
  BY DEF Fulfil, Reconcile, Drain, RunKicked, Queue, Handle, Restart, EnqueueRead, EnqueueCreate,
         EnqueueRequeue, Select, Claim, NextClaimed, Load, Take, Fresh, Finish, Retry, Bury, Conclude,
         HandlerFails, Handling, MailRead, MailSend, MailMark, StaffRead, StaffSend, NoRecipients,
         StaffMark, HealRead, HealFulfil, At, Busy
<1>2. faults = {}
  <2>1. CASE Begin(w)
    BY <2>1 DEF Begin
  <2>2. CASE UNCHANGED faults
    BY <2>2
  <2>3. CASE HandlerFails(w)
    BY <2>3 DEF HandlerFails
  <2>4. CASE Restart(w)
    BY <2>4 DEF Restart
  <2>5. task[w].step = "down" => Restart(w) \/ UNCHANGED faults \/ HandlerFails(w)
    <3>1. Idle.step # "down"
      BY IdleType
    <3> QED
      BY <3>1 DEF Fulfil, Reconcile, Drain, RunKicked, Begin, Queue, Handle, Restart, EnqueueRead,
         EnqueueCreate, EnqueueRequeue, Select, Claim, NextClaimed, Load, Take, Fresh, Finish, Retry,
         Bury, Conclude, MailRead, MailSend, MailMark, StaffRead, StaffSend, NoRecipients,
         StaffMark, HealRead, HealFulfil, At
  <2> QED
    BY <1>1, <2>1, <2>2, <2>3, <2>4, <2>5
<1>3. Begin(w) => Busy = {}
  BY <1>2 DEF Begin
<1> QED
  BY <1>1, <1>2, <1>3 DEF CalmInv, StepOf, Busy

\* A step that sends and records nothing.
LEMMA NothingSent ==
  ASSUME IInv, CalmInv, NEW w \in Workers, faults' = {}, faults = {}, Unsent,
         mails["buyer"] <= 1 /\ mails["staff"] <= 1,
         UNCHANGED mails, order'.sent = order.sent, order'.notified = order.notified,
         \A v \in Workers : v # w => task'[v] = task[v],
         \/ task'[w].step \in {"idle", "down"}
         \/ \A v \in Workers : v # w => task[v].step \in {"idle", "down"},
         task[w].step \notin {"mailMark", "staffMark"}, task'[w].step \notin Sending
  PROVE  CalmInv'
<1>1. Unsent'
  <2>1. \A v \in Workers : task'[v].step = task[v].step \/ v = w
    OBVIOUS
  <2>2. \A v \in Workers : (task'[v].step = "mailMark") = (task[v].step = "mailMark")
                           /\ (task'[v].step = "staffMark") = (task[v].step = "staffMark")
    BY <2>1 DEF Sending
  <2> QED
    BY <2>1, <2>2 DEF Unsent, Sending
<1>2. \A u, v \in Busy' : u = v
  <2>1. CASE task'[w].step \in {"idle", "down"}
    BY <2>1 DEF CalmInv, Busy
  <2>2. CASE \A v \in Workers : v # w => task[v].step \in {"idle", "down"}
    BY <2>2 DEF Busy
  <2> QED
    BY <2>1, <2>2
<1> QED
  BY <1>1, <1>2 DEF CalmInv

\* Where a worker goes that does not handle a mail.
LEMMA GoesElsewhere ==
  ASSUME IInv, NEW w \in Workers,
         \/ Fulfil(w) \/ Reconcile(w) \/ Drain(w) \/ \E j \in Jobs : RunKicked(w, j)
         \/ Queue(w) \/ HandlerFails(w) \/ HealRead(w) \/ HealFulfil(w) \/ NoRecipients(w)
         \/ Restart(w)
  PROVE  /\ task'[w].step \notin Sending
         /\ UNCHANGED mails /\ order'.sent = order.sent /\ order'.notified = order.notified
<1>1. TypeOK /\ task[w] \in Task /\ order \in Order
  BY DEF IInv, TypeOK
<1>2. UNCHANGED mails /\ order'.sent = order.sent /\ order'.notified = order.notified
  <2>1. UNCHANGED mails /\ (UNCHANGED order \/ order' = [order EXCEPT !.tickets = TRUE])
    BY DEF Fulfil, Reconcile, Drain, RunKicked, Queue, EnqueueRead, EnqueueCreate,
         EnqueueRequeue, Select, Claim, NextClaimed, Load, Take, Fresh, Finish, Retry, Bury, Conclude,
         HandlerFails, NoRecipients, HealRead, HealFulfil, Restart
  <2>2. [order EXCEPT !.tickets = TRUE].sent = order.sent
        /\ [order EXCEPT !.tickets = TRUE].notified = order.notified
    BY <1>1 DEF Order
  <2> QED
    BY <2>1, <2>2
<1>3. \A t : Become(w, t) => task'[w] = t
  BY <1>1 DEF TypeOK, Become
<1>4. \A s : [task[w] EXCEPT !.step = s].step = s
  BY <1>1 DEF Task
<1>5. ASSUME NEW s \in Step \ Sending, Goto(w, s)
      PROVE  task'[w].step \notin Sending
  BY <1>3, <1>4, <1>5 DEF Goto
<1>6. CASE Fulfil(w) \/ Reconcile(w) \/ HealFulfil(w)
  <2>1. PICK j, twice : Enqueue(w, j, twice)
    BY <1>6 DEF Fulfil, Reconcile, HealFulfil
  <2>2. task'[w].step = "enqueue"
    BY <1>1, <1>3, <2>1 DEF Enqueue, Task
  <2> QED
    BY <1>2, <2>2 DEF Sending
<1>7. CASE \/ Drain(w) \/ Restart(w) \/ EnqueueRead(w) \/ EnqueueCreate(w) \/ EnqueueRequeue(w)
           \/ HandlerFails(w) \/ HealRead(w) \/ NoRecipients(w)
  <2>1. Kick(w) => task'[w].step \notin Sending
    BY <1>1, <1>3, IdleType DEF Kick, Task, Sending
  <2>2. Become(w, Idle) => task'[w].step \notin Sending
    BY <1>3, IdleType DEF Sending
  <2>3. \/ Kick(w) \/ Become(w, Idle)
        \/ \E s \in {"select", "create", "requeue", "bury", "retry", "healFulfil", "mailRead", "finish"} :
             Goto(w, s)
    BY <1>7 DEF Drain, Restart, EnqueueRead, EnqueueCreate, EnqueueRequeue, HandlerFails, Throw,
                HealRead, NoRecipients, Goto
  <2>4. {"select", "create", "requeue", "bury", "retry", "healFulfil", "mailRead", "finish"}
          \subseteq Step \ Sending
    BY DEF Step, Handling, Sending
  <2> QED
    BY <1>2, <1>5, <2>1, <2>2, <2>3, <2>4
<1>8. CASE \/ \E j \in Jobs : RunKicked(w, j)
           \/ Select(w) \/ Claim(w) \/ NextClaimed(w)
  <2>1. CASE \E j \in Jobs : RunKicked(w, j)
    BY <1>3, <2>1, IdleType DEF RunKicked, Idle, Sending
  <2>2. CASE Select(w)
    BY <1>1, <1>3, <2>2, IdleType DEF Select, Task, Sending
  <2>3. CASE Claim(w)
    BY <1>1, <1>3, <2>3 DEF Claim, Task, Sending
  <2>4. CASE NextClaimed(w)
    BY <1>1, <1>3, <2>4, IdleType DEF NextClaimed, Task, Sending
  <2> QED
    BY <1>2, <1>8, <2>1, <2>2, <2>3, <2>4
<1>9. CASE Load(w) \/ Take(w) \/ Fresh(w) \/ Finish(w) \/ Retry(w) \/ Bury(w)
  <2>1. EndRun(w) => task'[w].step \notin Sending
    BY <1>3, IdleType DEF EndRun, Idle, Sending
  <2>2. CASE Fresh(w)
    BY <1>1, <1>3, <2>1, <2>2 DEF Fresh, Task, Sending
  <2>3. EndRun(w) \/ Fresh(w) \/ Goto(w, "take") \/ Goto(w, "fresh")
    BY <1>9 DEF Load, Take, Finish, Retry, Bury, Conclude
  <2>4. {"take", "fresh"} \subseteq Step \ Sending
    BY DEF Step, Sending, Handling
  <2> QED
    BY <1>2, <1>5, <2>1, <2>2, <2>3, <2>4
<1> QED
  BY <1>6, <1>7, <1>8, <1>9 DEF Queue

LEMMA MailSteps ==
  ASSUME IInv, CalmInv, NEW w \in Workers, faults' = {},
         MailRead(w) \/ MailSend(w) \/ MailMark(w) \/ StaffRead(w) \/ StaffSend(w) \/ StaffMark(w)
  PROVE  CalmInv'
<1>1. TypeOK /\ task[w] \in Task /\ order \in Order /\ w \in Busy
  BY DEF IInv, TypeOK, MailRead, MailSend, MailMark, StaffRead, StaffSend, StaffMark, At, Busy
<1>2. faults = {}
  BY DEF MailRead, MailSend, MailMark, StaffRead, StaffSend, StaffMark
<1>3. /\ Unsent /\ mails["buyer"] <= 1 /\ mails["staff"] <= 1
      /\ \A v \in Workers : v # w => task[v].step \in {"idle", "down"}
  BY <1>1, <1>2 DEF CalmInv, Busy
<1>4. \A v \in Workers : v # w => task'[v] = task[v]
  BY <1>1 DEF TypeOK, MailRead, MailSend, MailMark, StaffRead, StaffSend, StaffMark, Throw, Goto, Become
<1>5. \A u, v \in Busy' : u = v
  BY <1>3, <1>4 DEF Busy
<1>6. \A v \in Workers : v # w => task[v].step \notin Sending /\ task'[v].step \notin Sending
  BY <1>3, <1>4 DEF Sending
<1>7. \A s \in Step : Goto(w, s) => task'[w].step = s
  BY <1>1, Goes
<1>8. /\ order.sent \in BOOLEAN /\ order.notified \in BOOLEAN
      /\ [order EXCEPT !.sent = TRUE].sent /\ [order EXCEPT !.notified = TRUE].notified
      /\ [order EXCEPT !.sent = TRUE].notified = order.notified
      /\ [order EXCEPT !.notified = TRUE].sent = order.sent
  BY <1>1 DEF Order
<1>9. ASSUME MailRead(w)
      PROVE  CalmInv'
  <2>1. task[w].step = "mailRead" /\ UNCHANGED <<order, mails>>
    BY <1>9 DEF MailRead, At
  <2>2. \/ order.sent /\ \E s \in {"finish", "staffRead"} : Goto(w, s)
        \/ ~order.sent /\ \E s \in {"mailSend", "bury", "retry"} : Goto(w, s)
    BY <1>9, <1>8 DEF MailRead, AlreadyMailed, AfterMail, Throw, Goto
  <2>3. /\ task'[w].step \in {"finish", "staffRead", "mailSend", "bury", "retry"}
        /\ task'[w].step = "mailSend" => ~order.sent
    BY <1>7, <2>2 DEF Step, Handling
  <2> QED
    BY <1>3, <1>5, <1>6, <2>1, <2>3 DEF CalmInv, Unsent, Sending
<1>10. ASSUME MailSend(w)
       PROVE  CalmInv'
  <2>1. task[w].step = "mailSend" /\ UNCHANGED order /\ Sent("buyer") /\ task'[w].step = "mailMark"
    BY <1>7, <1>10 DEF MailSend, At, Step, Handling
  <2>2. mails["buyer"] = 0
    BY <1>3, <1>6, <2>1 DEF Unsent, Sending
  <2>3. mails'["buyer"] = 1 /\ mails'["staff"] = mails["staff"]
    BY <1>1, <2>1, <2>2, SentType
  <2> QED
    BY <1>3, <1>5, <1>6, <2>1, <2>3 DEF CalmInv, Unsent, Sending
<1>11. ASSUME MailMark(w)
       PROVE  CalmInv'
  <2>1. task[w].step = "mailMark" /\ UNCHANGED mails /\ order' = [order EXCEPT !.sent = TRUE]
        /\ task'[w].step \in {"finish", "staffRead"}
    BY <1>7, <1>11 DEF MailMark, AfterMail, At, Step, Handling
  <2> QED
    BY <1>3, <1>5, <1>6, <1>8, <2>1 DEF CalmInv, Unsent, Sending
<1>12. ASSUME StaffRead(w)
       PROVE  CalmInv'
  <2>1. task[w].step = "staffRead" /\ UNCHANGED <<order, mails>>
    BY <1>12 DEF StaffRead, At
  <2>2. Goto(w, "finish") \/ (Goto(w, "staffSend") /\ ~order.notified)
    BY <1>12 DEF StaffRead
  <2>3. /\ task'[w].step \in {"finish", "staffSend"}
        /\ task'[w].step = "staffSend" => ~order.notified
    BY <1>7, <2>2 DEF Step, Handling
  <2> QED
    BY <1>3, <1>5, <1>6, <2>1, <2>3 DEF CalmInv, Unsent, Sending
<1>13. ASSUME StaffSend(w)
       PROVE  CalmInv'
  <2>1. task[w].step = "staffSend" /\ UNCHANGED order /\ Sent("staff") /\ task'[w].step = "staffMark"
    BY <1>7, <1>13 DEF StaffSend, At, Step, Handling
  <2>2. mails["staff"] = 0
    BY <1>3, <1>6, <2>1 DEF Unsent, Sending
  <2>3. mails'["staff"] = 1 /\ mails'["buyer"] = mails["buyer"]
    BY <1>1, <2>1, <2>2, SentType
  <2> QED
    BY <1>3, <1>5, <1>6, <2>1, <2>3 DEF CalmInv, Unsent, Sending
<1>14. ASSUME StaffMark(w)
       PROVE  CalmInv'
  <2>1. task[w].step = "staffMark" /\ UNCHANGED mails /\ order' = [order EXCEPT !.notified = TRUE]
        /\ task'[w].step = "finish"
    BY <1>7, <1>14 DEF StaffMark, At, Step, Handling
  <2> QED
    BY <1>3, <1>5, <1>6, <1>8, <2>1 DEF CalmInv, Unsent, Sending
<1> QED
  BY <1>9, <1>10, <1>11, <1>12, <1>13, <1>14

LEMMA CalmNext == IInv /\ CalmInv /\ [Next]_vars => CalmInv'
<1> SUFFICES ASSUME IInv, CalmInv, [Next]_vars, faults' = {} PROVE CalmInv'
  BY DEF CalmInv
<1>1. CASE UNCHANGED vars
  BY <1>1 DEF vars, CalmInv, Unsent, Busy
<1>2. ASSUME NEW w \in Workers, Handle(w), ~HealRead(w), ~HealFulfil(w), ~NoRecipients(w)
      PROVE  CalmInv'
  BY <1>2, MailSteps DEF Handle
<1>3. ASSUME NEW w \in Workers,
             \/ Fulfil(w) \/ Reconcile(w) \/ Drain(w) \/ \E j \in Jobs : RunKicked(w, j)
             \/ Queue(w) \/ HandlerFails(w) \/ HealRead(w) \/ HealFulfil(w) \/ NoRecipients(w)
             \/ Restart(w)
      PROVE  CalmInv'
  <2>1. StepOf(w)
    BY <1>3, WorkerSteps DEF Handle
  <2>2. /\ faults = {} /\ Unsent
        /\ mails["buyer"] <= 1 /\ mails["staff"] <= 1
        /\ \A v \in Workers : v # w => task'[v] = task[v]
        /\ task[w].step = "down"
             \/ \A v \in Workers : v # w => task[v].step \in {"idle", "down"}
    BY <1>3, <2>1, WorksAlone DEF Handle
  <2>3. task[w].step \notin {"mailMark", "staffMark"}
    <3>1. CASE HandlerFails(w)
      BY <1>2, <3>1 DEF HandlerFails, At
    <3>2. CASE ~HandlerFails(w)
      BY <1>3, <3>2, IdleType DEF Fulfil, Reconcile, Drain, RunKicked, Begin, Queue, EnqueueRead,
         EnqueueCreate, EnqueueRequeue, Select, Claim, NextClaimed, Load, Take, Fresh, Finish, Retry,
         Bury, Conclude, NoRecipients, HealRead, HealFulfil, Restart, At
    <3> QED
      BY <3>1, <3>2
  <2>4. \/ task'[w].step \in {"idle", "down"}
        \/ \A v \in Workers : v # w => task[v].step \in {"idle", "down"}
    <3>1. CASE Restart(w)
      BY <3>1, IdleType, BecomeType DEF Restart, IInv
    <3>2. CASE ~Restart(w)
      <4>1. task[w].step # "down"
        BY <1>3, <3>2, IdleType DEF Fulfil, Reconcile, Drain, RunKicked, Begin, Queue, EnqueueRead,
         EnqueueCreate, EnqueueRequeue, Select, Claim, NextClaimed, Load, Take, Fresh, Finish, Retry,
         Bury, Conclude, NoRecipients, HealRead, HealFulfil, HandlerFails, Handling, At
      <4> QED
        BY <2>2, <4>1
    <3> QED
      BY <3>1, <3>2
  <2>5. task'[w].step \notin Sending
        /\ UNCHANGED mails /\ order'.sent = order.sent /\ order'.notified = order.notified
    BY <1>3, GoesElsewhere
  <2> QED
    BY <2>2, <2>3, <2>4, <2>5, NothingSent
<1>4. ASSUME NEW w \in Workers, Crash(w)
      PROVE  CalmInv'
  BY <1>4 DEF Crash
<1>5. CASE (\E j \in Jobs : LoseKick(j) \/ Time(j) \/ Stalls(j)) \/ OrderAges
  <2>1. /\ UNCHANGED <<task, mails>> /\ order'.sent = order.sent /\ order'.notified = order.notified
        /\ faults = {}
    <3>1. order \in Order
      BY DEF IInv, TypeOK
    <3>2. \A n : [order EXCEPT !.age = n].sent = order.sent
                 /\ [order EXCEPT !.age = n].notified = order.notified
      BY <3>1 DEF Order
    <3>3. CASE OrderAges
      BY <3>2, <3>3 DEF OrderAges
    <3>4. CASE \E j \in Jobs : LoseKick(j) \/ Time(j) \/ Stalls(j)
      BY <3>4 DEF LoseKick, Time, LockExpires, RetryFallsDue, Stalls, GoStale
    <3> QED
      BY <1>5, <3>3, <3>4
  <2> QED
    BY <2>1 DEF CalmInv, Unsent, Busy
<1> QED
  BY <1>1, <1>2, <1>3, <1>4, <1>5 DEF Next

LEMMA CalmInit == Init => CalmInv
  BY IdleType DEF Init, CalmInv, Unsent, Busy

\* Whatever fails in mail server and statements, and however often the jobs are
\* enqueued, claimed, retried and healed: without overlap, crash, stall or a mail
\* that could not be recorded, nobody is mailed twice.
THEOREM NobodyMailedTwice == Spec => []MailedOnce
<1>1. IInv /\ CalmInv /\ [Next]_vars => IInv' /\ CalmInv'
  BY NextKeeps, CalmNext
<1>2. Init => IInv /\ CalmInv
  BY InitHolds, CalmInit
<1>3. CalmInv => MailedOnce
  BY DEF CalmInv, MailedOnce
<1> QED
  BY <1>1, <1>2, <1>3, PTL DEF Spec
=============================================================================
