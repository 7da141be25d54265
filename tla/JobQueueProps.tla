--------------------------- MODULE JobQueueProps ---------------------------
(* What the background jobs promise. *)
EXTENDS JobQueue

\* Every row and every worker has its type.
TypeOK ==
    /\ job \in [Jobs -> Job]
    /\ order \in Order
    /\ mails \in Mails
    /\ kicked \subseteq Jobs
    /\ task \in [Workers -> Task]
    /\ faults \subseteq Allow

\* A finished post-fulfilment job has mailed the buyer, whichever of the workers
\* that ran it wrote the status last.
DoneIsMailed == job["post_fulfill"].status = "succeeded" => order.sent

\* Buyer and staff get one mail each, however often mail server and statements
\* fail and whichever job sends it, unless one of the faults has happened.
MailedOnce == faults = {} => mails["buyer"] <= 1 /\ mails["staff"] <= 1

\* No job stays queued or locked for ever, whatever fails and whoever crashes: it
\* succeeds or is given up.
NothingStuck ==
    \A j \in Jobs : job[j].status \in {"pending", "processing"}
                      ~> job[j].status \in {"succeeded", "dead_letter"}

\* If the mail server works in the end, the buyer of a paid order gets the tickets,
\* also when the first worker, the kick or the enqueueing itself was lost, unless
\* a week has gone by.
BuyerIsMailed == MailWorks => <>(order.sent \/ order.age = 2)
=============================================================================
