------------------------------- MODULE Payout -------------------------------
(***************************************************************************)
(* One Stripe payout and its local books: the webhooks and the daily job   *)
(* that import it, the mapping of its balance transactions to orders, and  *)
(* the final documents.  Every statement of an import is a step, and every *)
(* answer of Stripe may be old by the time it is written.                  *)
(*                                                                         *)
(* The payouts are automatic ones, and the balance transactions are       *)
(* upserted in one step.                                                   *)
(***************************************************************************)
EXTENDS Integers, FiniteSetsExt

CONSTANTS
    Entries,       \* the balance transactions of the payout
    Importers,     \* processes that import: requests and cron runs
    KindOf, NetOf, \* their classification, and their net in cents
    DocumentTypes, \* revenue, costs and reconciliation
    PayoutAllow    \* faults that may happen

EntryKinds == {"payment", "fee", "unknown"}

\* outage:  Stripe does not answer.
\* crash:   a process ends between two of its steps.
\* overlap: two processes work on the payout at once.
\* late:    a status is written that Stripe has left meanwhile.
\* crossed: an import or a webhook comes between the documents.
\* twice:   the documents are built again, from a page that still offers it.
PayoutFaults == {"outage", "crash", "overlap", "late", "crossed", "twice"}

ASSUME PayoutAssumption ==
    /\ IsFiniteSet(Entries) /\ DocumentTypes # {}
    /\ KindOf \in [Entries -> EntryKinds] /\ NetOf \in [Entries -> Int]
    /\ PayoutAllow \subseteq PayoutFaults

VARIABLES
    remote,    \* Stripe's payout, what it lists of it, and the orders that can be found
    notices,   \* webhooks not yet processed
    payout,    \* the row of stripe_payouts
    entry,     \* stripe_balance_transactions: the mapping status
    import,    \* what each process is doing
    notary,    \* the finalisation under way: document types still to build
    papers,    \* the final documents
    told,      \* the failure of the payout has been written
    lapses     \* faults so far

payoutVars == <<remote, notices, payout, entry, import, notary, papers, told, lapses>>

-----------------------------------------------------------------------------
Sums(es) == MapThenSumSet(LAMBDA e : NetOf[e], es)

\* The net of its transactions is what Stripe pays out.
PaidOut == Sums(Entries)

RemoteStatus == {"pending", "paid", "failed"}
Recon == {"announced", "importing", "in_progress", "unreconciled", "reconciled",
          "review_required", "awaiting_stripe_data", "payout_failed"}

PayoutRow == [exists: BOOLEAN, status: RemoteStatus, recon: Recon, complete: BOOLEAN,
              error: BOOLEAN, finalized: BOOLEAN]

NoRow == [exists |-> FALSE, status |-> "pending", recon |-> "announced", complete |-> FALSE,
          error |-> FALSE, finalized |-> FALSE]

\* notice is the webhook it works for, status Stripe's answer, result what it will write.
ImportTask == [at: {"listed", "begin", "answered", "store", "judge", "conclude"},
               notice: RemoteStatus \cup {"none"}, status: RemoteStatus, result: Recon]

Resting == [at |-> "idle", notice |-> "none", status |-> "pending", result |-> "announced"]

Stored == {e \in Entries : entry[e] # "absent"}
NeedsOrder(e) == KindOf[e] = "payment"
Unmapped == {e \in Entries : NeedsOrder(e) /\ entry[e] = "unmapped"}
Importing == {w \in Importers : import[w] # Resting}

Slip(fs) == fs \subseteq PayoutAllow /\ lapses' = lapses \cup fs

Moves(w, at) == import' = [import EXCEPT ![w].at = at]

-----------------------------------------------------------------------------
(* Stripe *)

Announces(status) == remote' = [remote EXCEPT !.status = status]
                     /\ notices' = notices \cup {status}

\* Announced, paid, and perhaps failed after all.
StripePays ==
    /\ \/ remote.status = "none" /\ Announces("pending")
       \/ remote.status = "pending" /\ Announces("paid")
       \/ remote.status \in {"pending", "paid"} /\ Announces("failed")
    /\ UNCHANGED <<payout, entry, import, notary, papers, told, lapses>>

\* A transaction is listed, an order gets the ids it can be found by.
StripeLists(e) ==
    /\ remote.status # "none" /\ e \notin remote.listed
    /\ remote' = [remote EXCEPT !.listed = @ \cup {e}]
    /\ UNCHANGED <<notices, payout, entry, import, notary, papers, told, lapses>>

OrderLinked(e) ==
    /\ NeedsOrder(e) /\ e \notin remote.linked
    /\ remote' = [remote EXCEPT !.linked = @ \cup {e}]
    /\ UNCHANGED <<notices, payout, entry, import, notary, papers, told, lapses>>

-----------------------------------------------------------------------------
(* The import *)

\* upsertStripePayoutFromObject, which marks a failed payout at the end; a late status
\* is one that Stripe has left.
Upserted(status) ==
    [payout EXCEPT !.exists = TRUE, !.status = status,
                   !.recon = IF status = "failed" THEN "payout_failed" ELSE @]

Upsert(status) ==
    /\ payout' = Upserted(status)
    /\ told' = (told \/ status = "failed")

Stale(status) == IF status # remote.status THEN {"late"} ELSE {}

Crowd == (IF Importing = {} THEN {} ELSE {"overlap"}) \cup (IF notary = {} THEN {} ELSE {"crossed"})

\* payout.created and payout.failed write the status, payout.paid imports as well.
Webhook(w, n) ==
    /\ n \in notices /\ import[w] = Resting
    /\ Slip(Stale(n) \cup Crowd)
    /\ notices' = notices \ {n}
    /\ Upsert(n)
    /\ IF n = "paid" THEN import' = [import EXCEPT ![w].at = "begin", ![w].notice = n]
       ELSE UNCHANGED import
    /\ UNCHANGED <<remote, entry, notary, papers>>

\* runPayoutReconcileJob gets the list of payouts,
DailyAsk(w) ==
    /\ remote.status # "none" /\ import[w] = Resting
    /\ Slip(Crowd)
    /\ import' = [import EXCEPT ![w].at = "listed", ![w].status = remote.status]
    /\ UNCHANGED <<remote, notices, payout, entry, notary, papers, told>>

\* Mutant: a payout that was imported completely once is not imported again.
DailyOnce(w) ==
    /\ import[w].at = "listed"
    /\ Slip(Stale(import[w].status))
    /\ Upsert(import[w].status)
    /\ import' = [import EXCEPT ![w] =
                    IF ~payout.complete THEN [Resting EXCEPT !.at = "begin"] ELSE Resting]
    /\ UNCHANGED <<remote, notices, entry, notary, papers>>

\* writes each, and imports it unless it was reconciled, completely and without error.
DailyUpsert(w) ==
    /\ import[w].at = "listed"
    /\ Slip(Stale(import[w].status))
    /\ Upsert(import[w].status)
    /\ import' = [import EXCEPT ![w] =
                    IF payout.recon # "reconciled" \/ ~payout.complete \/ payout.error
                    THEN [Resting EXCEPT !.at = "begin"] ELSE Resting]
    /\ UNCHANGED <<remote, notices, entry, notary, papers>>

\* syncPayoutAction; and mapOrderAction, which sets the order of one transaction first.
Sync(w) ==
    /\ payout.exists /\ import[w] = Resting
    /\ Slip(Crowd)
    /\ Moves(w, "begin")
    /\ UNCHANGED <<remote, notices, payout, entry, notary, papers, told>>

MapOrder(w, e) ==
    /\ e \in Unmapped /\ import[w] = Resting
    /\ Slip(Crowd)
    /\ entry' = [entry EXCEPT ![e] = "manual"]
    /\ Moves(w, "begin")
    /\ UNCHANGED <<remote, notices, payout, notary, papers, told>>

\* importPayoutBalanceTransactions marks the row and asks for the payout,
StartImport(w) ==
    /\ import[w].at = "begin"
    /\ payout' = [payout EXCEPT !.recon = "importing", !.error = FALSE]
    /\ import' = [import EXCEPT ![w].at = "answered", ![w].status = remote.status]
    /\ UNCHANGED <<remote, notices, entry, notary, papers, told, lapses>>

\* writes it, and asks for its transactions.
Refresh(w) ==
    /\ import[w].at = "answered"
    /\ Slip(Stale(import[w].status))
    /\ Upsert(import[w].status)
    /\ import' = [import EXCEPT ![w].at = "store", ![w].status = Resting.status]
    /\ UNCHANGED <<remote, notices, entry, notary, papers>>

\* The transactions are listed and upserted: a mapping that was made by hand gives way
\* to what the import finds.
Mapped(e) == IF NeedsOrder(e) /\ e \notin remote.linked THEN "unmapped" ELSE "mapped"

Store(w) ==
    /\ import[w].at = "store"
    /\ entry' = [e \in Entries |-> IF e \in remote.listed THEN Mapped(e) ELSE entry[e]]
    /\ import' = [import EXCEPT ![w] = [Resting EXCEPT !.at = "judge"]]
    /\ UNCHANGED <<remote, notices, payout, notary, papers, told, lapses>>

\* Mutant: the sum of the transactions is not compared with the payout.
VerdictUnsummed ==
    IF (\E e \in Stored : KindOf[e] = "unknown") \/ Unmapped # {} THEN "review_required"
    ELSE IF Stored = {} THEN "awaiting_stripe_data"
    ELSE "reconciled"

Verdict ==
    IF (\E e \in Stored : KindOf[e] = "unknown") \/ Unmapped # {} THEN "review_required"
    ELSE IF Sums(Stored) # PaidOut THEN "unreconciled"
    ELSE IF Stored = {} THEN "awaiting_stripe_data"
    ELSE "reconciled"

Judge(w) ==
    /\ import[w].at = "judge"
    /\ import' = [import EXCEPT ![w].at = "conclude", ![w].result = Verdict]
    /\ UNCHANGED <<remote, notices, payout, entry, notary, papers, told, lapses>>

Conclude(w) ==
    /\ import[w].at = "conclude"
    /\ payout' = [payout EXCEPT !.recon = import[w].result, !.complete = TRUE,
                                !.error = import[w].result # "reconciled"]
    /\ import' = [import EXCEPT ![w] = Resting]
    /\ UNCHANGED <<remote, notices, entry, notary, papers, told, lapses>>

\* Stripe does not answer: the event is failed, and delivered or retried again.
Fails(w) ==
    /\ import[w].at \in {"answered", "store"}
    /\ Slip({"outage"})
    /\ payout' = [payout EXCEPT !.recon = "in_progress", !.error = TRUE]
    /\ notices' = notices \cup ({import[w].notice} \ {"none"})
    /\ import' = [import EXCEPT ![w] = Resting]
    /\ UNCHANGED <<remote, entry, notary, papers, told>>

\* The inbox takes the event of a crashed request for one in work.
Dies(w) ==
    /\ import[w] # Resting
    /\ Slip({"crash"})
    /\ import' = [import EXCEPT ![w] = Resting]
    /\ UNCHANGED <<remote, notices, payout, entry, notary, papers, told>>

-----------------------------------------------------------------------------
(* finalizePayoutDocuments *)

\* The page offers it until the documents are final, the action does not look.
Finalize ==
    /\ notary = {}
    /\ payout.exists /\ payout.recon = "reconciled" /\ payout.status # "failed"
    /\ Unmapped = {} /\ \A e \in Stored : KindOf[e] # "unknown"
    /\ Slip((IF \E d \in DocumentTypes : papers[d].count > 0 THEN {"twice"} ELSE {})
             \cup (IF Importing = {} THEN {} ELSE {"crossed"}))
    /\ notary' = DocumentTypes
    /\ UNCHANGED <<remote, notices, payout, entry, import, papers, told>>

\* Each document reads the books anew.
Balanced == payout.recon = "reconciled" /\ Sums(Stored) = PaidOut /\ Unmapped = {}

Build(d) ==
    /\ d \in notary
    /\ papers' = [papers EXCEPT ![d] = [count |-> IF @.count = 2 THEN 2 ELSE @.count + 1,
                                        sound |-> @.sound /\ Balanced /\ ~told]]
    /\ notary' = notary \ {d}
    /\ payout' = [payout EXCEPT !.finalized = @ \/ notary = {d}]
    /\ UNCHANGED <<remote, notices, entry, import, told, lapses>>

\* The request ends before its last document.
Abandon ==
    /\ notary # {}
    /\ Slip({"crash"})
    /\ notary' = {}
    /\ UNCHANGED <<remote, notices, payout, entry, import, papers, told>>

-----------------------------------------------------------------------------
PayoutInit ==
    /\ remote = [status |-> "none", listed |-> {}, linked |-> {}]
    /\ notices = {} /\ payout = NoRow /\ entry = [e \in Entries |-> "absent"]
    /\ import = [w \in Importers |-> Resting]
    /\ notary = {} /\ papers = [d \in DocumentTypes |-> [count |-> 0, sound |-> TRUE]]
    /\ told = FALSE /\ lapses = {}

Works(w) ==
    \/ DailyUpsert(w) \/ StartImport(w) \/ Refresh(w) \/ Store(w) \/ Judge(w) \/ Conclude(w)

PayoutNext ==
    \/ StripePays \/ \E e \in Entries : StripeLists(e) \/ OrderLinked(e)
    \/ \E w \in Importers : \/ \E n \in notices : Webhook(w, n)
                            \/ DailyAsk(w) \/ Sync(w) \/ \E e \in Entries : MapOrder(w, e)
                            \/ Works(w) \/ Fails(w) \/ Dies(w)
    \/ Finalize \/ \E d \in DocumentTypes : Build(d)
    \/ Abandon

\* The daily job runs every day and its requests go on; outages and crashes end.
PayoutFair ==
    /\ \A w \in Importers : WF_payoutVars(DailyAsk(w)) /\ WF_payoutVars(Works(w))
    /\ <>[][\A w \in Importers : ~Fails(w) /\ ~Dies(w)]_payoutVars

PayoutSpec == PayoutInit /\ [][PayoutNext]_payoutVars /\ PayoutFair

-----------------------------------------------------------------------------
(* Properties *)

\* No part of the transactions adds up to the payout.
NoPartBalances == \A es \in SUBSET Entries : Sums(es) = PaidOut => es = Entries

\* Unless an import is under way while they are built, the button is used twice, or an
\* old status is written over a newer one, there is one document of each kind; it shows
\* books that balance with every sale mapped to an order, and none is built once the
\* failure of the payout has been written.  Imports may overlap only if no part of the
\* transactions balances: else an old verdict outlives the books it was made of.
DocumentsShowBalance ==
    /\ lapses \cap {"crossed", "twice", "late"} = {}
    /\ "overlap" \in lapses => NoPartBalances
    => \A d \in DocumentTypes : papers[d].count <= 1 /\ papers[d].sound

\* A payout that Stripe has paid and listed, and whose orders can be found, is
\* reconciled in the end, and its documents can be built, whatever fails.
Clear == /\ remote.status = "paid"
         /\ remote.listed = Entries /\ {e \in Entries : NeedsOrder(e)} \subseteq remote.linked

PayoutSettles ==
    Clear ~> (payout.recon = "reconciled" /\ Unmapped = {}) \/ remote.status # "paid"
=============================================================================
