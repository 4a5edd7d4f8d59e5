------------------------------ MODULE Billing ------------------------------
(***************************************************************************)
(* BillingService (src/app/billing/service.py): purchase, receipt, review  *)
(* and expiry of subscriptions, called concurrently by the central bot,    *)
(* the admin panel, the admin API and the scheduler.                       *)
(*                                                                         *)
(* Every caller runs one READ COMMITTED transaction.  The transaction      *)
(* checks what it loaded, without a lock; approve and reject then lock the *)
(* payment row, when the autoflush before the SELECT of the subscription   *)
(* sends their UPDATE.  What remains of the transaction touches only rows  *)
(* it locks, so it is one step with the commit.  purchase inserts one      *)
(* subscription with each payment; the pair is numbered alike here.        *)
(***************************************************************************)
EXTENDS Naturals

CONSTANTS
    Users,        \* each user owns at most one userbot
    Txns,         \* transactions that may be open at the same time
    MaxPayments,  \* bound: purchases in one behaviour
    Duration,     \* plan.duration_days
    MaxNow,       \* bound: days in one behaviour
    MaxFaults     \* bound: transactions that fail

None == "none"
Payments == 1..MaxPayments

ASSUME BillingAssumption ==
    /\ MaxPayments \in Nat
    /\ Duration \in Nat \ {0}
    /\ MaxNow \in Nat
    /\ MaxFaults \in Nat
    /\ None \notin Users

VARIABLES
    owner,    \* payment -> user, None before the purchase
    payment,  \* payments.status, None before the purchase
    sub,      \* subscriptions: status and expires_at
    receipt,  \* payments with a row in payment_receipts
    userbot,  \* userbots.status as far as billing tells statuses apart
    txn,      \* open transactions
    tick,     \* the scheduler: "idle" or "due", after list_expired_active
    due,      \* the subscriptions list_expired_active returned
    now,      \* the day
    faults    \* transactions failed so far

rows == <<owner, payment, sub, receipt, userbot>>
scheduler == <<tick, due>>
vars == <<rows, txn, scheduler, now, faults>>

-----------------------------------------------------------------------------

Txn(op, at, u, p, read) ==
    [op |-> op, at |-> at, user |-> u, payment |-> p, read |-> read, opened |-> now]

Idle == [op |-> None, at |-> "idle", user |-> None, payment |-> 0, read |-> None, opened |-> 0]

NoSub == [status |-> None, expires |-> 0]

ActiveOf(u) == {p \in Payments : owner[p] = u /\ sub[p].status = "active"}

\* Another transaction has the payment row locked.
PaymentLocked(p) == \E t \in Txns : txn[t].at = "locked" /\ txn[t].payment = p

\* purchase: active_for_user() found nothing.  With one active subscription
\* the caller gets ConflictError, with two scalar_one_or_none() raises.
PurchaseCheck(t, u) ==
    /\ txn[t] = Idle
    /\ ActiveOf(u) = {}
    /\ txn' = [txn EXCEPT ![t] = Txn("purchase", "checked", u, 0, None)]
    /\ UNCHANGED <<rows, scheduler, now, faults>>

\* purchase: the two INSERTs and the caller's commit.
PurchaseCommit(t, p) ==
    /\ txn[t].op = "purchase"
    /\ payment[p] = None
    /\ \A q \in Payments : q < p => payment[q] # None
    /\ owner' = [owner EXCEPT ![p] = txn[t].user]
    /\ payment' = [payment EXCEPT ![p] = "pending"]
    /\ sub' = [sub EXCEPT ![p] = [status |-> "pending", expires |-> 0]]
    /\ txn' = [txn EXCEPT ![t] = Idle]
    /\ UNCHANGED <<receipt, userbot, scheduler, now, faults>>

\* add_receipt, approve_payment and reject_payment load the payment and go on
\* only while it is pending.
ReviewCheck(t, op, p) ==
    /\ txn[t] = Idle
    /\ payment[p] = "pending"
    /\ txn' = [txn EXCEPT ![t] = Txn(op, "checked", owner[p], p, None)]
    /\ UNCHANGED <<rows, scheduler, now, faults>>

ReceiptCommit(t) ==
    /\ txn[t].op = "receipt"
    /\ receipt' = receipt \cup {txn[t].payment}
    /\ txn' = [txn EXCEPT ![t] = Idle]
    /\ UNCHANGED <<owner, payment, sub, userbot, scheduler, now, faults>>

\* approve and reject: the autoflush before subscriptions.get waits for the
\* payment row; the subscription is loaded after that.
ReviewLock(t) ==
    /\ txn[t].op \in {"approve", "reject"}
    /\ txn[t].at = "checked"
    /\ ~PaymentLocked(txn[t].payment)
    /\ txn' = [txn EXCEPT ![t].at = "locked", ![t].read = sub[txn[t].payment].status]
    /\ UNCHANGED <<rows, scheduler, now, faults>>

\* Mutant of ApproveCommit: the subscription is left as it is.
ApproveCommitNoSub(t) ==
    LET p == txn[t].payment
    IN  /\ txn[t].op = "approve" /\ txn[t].at = "locked"
        /\ payment' = [payment EXCEPT ![p] = "approved"]
        /\ txn' = [txn EXCEPT ![t] = Idle]
        /\ UNCHANGED <<owner, sub, userbot, receipt, scheduler, now, faults>>

\* approve_payment to its commit.  The status column is written only if the
\* loaded status was another one; expires_at counts from the time read before
\* the lock.  The userbot is set to STOPPED.
ApproveCommit(t) ==
    LET p == txn[t].payment
    IN  /\ txn[t].op = "approve"
        /\ txn[t].at = "locked"
        /\ payment' = [payment EXCEPT ![p] = "approved"]
        /\ sub' = [sub EXCEPT
             ![p].status = IF txn[t].read = "active" THEN sub[p].status ELSE "active",
             ![p].expires = txn[t].opened + Duration]
        /\ userbot' = [userbot EXCEPT ![owner[p]] = "STOPPED"]
        /\ txn' = [txn EXCEPT ![t] = Idle]
        /\ UNCHANGED <<owner, receipt, scheduler, now, faults>>

\* Mutant of RejectCommit: the payment's verdict is written to the subscription.
RejectCommitVerdict(t) ==
    LET p == txn[t].payment
    IN  /\ txn[t].op = "reject" /\ txn[t].at = "locked"
        /\ payment' = [payment EXCEPT ![p] = "rejected"]
        /\ sub' = [sub EXCEPT ![p].status = "rejected"]
        /\ txn' = [txn EXCEPT ![t] = Idle]
        /\ UNCHANGED <<owner, receipt, userbot, scheduler, now, faults>>

\* reject_payment to its commit: a pending subscription is cancelled.
RejectCommit(t) ==
    LET p == txn[t].payment
    IN  /\ txn[t].op = "reject"
        /\ txn[t].at = "locked"
        /\ payment' = [payment EXCEPT ![p] = "rejected"]
        /\ sub' = IF txn[t].read = "pending"
                  THEN [sub EXCEPT ![p].status = "cancelled"] ELSE sub
        /\ txn' = [txn EXCEPT ![t] = Idle]
        /\ UNCHANGED <<owner, receipt, userbot, scheduler, now, faults>>

\* The connection, the process or a later statement fails before the commit.
TxnFails(t) ==
    /\ txn[t] # Idle
    /\ faults < MaxFaults
    /\ faults' = faults + 1
    /\ txn' = [txn EXCEPT ![t] = Idle]
    /\ UNCHANGED <<rows, scheduler, now>>

-----------------------------------------------------------------------------
(* expire_due_subscriptions, called by the scheduler's tick.               *)

PastDue(p) == sub[p].status = "active" /\ sub[p].expires < now

\* Mutant of TickSelect: the last day is counted as past due.
TickSelectEarly ==
    /\ tick = "idle"
    /\ tick' = "due"
    /\ due' = {p \in Payments : sub[p].status = "active" /\ sub[p].expires <= now}
    /\ UNCHANGED <<rows, txn, now, faults>>

\* list_expired_active(now).
TickSelect ==
    /\ tick = "idle"
    /\ tick' = "due"
    /\ due' = {p \in Payments : PastDue(p)}
    /\ UNCHANGED <<rows, txn, now, faults>>

\* Mutant of TickCommit: the subscriptions keep their status.
TickCommitNoExpiry ==
    /\ tick = "due"
    /\ userbot' = [u \in Users |-> IF \E p \in due : owner[p] = u THEN "SUSPENDED" ELSE userbot[u]]
    /\ tick' = "idle"
    /\ due' = {}
    /\ UNCHANGED <<sub, owner, payment, receipt, txn, now, faults>>

\* The loop over the due subscriptions and the tick's commit.
TickCommit ==
    /\ tick = "due"
    /\ sub' = [p \in Payments |-> IF p \in due THEN [sub[p] EXCEPT !.status = "expired"] ELSE sub[p]]
    /\ userbot' = [u \in Users |-> IF \E p \in due : owner[p] = u THEN "SUSPENDED" ELSE userbot[u]]
    /\ tick' = "idle"
    /\ due' = {}
    /\ UNCHANGED <<owner, payment, receipt, txn, now, faults>>

\* run_scheduler rolls a failed tick back; the next one starts afresh.
TickFails ==
    /\ tick = "due"
    /\ faults < MaxFaults
    /\ faults' = faults + 1
    /\ tick' = "idle"
    /\ due' = {}
    /\ UNCHANGED <<rows, txn, now>>

-----------------------------------------------------------------------------

\* UserbotService.request_start, which asks for no subscription.
UserbotStarts(u) ==
    /\ userbot[u] # "STARTING"
    /\ userbot' = [userbot EXCEPT ![u] = "STARTING"]
    /\ UNCHANGED <<owner, payment, sub, receipt, txn, scheduler, now, faults>>

\* A day passes.  A transaction, which takes seconds, is open for at most half
\* the days of a plan; a tick may take longer.
NextDay ==
    /\ now < MaxNow
    /\ \A t \in Txns : txn[t] # Idle => 2 * (now + 1) <= 2 * txn[t].opened + Duration
    /\ now' = now + 1
    /\ UNCHANGED <<rows, txn, scheduler, faults>>

Init ==
    /\ owner = [p \in Payments |-> None]
    /\ payment = [p \in Payments |-> None]
    /\ sub = [p \in Payments |-> NoSub]
    /\ receipt = {}
    /\ userbot \in [Users -> {"STOPPED", "STARTING"}]
    /\ txn = [t \in Txns |-> Idle]
    /\ tick = "idle"
    /\ due = {}
    /\ now = 0
    /\ faults = 0

TxnNext(t) ==
    \/ \E u \in Users : PurchaseCheck(t, u)
    \/ \E p \in Payments : PurchaseCommit(t, p)
    \/ \E p \in Payments, op \in {"receipt", "approve", "reject"} : ReviewCheck(t, op, p)
    \/ ReceiptCommit(t) \/ ReviewLock(t) \/ ApproveCommit(t) \/ RejectCommit(t)
    \/ TxnFails(t)

Next ==
    \/ \E t \in Txns : TxnNext(t)
    \/ TickSelect \/ TickCommit \/ TickFails
    \/ \E u \in Users : UserbotStarts(u)
    \/ NextDay

Spec == Init /\ [][Next]_vars

\* run_scheduler loops for ever; users and administrators need not act.
FairSpec == Spec /\ WF_vars(TickSelect) /\ WF_vars(TickCommit)

-----------------------------------------------------------------------------
(* Properties                                                              *)

\* Type invariant of the billing tables and the open transactions.
TypeOK ==
    /\ owner \in [Payments -> Users \cup {None}]
    /\ payment \in [Payments -> {None, "pending", "approved", "rejected"}]
    /\ sub \in [Payments -> [status : {None, "pending", "active", "expired", "cancelled"},
                             expires : Nat]]
    /\ receipt \subseteq Payments
    /\ userbot \in [Users -> {"STOPPED", "STARTING", "SUSPENDED"}]
    /\ txn \in [Txns -> [op : {None, "purchase", "receipt", "approve", "reject"},
                         at : {"idle", "checked", "locked"},
                         user : Users \cup {None}, payment : 0..MaxPayments,
                         read : {None, "pending", "active", "expired", "cancelled"},
                         opened : Nat]]
    /\ tick \in {"idle", "due"}
    /\ due \subseteq Payments
    /\ now \in Nat
    /\ faults \in Nat

\* However approvals, rejections, failures and expiry interleave, a payment
\* and its subscription agree: an unreviewed payment has a pending
\* subscription, and an approved one has given its user a subscription
\* (approve_payment, reject_payment).
SubscriptionMatchesPayment ==
    \A p \in Payments :
        /\ payment[p] = None => sub[p].status = None
        /\ payment[p] = "pending" => sub[p].status = "pending"
        /\ payment[p] = "approved" => sub[p].status \in {"active", "expired"}
        /\ payment[p] = "rejected" => sub[p].status \in {"cancelled", "active", "expired"}

\* Nobody loses a day that was paid for: a subscription that was expired by
\* the scheduler was past its expires_at (expire_due_subscriptions against a
\* second approval of the same payment).
NoEarlyExpiry ==
    \A p \in Payments : sub[p].status = "expired" => sub[p].expires < now

\* A userbot is suspended only for a subscription of its owner that has
\* expired: no failed tick suspends it, and a review that revives or cancels
\* the subscription while a tick is under way does not leave the suspension
\* behind (expire_due_subscriptions, approve_payment, _set_userbot_status).
SuspendedHasExpired ==
    \A u \in Users : userbot[u] = "SUSPENDED"
        => \E p \in Payments : owner[p] = u /\ sub[p].status = "expired"

\* A subscription past its end does not stay active, although a tick may fail
\* and is rolled back (run_scheduler).
PastDueExpires == \A p \in Payments : PastDue(p) ~> sub[p].status # "active"

-----------------------------------------------------------------------------
(* The inductive invariant behind SubscriptionMatchesPayment.              *)

\* What a transaction knows about the payment it works on.
TxnShape ==
    \A t \in Txns :
        /\ txn[t].op = "purchase" => txn[t].user \in Users
        /\ txn[t].op \in {"receipt", "approve", "reject"} =>
              txn[t].payment \in Payments /\ payment[txn[t].payment] # None
        /\ txn[t].at = "locked" => txn[t].op \in {"approve", "reject"}

\* The row lock: one transaction at most, and the status it loaded is the
\* current one unless the scheduler expired the subscription meanwhile.
LockShape ==
    \A t \in Txns : txn[t].at = "locked" =>
        LET p == txn[t].payment
        IN  /\ \/ txn[t].read = sub[p].status
               \/ txn[t].read = "active" /\ sub[p].status = "expired"
            /\ \A v \in Txns : txn[v].at = "locked" /\ txn[v].payment = p => v = t

\* What the scheduler has selected was activated by an approval.
DueShape == \A p \in due : payment[p] # None /\ sub[p].status \in {"active", "expired"}

OwnerShape == \A p \in Payments : payment[p] # None => owner[p] \in Users

IInv ==
    /\ TypeOK
    /\ SubscriptionMatchesPayment
    /\ TxnShape
    /\ LockShape
    /\ DueShape
    /\ OwnerShape

(* The inductive invariant behind NoEarlyExpiry, on top of IInv.           *)

Reviews(t, p) == txn[t].op \in {"receipt", "approve", "reject"} /\ txn[t].payment = p

\* A transaction is younger than half a plan.
YoungTxns ==
    \A t \in Txns : txn[t] # Idle =>
        txn[t].opened <= now /\ 2 * now <= 2 * txn[t].opened + Duration

\* A transaction that found the payment pending is over before a subscription
\* another approval gave ends.
OverBeforeEnd ==
    \A t \in Txns, p \in Payments :
        Reviews(t, p) /\ sub[p].status \in {"active", "expired"}
            => 2 * txn[t].opened + Duration <= 2 * sub[p].expires

DueIsPast == \A p \in due : sub[p].expires < now

TimeInv == YoungTxns /\ OverBeforeEnd /\ DueIsPast /\ NoEarlyExpiry
=============================================================================
