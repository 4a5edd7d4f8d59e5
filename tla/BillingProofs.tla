--------------------------- MODULE BillingProofs ---------------------------
(***************************************************************************)
(* TLAPS proofs about Billing: its type invariant, and that the status of  *)
(* a payment and the status of its subscription agree however reviews,     *)
(* expiry and failures interleave.                                         *)
(***************************************************************************)
EXTENDS Billing, TLAPS

\* The transaction records TypeOK allows.
TxnStates ==
    [Txns -> [op : {None, "purchase", "receipt", "approve", "reject"},
              at : {"idle", "checked", "locked"},
              user : Users \cup {None}, payment : 0..MaxPayments,
              read : {None, "pending", "active", "expired", "cancelled"},
              opened : Nat]]

\* What a transaction record may be; a purchase refers to no payment.
LEMMA TxnTyped ==
    ASSUME TypeOK, NEW u \in Users \cup {None}, NEW p \in 0..MaxPayments,
           NEW op \in {None, "purchase", "receipt", "approve", "reject"},
           NEW at \in {"idle", "checked", "locked"}, NEW t \in Txns,
           txn' = [txn EXCEPT ![t] = Txn(op, at, u, p, None)]
    PROVE  txn' \in TxnStates
BY DEF TypeOK, Txn, TxnStates

\* The end of a transaction leaves the others as they are.
LEMMA EndTyped ==
    ASSUME TypeOK, NEW t \in Txns, txn' = [txn EXCEPT ![t] = Idle]
    PROVE  txn' \in TxnStates
BY BillingAssumption DEF TypeOK, Idle, TxnStates

\* Every step of a transaction keeps the tables and the transactions typed.
LEMMA TxnStepTyped ==
    ASSUME IInv, NEW t \in Txns, TxnNext(t)
    PROVE  TypeOK'
<1>a. TypeOK
  BY DEF IInv
<1>1. CASE \E u \in Users : PurchaseCheck(t, u)
  <2>1. PICK u \in Users : PurchaseCheck(t, u)
    BY <1>1
  <2>2. 0 \in 0..MaxPayments
    BY BillingAssumption
  <2>3. txn' = [txn EXCEPT ![t] = Txn("purchase", "checked", u, 0, None)]
    BY <2>1 DEF PurchaseCheck
  <2>4. txn' \in TxnStates
    BY <1>a, <2>2, <2>3, TxnTyped
  <2>5. QED
    BY <1>a, <2>1, <2>4 DEF TypeOK, TxnStates, PurchaseCheck, rows, scheduler
<1>2. CASE \E p \in Payments : PurchaseCommit(t, p)
  <2>1. PICK p \in Payments : PurchaseCommit(t, p)
    BY <1>2
  <2>2. owner' \in [Payments -> Users \cup {None}]
    BY <1>a, <2>1 DEF TypeOK, PurchaseCommit
  <2>3. /\ payment' \in [Payments -> {None, "pending", "approved", "rejected"}]
        /\ sub' \in [Payments -> [status : {None, "pending", "active", "expired", "cancelled"},
                                  expires : Nat]]
    BY <1>a, <2>1 DEF TypeOK, PurchaseCommit
  <2>4. QED
    BY <1>a, <2>1, <2>2, <2>3, EndTyped DEF TypeOK, TxnStates, PurchaseCommit, scheduler
<1>3. CASE \E p \in Payments, op \in {"receipt", "approve", "reject"} : ReviewCheck(t, op, p)
  <2>1. PICK p \in Payments, op \in {"receipt", "approve", "reject"} : ReviewCheck(t, op, p)
    BY <1>3
  <2>2. p \in 0..MaxPayments /\ owner[p] \in Users \cup {None}
    BY <1>a, BillingAssumption DEF TypeOK, Payments
  <2>3. txn' = [txn EXCEPT ![t] = Txn(op, "checked", owner[p], p, None)]
    BY <2>1 DEF ReviewCheck
  <2>4. txn' \in TxnStates
    BY <1>a, <2>2, <2>3, TxnTyped
  <2>5. QED
    BY <1>a, <2>1, <2>4 DEF TypeOK, TxnStates, ReviewCheck, rows, scheduler
<1>4. CASE ReceiptCommit(t)
  <2>1. txn[t].payment \in Payments
    BY <1>4 DEF ReceiptCommit, IInv, TxnShape
  <2>2. QED
    BY <1>a, <1>4, <2>1, EndTyped DEF TypeOK, TxnStates, ReceiptCommit, scheduler
<1>5. CASE ReviewLock(t)
  <2>1. txn[t].payment \in Payments
    BY <1>5 DEF ReviewLock, IInv, TxnShape
  <2>2. sub[txn[t].payment].status \in {None, "pending", "active", "expired", "cancelled"}
    BY <1>a, <2>1 DEF TypeOK
  <2>3. txn' \in TxnStates
    <3>1. txn \in TxnStates
      BY <1>a DEF TypeOK, TxnStates
    <3>2. txn' = [txn EXCEPT ![t] = [txn[t] EXCEPT !.at = "locked",
                                                   !.read = sub[txn[t].payment].status]]
      BY <1>5, <3>1 DEF ReviewLock, TxnStates
    <3>3. QED
      BY <2>2, <3>1, <3>2 DEF TxnStates
  <2>4. QED
    BY <1>a, <1>5, <2>3 DEF TypeOK, TxnStates, ReviewLock, rows, scheduler
<1>6. CASE ApproveCommit(t)
  <2>1. /\ txn[t].payment \in Payments
        /\ txn[t].opened + Duration \in Nat
        /\ owner[txn[t].payment] \in Users
    BY <1>a, <1>6, BillingAssumption DEF ApproveCommit, IInv, TxnShape, OwnerShape, TypeOK
  <2>2. /\ payment' \in [Payments -> {None, "pending", "approved", "rejected"}]
        /\ sub' \in [Payments -> [status : {None, "pending", "active", "expired", "cancelled"},
                                  expires : Nat]]
        /\ userbot' \in [Users -> {"STOPPED", "STARTING", "SUSPENDED"}]
    BY <1>a, <1>6, <2>1 DEF TypeOK, ApproveCommit
  <2>3. QED
    BY <1>a, <1>6, <2>2, EndTyped DEF TypeOK, TxnStates, ApproveCommit, scheduler
<1>7. CASE RejectCommit(t)
  <2>1. txn[t].payment \in Payments
    BY <1>7 DEF RejectCommit, IInv, TxnShape
  <2>2. /\ payment' \in [Payments -> {None, "pending", "approved", "rejected"}]
        /\ sub' \in [Payments -> [status : {None, "pending", "active", "expired", "cancelled"},
                                  expires : Nat]]
    BY <1>a, <1>7, <2>1 DEF TypeOK, RejectCommit
  <2>3. QED
    BY <1>a, <1>7, <2>2, EndTyped DEF TypeOK, TxnStates, RejectCommit, scheduler
<1>8. CASE TxnFails(t)
  <2>1. txn' \in TxnStates
    BY <1>a, <1>8, EndTyped DEF TxnFails
  <2>2. QED
    BY <1>a, <1>8, <2>1 DEF TypeOK, TxnStates, TxnFails, rows, scheduler
<1>9. QED
  BY <1>1, <1>2, <1>3, <1>4, <1>5, <1>6, <1>7, <1>8 DEF TxnNext

\* Every step of a transaction keeps the rest of the inductive invariant.
LEMMA TxnStepInv ==
    ASSUME IInv, NEW t \in Txns, TxnNext(t)
    PROVE  IInv'
<1>a. TypeOK
  BY DEF IInv
<1>b. TypeOK'
  BY TxnStepTyped
<1>c. 0 \notin Payments
  BY BillingAssumption DEF Payments
<1>1. CASE \E u \in Users : PurchaseCheck(t, u)
  <2>1. PICK u \in Users : PurchaseCheck(t, u)
    BY <1>1
  <2>2. TxnShape'
    BY <1>a, <2>1 DEF TypeOK, IInv, TxnShape, PurchaseCheck, Txn, rows
  <2>3. LockShape'
    BY <1>a, <2>1 DEF TypeOK, IInv, LockShape, PurchaseCheck, Txn, rows
  <2>4. QED
    BY <1>b, <2>1, <2>2, <2>3
       DEF IInv, SubscriptionMatchesPayment, DueShape, OwnerShape, PurchaseCheck, rows, scheduler
<1>2. CASE \E p \in Payments : PurchaseCommit(t, p)
  <2>1. PICK p \in Payments : PurchaseCommit(t, p)
    BY <1>2
  <2>2. /\ \A v \in Txns : v # t => txn'[v] = txn[v]
        /\ txn'[t] = Idle
        /\ payment[p] = None
    BY <1>a, <2>1 DEF TypeOK, PurchaseCommit
  <2>3. \A v \in Txns : txn[v].op \in {"receipt", "approve", "reject"} => txn[v].payment # p
    BY <2>2 DEF IInv, TxnShape
  <2>4. \A q \in Payments : q # p => payment'[q] = payment[q] /\ sub'[q] = sub[q] /\ owner'[q] = owner[q]
    BY <1>a, <2>1 DEF TypeOK, PurchaseCommit
  <2>5. /\ payment'[p] = "pending" /\ sub'[p].status = "pending"
        /\ owner'[p] \in Users
    BY <1>a, <2>1 DEF TypeOK, PurchaseCommit, IInv, TxnShape
  <2>6. TxnShape'
    BY <2>2, <2>3, <2>4 DEF IInv, TxnShape, Idle, None
  <2>7. LockShape'
    <3>1. SUFFICES ASSUME NEW v \in Txns, txn'[v].at = "locked"
                   PROVE  /\ v # t
                          /\ txn'[v] = txn[v]
                          /\ sub'[txn[v].payment] = sub[txn[v].payment]
      BY <2>2 DEF IInv, LockShape, Idle
    <3>2. v # t /\ txn'[v] = txn[v]
      BY <2>2, <3>1 DEF Idle
    <3>3. txn[v].payment \in Payments /\ txn[v].payment # p
      BY <2>3, <3>1, <3>2 DEF IInv, TxnShape
    <3>4. QED
      BY <2>4, <3>2, <3>3
  <2>8. DueShape'
    BY <1>a, <2>1, <2>2, <2>4 DEF IInv, DueShape, TypeOK, PurchaseCommit, scheduler
  <2>9. SubscriptionMatchesPayment' /\ OwnerShape'
    BY <2>4, <2>5 DEF IInv, SubscriptionMatchesPayment, OwnerShape, None
  <2>10. QED
    BY <1>b, <2>6, <2>7, <2>8, <2>9 DEF IInv
<1>3. CASE \E p \in Payments, op \in {"receipt", "approve", "reject"} : ReviewCheck(t, op, p)
  <2>1. PICK p \in Payments, op \in {"receipt", "approve", "reject"} : ReviewCheck(t, op, p)
    BY <1>3
  <2>2. TxnShape'
    BY <1>a, <2>1 DEF TypeOK, IInv, TxnShape, ReviewCheck, Txn, rows, None
  <2>3. LockShape'
    BY <1>a, <2>1 DEF TypeOK, IInv, LockShape, ReviewCheck, Txn, rows
  <2>4. QED
    BY <1>b, <2>1, <2>2, <2>3
       DEF IInv, SubscriptionMatchesPayment, DueShape, OwnerShape, ReviewCheck, rows, scheduler
<1>4. CASE ReceiptCommit(t)
  <2>1. TxnShape' /\ LockShape'
    BY <1>a, <1>4 DEF TypeOK, IInv, TxnShape, LockShape, ReceiptCommit, Idle, None
  <2>2. QED
    BY <1>b, <1>4, <2>1
       DEF IInv, SubscriptionMatchesPayment, DueShape, OwnerShape, ReceiptCommit, scheduler
<1>5. CASE ReviewLock(t)
  <2>1. /\ \A v \in Txns : v # t => txn'[v] = txn[v]
        /\ txn'[t].op = txn[t].op /\ txn'[t].payment = txn[t].payment
        /\ txn'[t].read = sub[txn[t].payment].status
        /\ txn[t].op \in {"approve", "reject"}
        /\ UNCHANGED <<payment, sub>>
    BY <1>a, <1>5 DEF TypeOK, ReviewLock, rows
  <2>2. TxnShape'
    BY <2>1 DEF IInv, TxnShape
  <2>3. LockShape'
    <3>1. \A v \in Txns : txn[v].at = "locked" => txn[v].payment # txn[t].payment
      BY <1>5 DEF ReviewLock, PaymentLocked
    <3>2. QED
      BY <2>1, <3>1 DEF IInv, LockShape
  <2>4. QED
    BY <1>b, <1>5, <2>2, <2>3
       DEF IInv, SubscriptionMatchesPayment, DueShape, OwnerShape, ReviewLock, rows, scheduler
<1>6. ASSUME ApproveCommit(t) \/ RejectCommit(t)
      PROVE  IInv'
  <2> DEFINE p == txn[t].payment
  <2>1. /\ p \in Payments
        /\ payment[p] # None
        /\ txn[t].at = "locked"
        /\ txn[t].op \in {"approve", "reject"}
        /\ \/ txn[t].read = sub[p].status
           \/ txn[t].read = "active" /\ sub[p].status = "expired"
    BY <1>6 DEF ApproveCommit, RejectCommit, IInv, TxnShape, LockShape
  <2>2. /\ \A v \in Txns : v # t => txn'[v] = txn[v]
        /\ txn'[t] = Idle
    BY <1>a, <1>6 DEF TypeOK, ApproveCommit, RejectCommit
  <2>3. \A q \in Payments : q # p => payment'[q] = payment[q] /\ sub'[q] = sub[q]
    BY <1>a, <1>6 DEF TypeOK, ApproveCommit, RejectCommit
  <2>4. /\ owner' = owner /\ due' = due
        /\ payment'[p] \in {"approved", "rejected"}
    BY <1>a, <1>6, <2>1 DEF TypeOK, ApproveCommit, RejectCommit, scheduler
  <2>5. /\ payment'[p] = "approved" => sub'[p].status \in {"active", "expired"}
        /\ payment'[p] = "rejected" => sub'[p].status \in {"cancelled", "active", "expired"}
        /\ sub[p].status \in {"active", "expired"} => sub'[p].status \in {"active", "expired"}
    <3>1. sub[p].status \in {"pending", "active", "expired", "cancelled"}
      BY <1>a, <2>1 DEF TypeOK, IInv, SubscriptionMatchesPayment
    <3>2. CASE ApproveCommit(t)
      BY <1>a, <2>1, <3>1, <3>2 DEF TypeOK, ApproveCommit
    <3>3. CASE RejectCommit(t)
      BY <1>a, <2>1, <3>1, <3>3 DEF TypeOK, RejectCommit
    <3>4. QED
      BY <1>6, <3>2, <3>3
  <2>6. SubscriptionMatchesPayment'
    BY <2>3, <2>4, <2>5 DEF IInv, SubscriptionMatchesPayment, None
  <2>7. TxnShape'
    BY <2>2, <2>3, <2>4 DEF IInv, TxnShape, Idle, None
  <2>8. LockShape'
    <3>1. \A v \in Txns : v # t /\ txn[v].at = "locked" => txn[v].payment # p
      BY <2>1 DEF IInv, LockShape
    <3>2. \A v \in Txns : txn[v].at = "locked" => txn[v].payment \in Payments
      BY DEF IInv, TxnShape
    <3>3. \A v \in Txns : txn'[v].at = "locked" => v # t
      BY <2>2 DEF Idle
    <3>4. QED
      BY <2>2, <2>3, <3>1, <3>2, <3>3 DEF IInv, LockShape
  <2>9. DueShape' /\ OwnerShape'
    BY <1>a, <2>1, <2>3, <2>4, <2>5 DEF TypeOK, IInv, DueShape, OwnerShape, None
  <2>10. QED
    BY <1>b, <2>6, <2>7, <2>8, <2>9 DEF IInv
<1>7. CASE TxnFails(t)
  <2>1. TxnShape' /\ LockShape'
    BY <1>a, <1>7 DEF TypeOK, IInv, TxnShape, LockShape, TxnFails, Idle, None, rows
  <2>2. QED
    BY <1>b, <1>7, <2>1
       DEF IInv, SubscriptionMatchesPayment, DueShape, OwnerShape, TxnFails, rows, scheduler
<1>8. QED
  BY <1>1, <1>2, <1>3, <1>4, <1>5, <1>6, <1>7 DEF TxnNext

\* The scheduler's steps, a start of a userbot and the passing of time keep
\* the inductive invariant.
LEMMA OtherStepInv ==
    ASSUME IInv,
           TickSelect \/ TickCommit \/ TickFails \/ NextDay
             \/ (\E u \in Users : UserbotStarts(u)) \/ UNCHANGED vars
    PROVE  IInv'
<1>a. TypeOK
  BY DEF IInv
<1>1. CASE TickSelect
  <2>1. TypeOK' /\ TxnShape' /\ LockShape'
    BY <1>a, <1>1 DEF TypeOK, IInv, TxnShape, LockShape, TickSelect, rows
  <2>2. DueShape'
    BY <1>1 DEF IInv, SubscriptionMatchesPayment, DueShape, TickSelect, PastDue, rows, None
  <2>3. QED
    BY <1>1, <2>1, <2>2 DEF IInv, SubscriptionMatchesPayment, OwnerShape, TickSelect, rows
<1>2. CASE TickCommit
  <2>1. \A p \in Payments :
          /\ p \in due => sub'[p].status = "expired" /\ sub[p].status \in {"active", "expired"}
          /\ p \notin due => sub'[p] = sub[p]
    BY <1>a, <1>2 DEF TypeOK, TickCommit, IInv, DueShape
  <2>2. TypeOK'
    BY <1>a, <1>2 DEF TypeOK, TickCommit
  <2>3. SubscriptionMatchesPayment'
    BY <1>2, <2>1 DEF IInv, SubscriptionMatchesPayment, TickCommit, None
  <2>4. LockShape'
    BY <1>2, <2>1 DEF IInv, LockShape, TxnShape, TickCommit
  <2>5. QED
    BY <1>2, <2>2, <2>3, <2>4 DEF IInv, TxnShape, DueShape, OwnerShape, TickCommit
<1>3. CASE TickFails
  BY <1>a, <1>3 DEF IInv, TypeOK, SubscriptionMatchesPayment, TxnShape, LockShape, DueShape,
                    OwnerShape, TickFails, rows
<1>4. CASE NextDay
  BY <1>a, <1>4 DEF IInv, TypeOK, SubscriptionMatchesPayment, TxnShape, LockShape, DueShape,
                    OwnerShape, NextDay, rows, scheduler
<1>5. CASE \E u \in Users : UserbotStarts(u)
  BY <1>a, <1>5 DEF IInv, TypeOK, SubscriptionMatchesPayment, TxnShape, LockShape, DueShape,
                    OwnerShape, UserbotStarts, scheduler
<1>6. CASE UNCHANGED vars
  BY <1>a, <1>6 DEF IInv, TypeOK, SubscriptionMatchesPayment, TxnShape, LockShape, DueShape,
                    OwnerShape, vars, rows, scheduler
<1>7. QED
  BY <1>1, <1>2, <1>3, <1>4, <1>5, <1>6

\* The empty tables satisfy the inductive invariant.
LEMMA InitInv == Init => IInv
<1> SUFFICES ASSUME Init PROVE IInv
  OBVIOUS
<1>1. TypeOK
  BY BillingAssumption DEF Init, TypeOK, NoSub, Idle
<1>2. SubscriptionMatchesPayment /\ DueShape /\ OwnerShape
  BY DEF Init, SubscriptionMatchesPayment, DueShape, OwnerShape, NoSub, None
<1>3. TxnShape /\ LockShape
  BY DEF Init, TxnShape, LockShape, Idle, None
<1>4. QED
  BY <1>1, <1>2, <1>3 DEF IInv

\* The inductive invariant holds for any number of users, payments, open
\* transactions and failures, and any length of a plan.
THEOREM Inductive == Spec => []IInv
<1>1. IInv /\ [Next]_vars => IInv'
  <2> SUFFICES ASSUME IInv, [Next]_vars PROVE IInv'
    OBVIOUS
  <2>1. CASE \E t \in Txns : TxnNext(t)
    BY <2>1, TxnStepInv
  <2>2. QED
    BY <2>1, OtherStepInv DEF Next
<1>2. QED
  BY InitInv, <1>1, PTL DEF Spec

\* The billing tables and the open transactions stay typed.
THEOREM TypeCorrect == Spec => []TypeOK
<1>1. IInv => TypeOK
  BY DEF IInv
<1>2. QED
  BY Inductive, <1>1, PTL

\* A payment and its subscription agree, also when two administrators review
\* the same payment at once and the scheduler expires its subscription between
\* the load and the write of the second review (approve_payment,
\* reject_payment, expire_due_subscriptions).
THEOREM PaymentMatchesCorrect == Spec => []SubscriptionMatchesPayment
<1>1. IInv => SubscriptionMatchesPayment
  BY DEF IInv
<1>2. QED
  BY Inductive, <1>1, PTL

-----------------------------------------------------------------------------
(* Time                                                                    *)

\* No open transaction works on a payment whose subscription is over.
LEMMA OpenBeforeEnd ==
    ASSUME IInv, TimeInv, NEW t \in Txns, NEW p \in Payments, Reviews(t, p),
           sub[p].status \in {"active", "expired"}
    PROVE  now <= sub[p].expires
<1>1. txn[t] # Idle
  BY DEF Reviews, Idle, None
<1>2. /\ 2 * now <= 2 * txn[t].opened + Duration
      /\ 2 * txn[t].opened + Duration <= 2 * sub[p].expires
  BY <1>1 DEF TimeInv, YoungTxns, OverBeforeEnd
<1>3. now \in Nat /\ txn[t].opened \in Nat /\ sub[p].expires \in Nat /\ Duration \in Nat
  BY BillingAssumption DEF IInv, TypeOK
<1>4. QED
  BY <1>2, <1>3

\* A step that opens one transaction at most, and changes no table, keeps the
\* time invariant.
LEMMA CheckTime ==
    ASSUME IInv, TimeInv, NEW t \in Txns, TxnNext(t),
           (\E u \in Users : PurchaseCheck(t, u))
             \/ \E p \in Payments, op \in {"receipt", "approve", "reject"} : ReviewCheck(t, op, p)
    PROVE  TimeInv'
<1>1. /\ UNCHANGED <<sub, payment, due, now>>
      /\ \A v \in Txns : v # t => txn'[v] = txn[v]
      /\ txn'[t].opened = now
      /\ txn'[t].op = "purchase" \/ (/\ txn'[t].payment \in Payments
                                     /\ payment[txn'[t].payment] = "pending")
  BY DEF IInv, TypeOK, PurchaseCheck, ReviewCheck, Txn, rows, scheduler
<1>2. now \in Nat /\ Duration \in Nat
  BY BillingAssumption DEF IInv, TypeOK
<1>3. YoungTxns'
  BY <1>1, <1>2 DEF TimeInv, YoungTxns, Idle
<1>4. OverBeforeEnd'
  <2>1. SUFFICES ASSUME NEW v \in Txns, NEW p \in Payments, Reviews(v, p)',
                        sub[p].status \in {"active", "expired"}
                 PROVE  v # t
    BY <1>1 DEF TimeInv, OverBeforeEnd, Reviews
  <2>2. payment[p] # "pending"
    BY <2>1 DEF IInv, SubscriptionMatchesPayment
  <2>3. QED
    BY <1>1, <2>1, <2>2 DEF Reviews
<1>5. DueIsPast' /\ NoEarlyExpiry'
  BY <1>1 DEF TimeInv, DueIsPast, NoEarlyExpiry
<1>6. QED
  BY <1>3, <1>4, <1>5 DEF TimeInv

\* An approval keeps the time invariant: the subscription it writes was not
\* over, and ends after every transaction that is open now.
LEMMA ApproveTime ==
    ASSUME IInv, TimeInv, NEW t \in Txns, ApproveCommit(t)
    PROVE  TimeInv'
<1> DEFINE p == txn[t].payment
<1>1. /\ p \in Payments
      /\ Reviews(t, p)
      /\ txn[t] # Idle
  BY DEF IInv, TxnShape, ApproveCommit, Reviews, Idle, None
<1>2. /\ now \in Nat /\ Duration \in Nat
      /\ \A v \in Txns : txn[v].opened \in Nat
      /\ \A q \in Payments : sub[q].expires \in Nat
  BY BillingAssumption DEF IInv, TypeOK
<1>3. /\ \A v \in Txns : v # t => txn'[v] = txn[v]
      /\ txn'[t] = Idle
      /\ \A q \in Payments : q # p => sub'[q] = sub[q]
      /\ sub'[p].expires = txn[t].opened + Duration
      /\ sub'[p].status = IF txn[t].read = "active" THEN sub[p].status ELSE "active"
      /\ UNCHANGED <<due, now>>
  BY <1>1 DEF IInv, TypeOK, ApproveCommit, scheduler
<1>4. sub[p].status # "expired"
  <2>1. sub[p].status = "expired" => now <= sub[p].expires /\ sub[p].expires < now
    BY <1>1, OpenBeforeEnd DEF TimeInv, NoEarlyExpiry
  <2>2. QED
    BY <1>1, <1>2, <2>1
<1>5. p \notin due
  <2>1. p \in due => now <= sub[p].expires /\ sub[p].expires < now
    BY <1>1, OpenBeforeEnd DEF TimeInv, DueIsPast, IInv, DueShape
  <2>2. QED
    BY <1>1, <1>2, <2>1
<1>6. YoungTxns'
  BY <1>3 DEF TimeInv, YoungTxns
<1>7. OverBeforeEnd'
  <2>1. SUFFICES ASSUME NEW v \in Txns, NEW q \in Payments, Reviews(v, q)',
                        sub'[q].status \in {"active", "expired"}
                 PROVE  2 * txn'[v].opened + Duration <= 2 * sub'[q].expires
    BY DEF OverBeforeEnd
  <2>2. v # t /\ txn'[v] = txn[v] /\ txn[v] # Idle /\ Reviews(v, q)
    BY <1>3, <2>1 DEF Reviews, Idle, None
  <2>a. CASE q # p
    BY <1>3, <2>1, <2>2, <2>a DEF TimeInv, OverBeforeEnd
  <2>b. CASE q = p
    <3>1. txn[v].opened <= now /\ 2 * now <= 2 * txn[t].opened + Duration
      BY <1>1, <2>2 DEF TimeInv, YoungTxns
    <3>2. QED
      BY <1>2, <1>3, <2>2, <2>b, <3>1
  <2>3. QED
    BY <2>a, <2>b
<1>8. DueIsPast'
  BY <1>3, <1>5 DEF TimeInv, DueIsPast, IInv, TypeOK
<1>9. NoEarlyExpiry'
  BY <1>3, <1>4 DEF TimeInv, NoEarlyExpiry
<1>10. QED
  BY <1>6, <1>7, <1>8, <1>9 DEF TimeInv

\* The other steps of a transaction keep the time invariant.
LEMMA TxnTime ==
    ASSUME IInv, TimeInv, NEW t \in Txns, TxnNext(t)
    PROVE  TimeInv'
<1>1. CASE \E p \in Payments : PurchaseCommit(t, p)
  <2>1. PICK p \in Payments : PurchaseCommit(t, p)
    BY <1>1
  <2>2. /\ \A v \in Txns : v # t => txn'[v] = txn[v]
        /\ txn'[t] = Idle
        /\ \A q \in Payments : q # p => sub'[q] = sub[q]
        /\ sub'[p].status = "pending"
        /\ UNCHANGED <<due, now>>
        /\ p \notin due
    BY <2>1 DEF IInv, TypeOK, DueShape, PurchaseCommit, scheduler
  <2>3. YoungTxns' /\ OverBeforeEnd'
    BY <2>2 DEF TimeInv, YoungTxns, OverBeforeEnd, Reviews, Idle, None
  <2>4. DueIsPast' /\ NoEarlyExpiry'
    BY <2>2 DEF TimeInv, DueIsPast, NoEarlyExpiry, IInv, TypeOK
  <2>5. QED
    BY <2>3, <2>4 DEF TimeInv
<1>2. CASE ReceiptCommit(t) \/ TxnFails(t)
  <2>1. /\ \A v \in Txns : v # t => txn'[v] = txn[v]
        /\ txn'[t] = Idle
        /\ UNCHANGED <<sub, due, now>>
    BY <1>2 DEF IInv, TypeOK, ReceiptCommit, TxnFails, rows, scheduler
  <2>2. QED
    BY <2>1 DEF TimeInv, YoungTxns, OverBeforeEnd, DueIsPast, NoEarlyExpiry, Reviews, Idle, None
<1>3. CASE ReviewLock(t)
  <2>a. txn[t] # Idle
    BY <1>3 DEF ReviewLock, Idle, None
  <2>1. /\ \A v \in Txns : /\ txn'[v].opened = txn[v].opened /\ txn'[v].op = txn[v].op
                           /\ txn'[v].payment = txn[v].payment
                           /\ txn[v] = Idle => txn'[v] = Idle
        /\ UNCHANGED <<sub, due, now>>
    BY <1>3, <2>a DEF IInv, TypeOK, ReviewLock, rows, scheduler
  <2>2. QED
    BY <2>1 DEF TimeInv, YoungTxns, OverBeforeEnd, DueIsPast, NoEarlyExpiry, Reviews
<1>4. CASE RejectCommit(t)
  <2>1. /\ \A v \in Txns : v # t => txn'[v] = txn[v]
        /\ txn'[t] = Idle
        /\ \A q \in Payments : /\ sub'[q].expires = sub[q].expires
                               /\ sub'[q].status \in {sub[q].status, "cancelled"}
        /\ UNCHANGED <<due, now>>
    BY <1>4 DEF IInv, TypeOK, RejectCommit, scheduler
  <2>2. QED
    BY <2>1 DEF TimeInv, YoungTxns, OverBeforeEnd, DueIsPast, NoEarlyExpiry, Reviews, Idle, None,
                IInv, TypeOK
<1>5. QED
  BY <1>1, <1>2, <1>3, <1>4, CheckTime, ApproveTime DEF TxnNext

\* The scheduler, a start and the passing of a day keep the time invariant.
LEMMA OtherTime ==
    ASSUME IInv, TimeInv,
           TickSelect \/ TickCommit \/ TickFails \/ NextDay
             \/ (\E u \in Users : UserbotStarts(u)) \/ UNCHANGED vars
    PROVE  TimeInv'
<1>a. /\ now \in Nat /\ Duration \in Nat
      /\ \A v \in Txns : txn[v].opened \in Nat
      /\ \A q \in Payments : sub[q].expires \in Nat
  BY BillingAssumption DEF IInv, TypeOK
<1>1. CASE TickSelect
  BY <1>1 DEF TimeInv, YoungTxns, OverBeforeEnd, DueIsPast, NoEarlyExpiry, Reviews,
              TickSelect, PastDue, rows
<1>2. CASE TickCommit
  <2>1. \A p \in Payments :
          /\ sub'[p].expires = sub[p].expires
          /\ p \in due => sub[p].status \in {"active", "expired"} /\ sub[p].expires < now
          /\ p \notin due => sub'[p] = sub[p]
    BY <1>2 DEF IInv, TypeOK, DueShape, TimeInv, DueIsPast, TickCommit
  <2>2. QED
    BY <1>2, <2>1 DEF TimeInv, YoungTxns, OverBeforeEnd, DueIsPast, NoEarlyExpiry, Reviews, TickCommit
<1>3. CASE NextDay
  <2>1. YoungTxns'
    BY <1>a, <1>3 DEF TimeInv, YoungTxns, NextDay
  <2>2. OverBeforeEnd'
    BY <1>3 DEF TimeInv, OverBeforeEnd, Reviews, NextDay, rows
  <2>3. DueIsPast' /\ NoEarlyExpiry'
    BY <1>a, <1>3 DEF TimeInv, DueIsPast, NoEarlyExpiry, NextDay, rows, scheduler, IInv, TypeOK
  <2>4. QED
    BY <2>1, <2>2, <2>3 DEF TimeInv
<1>4. CASE TickFails \/ (\E u \in Users : UserbotStarts(u)) \/ UNCHANGED vars
  BY <1>4 DEF TimeInv, YoungTxns, OverBeforeEnd, DueIsPast, NoEarlyExpiry, Reviews,
              TickFails, UserbotStarts, vars, rows, scheduler
<1>5. QED
  BY <1>1, <1>2, <1>3, <1>4

\* Nobody loses a paid day: the scheduler expires a subscription only when it
\* is past its end, also when a second approval moves that end while a tick is
\* under way, for every length of a plan (approve_payment,
\* expire_due_subscriptions).
THEOREM ExpiryCorrect == Spec => []NoEarlyExpiry
<1>1. Init => TimeInv
  BY DEF Init, TimeInv, YoungTxns, OverBeforeEnd, DueIsPast, NoEarlyExpiry, NoSub, None
<1>2. IInv /\ TimeInv /\ [Next]_vars => TimeInv'
  BY TxnTime, OtherTime DEF Next
<1>3. TimeInv => NoEarlyExpiry
  BY DEF TimeInv
<1>4. QED
  BY <1>1, <1>2, <1>3, Inductive, PTL DEF Spec

-----------------------------------------------------------------------------
(* Suspension                                                              *)

\* A suspended userbot's owner has an expired subscription: a second review
\* that turns it active again lifts the suspension in the same transaction,
\* and a rejection cancels pending subscriptions only (approve_payment,
\* reject_payment, expire_due_subscriptions).
THEOREM SuspensionCorrect == Spec => []SuspendedHasExpired
<1>1. Init => SuspendedHasExpired
  BY DEF Init, SuspendedHasExpired
<1>2. IInv /\ SuspendedHasExpired /\ [Next]_vars => SuspendedHasExpired'
  <2> SUFFICES ASSUME IInv, SuspendedHasExpired, [Next]_vars, NEW u \in Users,
                      userbot'[u] = "SUSPENDED"
               PROVE  \E p \in Payments : owner'[p] = u /\ sub'[p].status = "expired"
    BY DEF SuspendedHasExpired
  <2>a. TypeOK
    BY DEF IInv
  <2>1. ASSUME NEW t \in Txns, NEW q \in Payments, PurchaseCommit(t, q)
        PROVE  \E p \in Payments : owner'[p] = u /\ sub'[p].status = "expired"
    <3>1. /\ sub[q].status # "expired"
          /\ userbot'[u] = userbot[u]
          /\ \A p \in Payments : p # q => sub'[p] = sub[p] /\ owner'[p] = owner[p]
      BY <2>a, <2>1 DEF PurchaseCommit, IInv, TypeOK, SubscriptionMatchesPayment, None
    <3>2. QED
      BY <3>1 DEF SuspendedHasExpired
  <2>2. ASSUME NEW t \in Txns, ApproveCommit(t)
        PROVE  \E p \in Payments : owner'[p] = u /\ sub'[p].status = "expired"
    <3>1. /\ txn[t].payment \in Payments
          /\ owner[txn[t].payment] \in Users
      BY <2>2 DEF ApproveCommit, IInv, TxnShape, OwnerShape
    <3>2. /\ owner[txn[t].payment] # u
          /\ userbot'[u] = userbot[u]
          /\ owner' = owner
          /\ \A p \in Payments : p # txn[t].payment => sub'[p] = sub[p]
      BY <2>a, <2>2, <3>1 DEF ApproveCommit, TypeOK
    <3>3. QED
      BY <3>2 DEF SuspendedHasExpired
  <2>3. ASSUME NEW t \in Txns, RejectCommit(t)
        PROVE  \E p \in Payments : owner'[p] = u /\ sub'[p].status = "expired"
    <3>1. txn[t].read = "pending" => sub[txn[t].payment].status # "expired"
      BY <2>3 DEF RejectCommit, IInv, LockShape
    <3>2. /\ userbot' = userbot /\ owner' = owner
          /\ \A p \in Payments : sub[p].status = "expired" => sub'[p] = sub[p]
      BY <2>a, <2>3, <3>1 DEF RejectCommit, TypeOK
    <3>3. QED
      BY <3>2 DEF SuspendedHasExpired
  <2>4. CASE TickCommit
    <3>1. /\ owner' = owner
          /\ \A p \in Payments : p \in due \/ sub[p].status = "expired"
                => sub'[p].status = "expired"
      BY <2>a, <2>4 DEF TickCommit, TypeOK
    <3>2. (\E p \in due : owner[p] = u) \/ userbot[u] = "SUSPENDED"
      BY <2>4 DEF TickCommit
    <3>3. QED
      BY <2>a, <3>1, <3>2 DEF SuspendedHasExpired, TypeOK
  <2>5. ASSUME UNCHANGED <<owner, sub>>, userbot'[u] = userbot[u]
        PROVE  \E p \in Payments : owner'[p] = u /\ sub'[p].status = "expired"
    BY <2>5 DEF SuspendedHasExpired
  <2>6. ASSUME NEW v \in Users, UserbotStarts(v)
        PROVE  UNCHANGED <<owner, sub>> /\ userbot'[u] = userbot[u]
    BY <2>a, <2>6 DEF UserbotStarts, TypeOK
  <2>7. QED
    BY <2>1, <2>2, <2>3, <2>4, <2>5, <2>6
       DEF Next, TxnNext, PurchaseCheck, ReviewCheck, ReceiptCommit, ReviewLock, TxnFails,
           TickSelect, TickFails, NextDay, vars, rows
<1>3. QED
  BY <1>1, <1>2, Inductive, PTL DEF Spec
=============================================================================
