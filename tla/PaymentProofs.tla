---------------------------- MODULE PaymentProofs ----------------------------
(***************************************************************************)
(* What the books of the payment service promise, for any number of        *)
(* requests.  The strengthening says, of every row in the table and of     *)
(* every copy a handler holds, that it tells the truth about its charge    *)
(* (TrueRow), and that a handler's copy belongs to the order it works on.  *)
(* The second half is about its subscriptions.                             *)
(***************************************************************************)
EXTENDS Payment, Subscription, TLAPS

\* Where a request can be once its own charge may be known to others.
Past == {"c_order", "done", "failed"}
HoldingPhases == {"c_tx", "c_order", "r_gateway", "r_tx"}

\* Row x of transaction t names a charge only if the gateway made it for the
\* row's order, on behalf of a request that works on this very transaction.
TrueRow(x, t) ==
  /\ x.status \in {"paid", "refund"} <=> x.charge # 0
  /\ x.charge # 0 =>
       /\ x.charge \in Requests /\ x.order \in Requests
       /\ Charge(x.charge, x.order) \in charges
       /\ call[x.charge].tx = t /\ pc[x.charge] \in Past
  /\ x.status = "refund" => x.charge \in refunded

TrueTable == \A t \in Requests : TrueRow(tx[t], t)
TrueCopies == \A r \in Requests : TrueRow(row[r], call[r].tx)
TrueRefunds == \A c \in refunded : pc[c] \in Past

\* A transaction is stored under the id its request has used up.
FreshIds == \A t \in Requests : Stored(t) => pc[t] = "done"

\* What each handler may rely on.
Working(r) ==
  /\ pc[r] = "idle" => row[r].charge = 0
  /\ pc[r] \in {"c_find", "c_gateway", "c_tx", "c_order"} =>
       call[r].op = "charge" /\ call[r].order \in Requests
  /\ pc[r] = "c_find" => call[r].tx = 0
  /\ pc[r] \in {"r_gateway", "r_tx"} => call[r].op = "refund"
  /\ pc[r] \in HoldingPhases => call[r].tx # 0
  /\ pc[r] \in HoldingPhases \cup {"c_gateway"} /\ call[r].tx # 0 =>
       /\ Stored(call[r].tx) /\ tx[call[r].tx].order = call[r].order
       /\ row[r].order = call[r].order
  /\ pc[r] = "c_tx" => Charge(r, call[r].order) \in charges
  /\ pc[r] = "c_order" => tx[call[r].tx].charge # 0
  /\ pc[r] = "r_tx" => row[r].charge # 0 /\ row[r].charge \in refunded
Handlers == \A r \in Requests : Working(r)

\* An order is there once its request has begun, and a charge is for one.
PlacedOrders ==
  /\ \A o \in Requests : Placed(o) => pc[o] # "idle"
  /\ \A r \in Requests :
       pc[r] \in {"c_find", "c_gateway", "c_tx", "c_order"} => Placed(call[r].order)

PaidOrders ==
  \A o \in Requests : order[o] = "paid" /\ call[o].status # "paid" =>
    \E t \in Requests : tx[t].order = o /\ tx[t].charge # 0

PaidRows ==
  \A t \in Requests : tx[t].status = "paid" =>
    tx[t].charge \notin refunded \/ Refunding(tx[t].charge)

PaymentInv ==
  /\ TypeOK /\ TrueTable /\ TrueCopies /\ TrueRefunds /\ FreshIds
  /\ Handlers /\ PlacedOrders /\ PaidOrders /\ PaidRows

-----------------------------------------------------------------------------
(* Types. *)

\* The three ways a handler makes a row return a row, and Paid and Refunded
\* keep its order; the charge is replaced by Paid alone.
LEMMA RowsMade ==
  ASSUME NEW x \in Rows, NEW c \in Requests
  PROVE  /\ Draft(c) \in Rows /\ Paid(x, c) \in Rows /\ Refunded(x) \in Rows
         /\ Paid(x, c).status = "paid" /\ Paid(x, c).order = x.order
         /\ Paid(x, c).charge = c
         /\ Refunded(x).status = "refund" /\ Refunded(x).order = x.order
         /\ Refunded(x).charge = x.charge
<1>1. x.order \in Requests \cup {0} /\ x.charge \in Requests \cup {0}
  BY DEF Rows
<1>2. Paid(x, c) = [status |-> "paid", order |-> x.order, charge |-> c]
  <2>1. x = [status |-> x.status, order |-> x.order, charge |-> x.charge]
    BY DEF Rows
  <2>2. DOMAIN x = {"status", "order", "charge"}
    BY <2>1
  <2>3. [x EXCEPT !.status = "paid", !.charge = c]
          = [f \in {"status", "order", "charge"} |->
               IF f = "charge" THEN c ELSE IF f = "status" THEN "paid" ELSE x[f]]
    BY <2>2
  <2>. QED
    BY <2>3 DEF Paid
<1>3. Refunded(x) = [status |-> "refund", order |-> x.order, charge |-> x.charge]
  BY DEF Refunded, Rows
<1>. QED
  BY <1>1, <1>2, <1>3 DEF Draft, Rows, Statuses

\* Every variable keeps its type from the start (Payment!TypeOK).
LEMMA InitTypes == Init => TypeOK
  BY SMT DEF Init, TypeOK, NoRow, NoCall, Rows, Statuses, Statements

\* No step of any request takes a variable out of its type.
LEMMA NextTypes == TypeOK /\ [Next]_vars => TypeOK'
<1> SUFFICES ASSUME TypeOK, [Next]_vars PROVE TypeOK'
  OBVIOUS
<1> USE DEF TypeOK, Statements, Requests
<1>1. ASSUME UNCHANGED vars PROVE TypeOK'
  BY <1>1 DEF vars
<1>2. ASSUME NEW r \in Requests, Arrive(r) PROVE TypeOK'
  <2>1. ASSUME NEW status \in {"open", "paid"}, PlaceOrder(r, status) PROVE TypeOK'
    BY <2>1 DEF PlaceOrder, Begin
  <2>2. ASSUME NEW o \in Requests, Pay(r, o) PROVE TypeOK'
    BY <2>2 DEF Pay, Begin
  <2>3. ASSUME NEW o \in Requests, ChargeOrder(r, o) PROVE TypeOK'
    BY <2>3 DEF ChargeOrder, Begin
  <2>4. ASSUME NEW t \in Requests, Refund(r, t) PROVE TypeOK'
    BY <2>4 DEF Refund, Begin, Rows
  <2>. QED
    BY <1>2, <2>1, <2>2, <2>3, <2>4 DEF Arrive
<1>3. ASSUME NEW r \in Requests, Continue(r) PROVE TypeOK'
  <2>1. CASE PayFind(r)
    BY <2>1 DEF PayFind, Goto
  <2>2. CASE PayInsert(r)
    <3>1. call[r].order \in Requests \cup {0}
      OBVIOUS
    <3>2. Draft(call[r].order) \in Rows
      BY <3>1 DEF Draft, Rows, Statuses
    <3>. QED
      BY <2>2, <3>2 DEF PayInsert, Goto
  <2>3. CASE ChargeFind(r)
    BY <2>3 DEF ChargeFind, TransactionsOf, Rows
  <2>4. CASE ChargeMissed(r)
    BY <2>4 DEF ChargeMissed, Goto
  <2>5. CASE ChargeGateway(r)
    BY <2>5 DEF ChargeGateway, Goto, Charge
  <2>6. CASE ChargeTransaction(r)
    <3>1. Paid(row[r], r) \in Rows
      BY RowsMade
    <3>. QED
      BY <2>6, <3>1 DEF ChargeTransaction, Goto
  <2>7. CASE ChargeStatus(r)
    BY <2>7 DEF ChargeStatus, Goto
  <2>8. CASE RefundGateway(r)
    <3>1. row[r].charge \in Requests
      BY <2>8 DEF RefundGateway, Refundable, Rows
    <3>2. refunded' \subseteq Requests
      BY <2>8, <3>1 DEF RefundGateway
    <3>. QED
      BY <2>8, <3>2 DEF RefundGateway, Goto
  <2>9. CASE RefundRefused(r)
    BY <2>9 DEF RefundRefused, Goto
  <2>10. CASE RefundTransaction(r)
    <3>1. Refunded(row[r]) \in Rows
      BY RowsMade
    <3>. QED
      BY <2>10, <3>1 DEF RefundTransaction, Goto
  <2>. QED
    BY <1>3, <2>1, <2>2, <2>3, <2>4, <2>5, <2>6, <2>7, <2>8, <2>9, <2>10
    DEF Continue
<1>4. ASSUME NEW r \in Requests, Fail(r) PROVE TypeOK'
  BY <1>4 DEF Fail, Goto
<1>. QED
  BY <1>1, <1>2, <1>3, <1>4 DEF Next, Rest

\* Tables, gateway and handlers hold values of their types (Payment!TypeOK),
\* for any number of requests.
THEOREM PaymentTypes == Spec => []TypeOK
  BY InitTypes, NextTypes, PTL DEF Spec

-----------------------------------------------------------------------------
(* One step of one request. *)

\* The strengthening holds before anything is stored.
LEMMA PaymentInitInv == Init => PaymentInv
<1> SUFFICES ASSUME Init PROVE PaymentInv
  OBVIOUS
<1>1. TypeOK
  BY InitTypes
<1>2. TrueTable /\ TrueCopies /\ PaidRows
  BY DEF Init, NoRow, NoCall, TrueTable, TrueCopies, TrueRow, PaidRows
<1>3. TrueRefunds /\ FreshIds /\ PlacedOrders /\ PaidOrders
  BY DEF Init, NoRow, TrueRefunds, FreshIds, Stored, PlacedOrders, Placed, PaidOrders
<1>4. Handlers
  BY DEF Init, Handlers, Working, HoldingPhases, NoRow
<1>. QED
  BY <1>1, <1>2, <1>3, <1>4 DEF PaymentInv

\* Charges and refunds are never undone, and a request whose charge may be
\* known to others works on the same transaction ever after.
Grows ==
  /\ charges \subseteq charges' /\ refunded \subseteq refunded'
  /\ \A c \in Requests : pc[c] \in Past =>
       pc'[c] \in Past /\ call'[c].tx = call[c].tx

\* No statement of a handler takes a charge or a refund back (Grows).
LEMMA StepGrows ==
  ASSUME TypeOK, NEW r \in Requests, Arrive(r) \/ Continue(r) \/ Fail(r)
  PROVE  Grows
<1> USE DEF Grows, Past, TypeOK
<1>1. CASE Arrive(r)
  BY <1>1 DEF Arrive, PlaceOrder, Pay, ChargeOrder, Refund, Begin
<1>2. CASE PayFind(r) \/ PayInsert(r) \/ ChargeMissed(r) \/ ChargeGateway(r)
  BY <1>2 DEF PayFind, PayInsert, ChargeMissed, ChargeGateway, Goto
<1>3. CASE ChargeFind(r)
  BY <1>3 DEF ChargeFind
<1>4. CASE ChargeTransaction(r) \/ ChargeStatus(r)
  BY <1>4 DEF ChargeTransaction, ChargeStatus, Goto
<1>5. CASE RefundGateway(r) \/ RefundRefused(r) \/ RefundTransaction(r)
  BY <1>5 DEF RefundGateway, RefundRefused, RefundTransaction, Goto
<1>6. CASE Fail(r)
  BY <1>6 DEF Fail, Goto
<1>. QED
  BY <1>1, <1>2, <1>3, <1>4, <1>5, <1>6 DEF Continue

\* A true row stays true while it is not written.
LEMMA TrueTableKept ==
  ASSUME TrueTable, TypeOK, Grows, UNCHANGED tx
  PROVE  TrueTable'
  BY DEF TrueTable, TrueRow, Grows

\* So does a handler's copy.
LEMMA TrueCopiesKept ==
  ASSUME TrueCopies, TypeOK, Grows, UNCHANGED row,
         \A r \in Requests : row[r].charge # 0 => call'[r].tx = call[r].tx
  PROVE  TrueCopies'
  BY DEF TrueCopies, TrueRow, Grows

\* Rows are written true: a draft names no charge, charge names its own, which
\* the gateway has made, and refund one the gateway has refunded.
LEMMA TrueTableStep ==
  ASSUME PaymentInv, TypeOK', NEW r \in Requests, Arrive(r) \/ Continue(r) \/ Fail(r)
  PROVE  TrueTable'
<1>1. TrueTable /\ TypeOK /\ Grows /\ Working(r) /\ row[r] \in Rows /\ TrueRow(row[r], call[r].tx)
  BY StepGrows DEF PaymentInv, TypeOK, Handlers, TrueCopies
<1>2. CASE Arrive(r) \/ Fail(r)
  <2>1. UNCHANGED tx
    BY <1>2 DEF Arrive, PlaceOrder, Pay, ChargeOrder, Refund, Fail
  <2>. QED
    BY <1>1, <2>1, TrueTableKept
<1>3. CASE PayFind(r) \/ ChargeFind(r) \/ ChargeMissed(r) \/ ChargeGateway(r)
           \/ ChargeStatus(r) \/ RefundGateway(r) \/ RefundRefused(r)
  <2>1. UNCHANGED tx
    BY <1>3 DEF PayFind, ChargeFind, ChargeMissed, ChargeGateway, ChargeStatus,
                RefundGateway, RefundRefused
  <2>. QED
    BY <1>1, <2>1, TrueTableKept
<1>4. CASE PayInsert(r)
  <2>1. tx' = [tx EXCEPT ![r] = Draft(call[r].order)]
    BY <1>4 DEF PayInsert
  <2>2. ASSUME NEW t \in Requests, t # r PROVE TrueRow(tx[t], t)'
    <3>1. tx'[t] = tx[t]
      BY <2>1, <2>2 DEF TypeOK
    <3>. QED
      BY <1>1, <3>1 DEF TrueTable, TrueRow, Grows, TypeOK
  <2>3. TrueRow(tx[r], r)'
    BY <1>1, <2>1 DEF TrueRow, Draft, TypeOK
  <2>. QED
    BY <2>2, <2>3 DEF TrueTable
<1>5. CASE ChargeTransaction(r)
  <2>1. tx' = [tx EXCEPT ![call[r].tx] = Paid(row[r], r)] /\ pc[r] = "c_tx"
        /\ pc' = [pc EXCEPT ![r] = "c_order"] /\ call' = call /\ charges' = charges
    BY <1>5 DEF ChargeTransaction, Goto
  <2>2. call[r].tx \in Requests /\ row[r].order = call[r].order
        /\ call[r].order \in Requests /\ Charge(r, call[r].order) \in charges
    BY <1>1, <2>1 DEF TypeOK, Working, HoldingPhases
  <2>3. ASSUME NEW t \in Requests, t # call[r].tx PROVE TrueRow(tx[t], t)'
    <3>1. tx'[t] = tx[t]
      BY <1>1, <2>1, <2>3 DEF TypeOK
    <3>. QED
      BY <1>1, <3>1 DEF TrueTable, TrueRow, Grows, TypeOK
  <2>4. tx'[call[r].tx] = Paid(row[r], r) /\ pc'[r] = "c_order"
    BY <1>1, <2>1, <2>2 DEF TypeOK
  <2>5. ASSUME NEW t \in Requests, t = call[r].tx PROVE TrueRow(tx[t], t)'
    <3>1. /\ tx'[t].status = "paid" /\ tx'[t].order = call[r].order
          /\ tx'[t].charge = r
      BY <1>1, <2>2, <2>4, <2>5, RowsMade
    <3>2. Charge(r, call[r].order) \in charges' /\ call'[r].tx = t /\ pc'[r] \in Past
      BY <2>1, <2>2, <2>4, <2>5 DEF Past
    <3>. QED
      BY <2>2, <3>1, <3>2 DEF TrueRow, Requests, Charge
  <2>. QED
    BY <2>3, <2>5 DEF TrueTable
<1>6. CASE RefundTransaction(r)
  <2>1. tx' = [tx EXCEPT ![call[r].tx] = Refunded(row[r])] /\ pc[r] = "r_tx" /\ call' = call
    BY <1>6 DEF RefundTransaction, Goto
  <2>2. call[r].tx \in Requests /\ row[r].charge # 0 /\ row[r].charge \in refunded
    BY <1>1, <2>1 DEF TypeOK, Working, HoldingPhases
  <2>3. ASSUME NEW t \in Requests, t # call[r].tx PROVE TrueRow(tx[t], t)'
    <3>1. tx'[t] = tx[t]
      BY <1>1, <2>1, <2>3 DEF TypeOK
    <3>. QED
      BY <1>1, <3>1 DEF TrueTable, TrueRow, Grows, TypeOK
  <2>4. tx'[call[r].tx] = Refunded(row[r])
    BY <1>1, <2>1, <2>2 DEF TypeOK
  <2>5. ASSUME NEW t \in Requests, t = call[r].tx PROVE TrueRow(tx[t], t)'
    BY <1>1, <2>2, <2>4, <2>5, RowsMade DEF TrueRow, Grows, TypeOK
  <2>. QED
    BY <2>3, <2>5 DEF TrueTable
<1>. QED
  BY <1>2, <1>3, <1>4, <1>5, <1>6 DEF Continue

\* A handler copies what is in the table.
LEMMA TrueCopiesStep ==
  ASSUME PaymentInv, TypeOK', NEW r \in Requests, Arrive(r) \/ Continue(r) \/ Fail(r)
  PROVE  TrueCopies'
<1>1. TrueCopies /\ TrueTable /\ TypeOK /\ Grows
  BY StepGrows DEF PaymentInv
<1>2. CASE Fail(r) \/ PayFind(r) \/ PayInsert(r) \/ ChargeMissed(r) \/ ChargeGateway(r)
           \/ ChargeTransaction(r) \/ ChargeStatus(r) \/ RefundGateway(r) \/ RefundRefused(r)
           \/ RefundTransaction(r)
  <2>1. UNCHANGED row /\ UNCHANGED call
    BY <1>2 DEF Fail, PayFind, PayInsert, ChargeMissed, ChargeGateway, ChargeTransaction,
                ChargeStatus, RefundGateway, RefundRefused, RefundTransaction, Goto
  <2>. QED
    BY <1>1, <2>1, TrueCopiesKept
<1>3. CASE \/ ChargeFind(r)
           \/ \E t \in Requests : Refund(r, t)
  <2>1. PICK t \in Requests : row' = [row EXCEPT ![r] = tx[t]] /\ call'[r].tx = t
                             /\ \A q \in Requests : q # r => call'[q].tx = call[q].tx
    <3>1. CASE ChargeFind(r)
      <4>1. PICK t \in Requests : /\ row' = [row EXCEPT ![r] = tx[t]]
                                 /\ call' = [call EXCEPT ![r].tx = t]
        BY <3>1 DEF ChargeFind, TransactionsOf
      <4>2. call'[r].tx = t /\ \A q \in Requests : q # r => call'[q] = call[q]
        BY <1>1, <4>1 DEF TypeOK
      <4>. QED
        BY <4>1, <4>2
    <3>2. ASSUME NEW t \in Requests, Refund(r, t)
          PROVE  /\ row' = [row EXCEPT ![r] = tx[t]] /\ call'[r].tx = t
                 /\ \A q \in Requests : q # r => call'[q].tx = call[q].tx
      BY <1>1, <3>2 DEF Refund, Begin, TypeOK
    <3>. QED
      BY <1>3, <3>1, <3>2
  <2>2. ASSUME NEW q \in Requests, q # r PROVE TrueRow(row[q], call[q].tx)'
    <3>1. row'[q] = row[q] /\ call'[q].tx = call[q].tx
      BY <1>1, <2>1, <2>2 DEF TypeOK
    <3>. QED
      BY <1>1, <3>1 DEF TrueCopies, TrueRow, Grows, TypeOK
  <2>3. row'[r] = tx[t]
    BY <1>1, <2>1 DEF TypeOK
  <2>4. TrueRow(row[r], call[r].tx)'
    BY <1>1, <2>1, <2>3 DEF TrueTable, TrueRow, Grows, TypeOK
  <2>. QED
    BY <2>2, <2>4 DEF TrueCopies
<1>4. CASE \/ \E status \in {"open", "paid"} : PlaceOrder(r, status)
           \/ (\E o \in Requests : Pay(r, o) \/ ChargeOrder(r, o))
  <2>1. UNCHANGED row /\ pc[r] = "idle"
        /\ \A q \in Requests : q # r => call'[q].tx = call[q].tx
    BY <1>1, <1>4 DEF PlaceOrder, Pay, ChargeOrder, Begin, TypeOK
  <2>2. row[r].charge = 0
    BY <2>1 DEF PaymentInv, Handlers, Working
  <2>. QED
    BY <1>1, <2>1, <2>2, TrueCopiesKept
<1>. QED
  BY <1>2, <1>3, <1>4 DEF Arrive, Continue

\* A charge is refunded only after its request has recorded it.
LEMMA TrueRefundsStep ==
  ASSUME PaymentInv, TypeOK', NEW r \in Requests, Arrive(r) \/ Continue(r) \/ Fail(r)
  PROVE  TrueRefunds'
<1>1. TrueRefunds /\ TypeOK /\ Grows /\ TrueRow(row[r], call[r].tx)
  BY StepGrows DEF PaymentInv, TrueCopies
<1>2. CASE RefundGateway(r)
  <2>1. refunded' = refunded \cup {row[r].charge} /\ row[r].charge # 0
    BY <1>2 DEF RefundGateway, Refundable
  <2>. QED
    BY <1>1, <2>1 DEF TrueRefunds, TrueRow, Grows, TypeOK
<1>3. ASSUME UNCHANGED refunded PROVE TrueRefunds'
  BY <1>1, <1>3 DEF TrueRefunds, Grows, TypeOK
<1>4. CASE Arrive(r) \/ Fail(r)
  BY <1>3, <1>4 DEF Arrive, PlaceOrder, Pay, ChargeOrder, Refund, Fail
<1>5. CASE PayFind(r) \/ PayInsert(r) \/ ChargeFind(r) \/ ChargeMissed(r) \/ ChargeGateway(r)
           \/ ChargeTransaction(r) \/ ChargeStatus(r) \/ RefundRefused(r) \/ RefundTransaction(r)
  BY <1>3, <1>5 DEF PayFind, PayInsert, ChargeFind, ChargeMissed, ChargeGateway,
                    ChargeTransaction, ChargeStatus, RefundRefused, RefundTransaction
<1>. QED
  BY <1>2, <1>4, <1>5 DEF Continue

\* What a step does to the orders of stored transactions: it stores a new one,
\* or leaves id and order of each as they are, and no charge is ever dropped.
RowsStay ==
  \A t \in Requests : Stored(t) =>
    /\ Stored(t)' /\ tx'[t].order = tx[t].order
    /\ tx[t].charge # 0 => tx'[t].charge # 0

\* No statement of a handler moves a transaction to another order (RowsStay).
LEMMA StepRowsStay ==
  ASSUME PaymentInv, TypeOK', NEW r \in Requests, Arrive(r) \/ Continue(r) \/ Fail(r)
  PROVE  RowsStay
<1>1. TypeOK /\ Working(r) /\ row[r] \in Rows /\ FreshIds
  BY DEF PaymentInv, TypeOK, Handlers
<1>2. ASSUME UNCHANGED tx PROVE RowsStay
  BY <1>2 DEF RowsStay, Stored
<1>3. CASE Arrive(r) \/ Fail(r)
  BY <1>2, <1>3 DEF Arrive, PlaceOrder, Pay, ChargeOrder, Refund, Fail
<1>4. CASE PayFind(r) \/ ChargeFind(r) \/ ChargeMissed(r) \/ ChargeGateway(r)
           \/ ChargeStatus(r) \/ RefundGateway(r) \/ RefundRefused(r)
  BY <1>2, <1>4 DEF PayFind, ChargeFind, ChargeMissed, ChargeGateway, ChargeStatus,
                    RefundGateway, RefundRefused
<1>5. CASE PayInsert(r)
  BY <1>1, <1>5 DEF PayInsert, RowsStay, FreshIds, Stored, TypeOK
<1>6. CASE ChargeTransaction(r)
  <2>1. tx' = [tx EXCEPT ![call[r].tx] = Paid(row[r], r)] /\ pc[r] = "c_tx"
    BY <1>6 DEF ChargeTransaction
  <2>2. call[r].tx \in Requests /\ tx[call[r].tx].order = row[r].order
    BY <1>1, <2>1 DEF TypeOK, Working, HoldingPhases
  <2>3. tx'[call[r].tx] = Paid(row[r], r)
        /\ \A t \in Requests : t # call[r].tx => tx'[t] = tx[t]
    BY <1>1, <2>1, <2>2 DEF TypeOK
  <2>4. /\ tx'[call[r].tx].status = "paid" /\ tx'[call[r].tx].charge # 0
        /\ tx'[call[r].tx].order = tx[call[r].tx].order
    BY <1>1, <2>2, <2>3, RowsMade DEF Requests
  <2>. QED
    BY <2>3, <2>4 DEF RowsStay, Stored
<1>7. CASE RefundTransaction(r)
  <2>1. tx' = [tx EXCEPT ![call[r].tx] = Refunded(row[r])] /\ pc[r] = "r_tx"
    BY <1>7 DEF RefundTransaction
  <2>2. call[r].tx \in Requests /\ tx[call[r].tx].order = row[r].order /\ row[r].charge # 0
    BY <1>1, <2>1 DEF TypeOK, Working, HoldingPhases
  <2>3. tx'[call[r].tx] = Refunded(row[r])
        /\ \A t \in Requests : t # call[r].tx => tx'[t] = tx[t]
    BY <1>1, <2>1, <2>2 DEF TypeOK
  <2>4. /\ tx'[call[r].tx].status = "refund" /\ tx'[call[r].tx].charge # 0
        /\ tx'[call[r].tx].order = tx[call[r].tx].order
    BY <1>1, <2>2, <2>3, RowsMade
  <2>. QED
    BY <2>3, <2>4 DEF RowsStay, Stored
<1>. QED
  BY <1>3, <1>4, <1>5, <1>6, <1>7 DEF Continue

\* A transaction comes into being under the id of the request that ends there.
LEMMA FreshIdsStep ==
  ASSUME PaymentInv, TypeOK', NEW r \in Requests, Arrive(r) \/ Continue(r) \/ Fail(r)
  PROVE  FreshIds'
<1>1. TypeOK /\ FreshIds /\ Working(r)
  BY DEF PaymentInv, Handlers
<1>2. ASSUME NEW t \in Requests, pc[t] = "done" PROVE pc'[t] = "done"
  <2>1. t # r \/ \E status \in {"open", "paid"} : PlaceOrder(r, status)
    BY <1>1, <1>2 DEF Arrive, Continue, Fail, Busy, PlaceOrder, Pay, ChargeOrder, Refund, Begin,
       PayFind, PayInsert, ChargeFind, ChargeMissed, ChargeGateway, ChargeTransaction,
       ChargeStatus, RefundGateway, RefundRefused, RefundTransaction
  <2>2. \E at \in Statements : pc' = [pc EXCEPT ![r] = at]
    BY <1>1 DEF TypeOK, Statements, Arrive, Continue, Fail, PlaceOrder, Pay, ChargeOrder,
       Refund, Begin, Goto,
       PayFind, PayInsert, ChargeFind, ChargeMissed, ChargeGateway, ChargeTransaction,
       ChargeStatus, RefundGateway, RefundRefused, RefundTransaction
  <2>. QED
    BY <1>1, <1>2, <2>1, <2>2 DEF PlaceOrder, Begin, TypeOK
<1>3. ASSUME NEW t \in Requests, Stored(t)', ~Stored(t) PROVE pc'[t] = "done"
  <2>1. CASE PayInsert(r)
    BY <1>1, <1>3, <2>1 DEF PayInsert, Goto, Stored, TypeOK
  <2>2. ASSUME tx' = tx PROVE FALSE
    BY <1>3, <2>2 DEF Stored
  <2>3. CASE Arrive(r) \/ Fail(r)
    BY <2>2, <2>3 DEF Arrive, PlaceOrder, Pay, ChargeOrder, Refund, Fail
  <2>4. CASE PayFind(r) \/ ChargeFind(r) \/ ChargeMissed(r) \/ ChargeGateway(r)
             \/ ChargeStatus(r) \/ RefundGateway(r) \/ RefundRefused(r)
    BY <2>2, <2>4 DEF PayFind, ChargeFind, ChargeMissed, ChargeGateway, ChargeStatus,
                      RefundGateway, RefundRefused
  <2>5. CASE ChargeTransaction(r) \/ RefundTransaction(r)
    <3>1. tx'[t] = tx[t] \/ t = call[r].tx
      BY <1>1, <2>5 DEF ChargeTransaction, RefundTransaction, TypeOK
    <3>2. call[r].tx # 0 /\ Stored(call[r].tx)
      BY <1>1, <2>5 DEF ChargeTransaction, RefundTransaction, Working, HoldingPhases
    <3>. QED
      BY <1>3, <3>1, <3>2 DEF Stored
  <2>. QED
    BY <2>1, <2>3, <2>4, <2>5 DEF Continue
<1>. QED
  BY <1>1, <1>2, <1>3 DEF FreshIds

\* What a handler relies on survives the steps of the others: nothing it knows
\* of a row, a charge or a refund is ever taken back.
LEMMA OthersWorking ==
  ASSUME PaymentInv, TypeOK', NEW r \in Requests, NEW q \in Requests, q # r,
         Grows, RowsStay,
         pc'[q] = pc[q], call'[q] = call[q], row'[q] = row[q]
  PROVE  Working(q)'
<1>1. Working(q) /\ call[q].tx \in Requests \cup {0}
  BY DEF PaymentInv, Handlers, TypeOK
<1>2. call[q].tx # 0 => /\ Stored(call[q].tx) => Stored(call[q].tx)'
                        /\ Stored(call[q].tx) => tx'[call[q].tx].order = tx[call[q].tx].order
                        /\ Stored(call[q].tx) /\ tx[call[q].tx].charge # 0
                             => tx'[call[q].tx].charge # 0
  BY <1>1 DEF RowsStay, Stored
<1>. QED
  BY <1>1, <1>2 DEF Working, HoldingPhases, Grows, Stored

\* Only the handler itself changes where it is, what it does and its copy.
LEMMA OnlyItself ==
  ASSUME TypeOK, NEW r \in Requests, Arrive(r) \/ Continue(r) \/ Fail(r),
         NEW q \in Requests, q # r
  PROVE  pc'[q] = pc[q] /\ call'[q] = call[q] /\ row'[q] = row[q]
<1>1. CASE Arrive(r) \/ Fail(r)
  BY <1>1 DEF Arrive, PlaceOrder, Pay, ChargeOrder, Refund, Begin, Fail, Goto, TypeOK
<1>2. CASE Continue(r)
  BY <1>2 DEF Continue, Goto, TypeOK, PayFind, PayInsert, ChargeFind, ChargeMissed, ChargeGateway,
     ChargeTransaction, ChargeStatus, RefundGateway, RefundRefused, RefundTransaction
<1>. QED
  BY <1>1, <1>2

\* Each statement of a handler leaves it with what the next one relies on.
LEMMA ItselfWorking ==
  ASSUME PaymentInv, TypeOK', NEW r \in Requests, Arrive(r) \/ Continue(r) \/ Fail(r)
  PROVE  Working(r)'
<1>1. TypeOK /\ Working(r) /\ Grows /\ RowsStay /\ TrueRow(row[r], call[r].tx)
  BY StepGrows, StepRowsStay DEF PaymentInv, Handlers, TrueCopies
<1> USE DEF HoldingPhases
<1>2. CASE (\E status \in {"open", "paid"} : PlaceOrder(r, status)) \/ Fail(r) \/ PayInsert(r)
  BY <1>1, <1>2 DEF PlaceOrder, Begin, Fail, Busy, PayInsert, Goto, Working, TypeOK
<1>3. ASSUME NEW o \in Requests, Pay(r, o) \/ ChargeOrder(r, o) PROVE Working(r)'
  BY <1>1, <1>3 DEF Pay, ChargeOrder, Begin, Working, TypeOK
<1>4. ASSUME NEW t \in Requests, Refund(r, t) PROVE Working(r)'
  <2>1. /\ pc'[r] = "r_gateway" /\ row'[r] = tx[t] /\ tx' = tx /\ Stored(t)
        /\ call'[r] = [op |-> "refund", order |-> tx[t].order, tx |-> t, status |-> "none"]
    BY <1>1, <1>4 DEF Refund, Begin, TypeOK
  <2>. QED
    BY <2>1 DEF Working, Stored, Requests
<1>5. CASE PayFind(r) \/ ChargeMissed(r)
  <2>1. call'[r] = call[r] /\ row'[r] = row[r]
    BY <1>5 DEF PayFind, ChargeMissed, Goto
  <2>2. pc'[r] \in {"p_insert", "done"} \/ (pc[r] = "c_find" /\ pc'[r] = "c_gateway")
    BY <1>1, <1>5 DEF PayFind, ChargeMissed, Goto, TypeOK
  <2>. QED
    BY <1>1, <2>1, <2>2 DEF Working
<1>6. CASE ChargeFind(r)
  <2>1. PICK t \in Requests : /\ Stored(t) /\ tx[t].order = call[r].order
                             /\ row' = [row EXCEPT ![r] = tx[t]]
                             /\ call' = [call EXCEPT ![r].tx = t]
    BY <1>6 DEF ChargeFind, TransactionsOf
  <2>2. /\ pc[r] = "c_find" /\ pc'[r] = "c_gateway" /\ tx' = tx /\ row'[r] = tx[t]
        /\ call'[r].tx = t /\ call'[r].order = call[r].order /\ call'[r].op = call[r].op
    BY <1>1, <1>6, <2>1 DEF ChargeFind, TypeOK
  <2>. QED
    BY <1>1, <2>1, <2>2 DEF Working, Stored
<1>7. CASE ChargeGateway(r)
  BY <1>1, <1>7 DEF ChargeGateway, Goto, Working, Stored, TypeOK
<1>8. CASE ChargeTransaction(r)
  <2>1. /\ tx' = [tx EXCEPT ![call[r].tx] = Paid(row[r], r)] /\ pc[r] = "c_tx"
        /\ pc'[r] = "c_order" /\ call' = call /\ row' = row
    BY <1>1, <1>8 DEF ChargeTransaction, Goto, TypeOK
  <2>2. tx'[call[r].tx].charge # 0
    <3>1. call[r].tx \in Requests /\ row[r] \in Rows
      BY <1>1, <2>1 DEF TypeOK, Working
    <3>2. tx'[call[r].tx] = Paid(row[r], r)
      BY <1>1, <2>1, <3>1 DEF TypeOK
    <3>. QED
      BY <3>1, <3>2, RowsMade DEF Requests
  <2>. QED
    BY <1>1, <2>1, <2>2 DEF Working, RowsStay, TypeOK
<1>9. CASE ChargeStatus(r) \/ RefundRefused(r) \/ RefundTransaction(r)
  BY <1>1, <1>9 DEF ChargeStatus, RefundRefused, RefundTransaction, Goto, Working, TypeOK
<1>10. CASE RefundGateway(r)
  BY <1>1, <1>10 DEF RefundGateway, Refundable, Goto, Working, Stored, TypeOK
<1>. QED
  BY <1>2, <1>3, <1>4, <1>5, <1>6, <1>7, <1>8, <1>9, <1>10 DEF Arrive, Continue

\* Every handler keeps what it relies on, whoever takes the step.
LEMMA HandlersStep ==
  ASSUME PaymentInv, TypeOK', NEW r \in Requests, Arrive(r) \/ Continue(r) \/ Fail(r)
  PROVE  Handlers'
<1>1. TypeOK /\ Grows /\ RowsStay
  BY StepGrows, StepRowsStay DEF PaymentInv
<1>2. ASSUME NEW q \in Requests, q # r PROVE Working(q)'
  BY <1>1, <1>2, OnlyItself, OthersWorking
<1>. QED
  BY <1>2, ItselfWorking DEF Handlers

\* A request writes the status of its own order when it places it, and of the
\* order it charges when that is placed.
LEMMA PlacedOrdersStep ==
  ASSUME PaymentInv, TypeOK', NEW r \in Requests, Arrive(r) \/ Continue(r) \/ Fail(r)
  PROVE  PlacedOrders'
<1>1. TypeOK /\ PlacedOrders /\ Working(r)
  BY DEF PaymentInv, Handlers
<1>2. /\ pc'[r] # "idle"
      /\ \A q \in Requests : q # r => pc'[q] = pc[q] /\ call'[q] = call[q]
  BY <1>1, OnlyItself DEF TypeOK, Arrive, Continue, Fail, PlaceOrder, Pay, ChargeOrder, Refund,
     Begin, Goto, PayFind, PayInsert, ChargeFind, ChargeMissed, ChargeGateway,
     ChargeTransaction, ChargeStatus, RefundGateway, RefundRefused, RefundTransaction
<1>3. CASE \E status \in {"open", "paid"} : PlaceOrder(r, status)
  <2>1. PICK status \in {"open", "paid"} : PlaceOrder(r, status)
    BY <1>3
  <2>2. order' = [order EXCEPT ![r] = status] /\ pc'[r] = "done"
    BY <1>1, <2>1 DEF PlaceOrder, Begin, TypeOK
  <2>. QED
    BY <1>1, <1>2, <2>1, <2>2 DEF PlacedOrders, Placed, TypeOK
<1>4. CASE ChargeStatus(r)
  <2>1. /\ order' = [order EXCEPT ![call[r].order] = "paid"] /\ pc'[r] = "done"
        /\ Placed(call[r].order)
    BY <1>1, <1>4 DEF ChargeStatus, Goto, PlacedOrders, TypeOK
  <2>. QED
    BY <1>1, <1>2, <2>1 DEF PlacedOrders, Placed, TypeOK
<1>5. CASE UNCHANGED order
  <2>1. ASSUME pc'[r] \in {"c_find", "c_gateway", "c_tx", "c_order"}
        PROVE  Placed(call'[r].order)
    <3>1. ASSUME NEW o \in Requests, ChargeOrder(r, o) PROVE Placed(call'[r].order)
      BY <1>1, <3>1 DEF ChargeOrder, Begin, TypeOK
    <3>2. CASE ChargeFind(r) \/ ChargeMissed(r) \/ ChargeGateway(r) \/ ChargeTransaction(r)
      <4>1. /\ pc[r] \in {"c_find", "c_gateway", "c_tx", "c_order"}
            /\ call'[r].order = call[r].order
        BY <1>1, <3>2 DEF ChargeFind, ChargeMissed, ChargeGateway, ChargeTransaction, Goto, TypeOK
      <4>. QED
        BY <1>1, <4>1 DEF PlacedOrders
    <3>3. CASE Arrive(r) /\ ~\E o \in Requests : ChargeOrder(r, o)
      BY <1>1, <2>1, <3>3 DEF Arrive, PlaceOrder, Pay, Refund, Begin, TypeOK
    <3>4. CASE Continue(r) /\ ~(\/ ChargeFind(r) \/ ChargeMissed(r) \/ ChargeGateway(r)
                               \/ ChargeTransaction(r))
      BY <1>1, <2>1, <3>4 DEF Continue, PayFind, PayInsert, ChargeStatus, RefundGateway,
         RefundRefused, RefundTransaction, Goto, TypeOK
    <3>5. CASE Fail(r)
      BY <1>1, <2>1, <3>5 DEF Fail, Goto, TypeOK
    <3>. QED
      BY <3>1, <3>2, <3>3, <3>4, <3>5
  <2>. QED
    BY <1>1, <1>2, <1>5, <2>1 DEF PlacedOrders, Placed
<1>. QED
  BY <1>3, <1>4, <1>5 DEF Arrive, Continue, Fail, Pay, ChargeOrder, Refund, PayFind, PayInsert,
     ChargeFind, ChargeMissed, ChargeGateway, ChargeTransaction, RefundGateway,
     RefundRefused, RefundTransaction

\* An order becomes paid by a handler that has recorded its charge before, and the
\* order of a transaction and the presence of a charge last.
LEMMA PaidOrdersStep ==
  ASSUME PaymentInv, TypeOK', NEW r \in Requests, Arrive(r) \/ Continue(r) \/ Fail(r)
  PROVE  PaidOrders'
<1>1. TypeOK /\ RowsStay /\ Working(r) /\ PlacedOrders /\ PaidOrders /\ TrueTable
  BY StepRowsStay DEF PaymentInv, Handlers
<1>2. ASSUME NEW o \in Requests, order'[o] = "paid", call'[o].status # "paid",
             order[o] = "paid"
      PROVE  \E t \in Requests : tx'[t].order = o /\ tx'[t].charge # 0
  <2>1. pc[o] # "idle"
    BY <1>1, <1>2 DEF PlacedOrders, Placed
  <2>2. call[o].status = call'[o].status
    <3>1. CASE o # r
      BY <1>1, <3>1, OnlyItself
    <3>2. CASE o = r /\ ChargeFind(r)
      BY <1>1, <3>2 DEF ChargeFind, TypeOK
    <3>3. CASE o = r /\ ~ChargeFind(r)
      <4>1. ~Arrive(r)
        BY <2>1, <3>3 DEF Arrive, PlaceOrder, Pay, ChargeOrder, Refund, Begin
      <4>2. UNCHANGED call
        BY <3>3, <4>1 DEF Continue, Fail, Goto, PayFind, PayInsert, ChargeMissed, ChargeGateway,
           ChargeTransaction, ChargeStatus, RefundGateway, RefundRefused, RefundTransaction
      <4>. QED
        BY <4>2
    <3>. QED
      BY <3>1, <3>2, <3>3
  <2>3. PICK t \in Requests : tx[t].order = o /\ tx[t].charge # 0
    BY <1>1, <1>2, <2>2 DEF PaidOrders
  <2>4. Stored(t)
    BY <1>1, <2>3 DEF TrueTable, TrueRow, Stored
  <2>. QED
    BY <1>1, <2>3, <2>4 DEF RowsStay
<1>3. ASSUME NEW o \in Requests, order'[o] = "paid", call'[o].status # "paid",
             order[o] # "paid"
      PROVE  \E t \in Requests : tx'[t].order = o /\ tx'[t].charge # 0
  <2>1. CASE ChargeStatus(r)
    <3>1. o = call[r].order /\ pc[r] = "c_order" /\ tx' = tx
      BY <1>1, <1>3, <2>1 DEF ChargeStatus, TypeOK
    <3>2. call[r].tx \in Requests /\ tx[call[r].tx].order = o /\ tx[call[r].tx].charge # 0
      BY <1>1, <3>1 DEF Working, HoldingPhases, TypeOK
    <3>. QED
      BY <3>1, <3>2
  <2>2. CASE \E status \in {"open", "paid"} : PlaceOrder(r, status)
    <3>1. PICK status \in {"open", "paid"} : PlaceOrder(r, status)
      BY <2>2
    <3>2. o = r /\ call'[r].status = status /\ order'[r] = status
      BY <1>1, <1>3, <3>1 DEF PlaceOrder, Begin, TypeOK
    <3>. QED
      BY <1>3, <3>2
  <2>3. CASE ~ChargeStatus(r) /\ ~\E status \in {"open", "paid"} : PlaceOrder(r, status)
    BY <1>3, <2>3 DEF Arrive, Continue, Fail, Pay, ChargeOrder, Refund, PayFind, PayInsert,
       ChargeFind, ChargeMissed, ChargeGateway, ChargeTransaction, RefundGateway,
       RefundRefused, RefundTransaction
  <2>. QED
    BY <2>1, <2>2, <2>3
<1>. QED
  BY <1>2, <1>3 DEF PaidOrders

\* A refund between gateway and table stays there unless it is recorded.
LEMMA RefundingStays ==
  ASSUME PaymentInv, TypeOK', NEW r \in Requests, Arrive(r) \/ Continue(r) \/ Fail(r),
         ~RefundTransaction(r)
  PROVE  \A c \in Requests : Refunding(c) => Refunding(c)'
<1>1. TypeOK
  BY DEF PaymentInv
<1>2. SUFFICES ASSUME NEW c \in Requests, NEW q \in Requests, call[q].op = "refund",
                      row[q].charge = c, pc[q] \in {"r_tx", "failed"}
               PROVE  /\ call'[q].op = "refund" /\ row'[q].charge = c
                      /\ pc'[q] \in {"r_tx", "failed"}
  BY DEF Refunding
<1>3. CASE q # r
  BY <1>1, <1>2, <1>3, OnlyItself
<1>4. CASE q = r /\ Fail(r)
  BY <1>1, <1>2, <1>4 DEF Fail, Goto, TypeOK
<1>5. CASE q = r /\ ~Fail(r)
  BY <1>2, <1>5 DEF Arrive, Continue, PlaceOrder, Pay, ChargeOrder, Refund, Begin, PayFind,
     PayInsert, ChargeFind, ChargeMissed, ChargeGateway, ChargeTransaction, ChargeStatus,
     RefundGateway, RefundRefused
<1>. QED
  BY <1>3, <1>4, <1>5

\* A charge stands in at most one transaction, the one its request works on:
\* the refund that is recorded there leaves no other row behind.
LEMMA PaidRowsStep ==
  ASSUME PaymentInv, TypeOK', NEW r \in Requests, Arrive(r) \/ Continue(r) \/ Fail(r)
  PROVE  PaidRows'
<1>1. TypeOK /\ PaidRows /\ TrueTable /\ TrueRefunds /\ Working(r) /\ row[r] \in Rows
      /\ TrueRow(row[r], call[r].tx)
  BY DEF PaymentInv, Handlers, TrueCopies, TypeOK
<1>2. ASSUME UNCHANGED refunded, ~RefundTransaction(r), NEW t \in Requests,
             tx'[t].status = "paid", tx'[t] = tx[t]
      PROVE  tx'[t].charge \notin refunded' \/ Refunding(tx[t].charge)'
  <2>1. tx[t].charge \in Requests
    BY <1>1, <1>2 DEF TrueTable, TrueRow
  <2>2. tx[t].charge \in refunded => Refunding(tx[t].charge)
    BY <1>1, <1>2 DEF PaidRows
  <2>3. PICK c \in Requests : c = tx[t].charge
    BY <2>1
  <2>4. Refunding(c) => Refunding(c)'
    BY <1>2, RefundingStays
  <2>. QED
    BY <1>2, <2>2, <2>3, <2>4 DEF Refunding
<1>3. CASE ~RefundTransaction(r) /\ UNCHANGED <<tx, refunded>>
  BY <1>2, <1>3 DEF PaidRows, Refunding
<1>4. CASE ~RefundTransaction(r) /\ (Arrive(r) \/ Fail(r))
  BY <1>3, <1>4 DEF Arrive, PlaceOrder, Pay, ChargeOrder, Refund, Fail
<1>5. CASE ~RefundTransaction(r) /\ ~Arrive(r) /\ ~Fail(r) /\ ~PayInsert(r)
           /\ ~ChargeTransaction(r) /\ ~RefundGateway(r)
  BY <1>3, <1>5 DEF Continue, PayFind, ChargeFind, ChargeMissed, ChargeGateway,
     ChargeStatus, RefundRefused
<1>6. CASE PayInsert(r)
  <2>1. /\ pc[r] = "p_insert" /\ pc'[r] = "done" /\ refunded' = refunded
        /\ tx' = [tx EXCEPT ![r] = Draft(call[r].order)]
    BY <1>1, <1>6 DEF PayInsert, Goto, TypeOK
  <2>2. ~RefundTransaction(r)
    BY <2>1 DEF RefundTransaction
  <2>3. ASSUME NEW t \in Requests, tx'[t].status = "paid"
        PROVE  tx'[t].charge \notin refunded' \/ Refunding(tx[t].charge)'
    <3>1. t # r
      BY <1>1, <2>1, <2>3 DEF Draft, TypeOK
    <3>. QED
      BY <1>1, <1>2, <2>1, <2>2, <2>3, <3>1 DEF TypeOK
  <2>. QED
    BY <2>3 DEF PaidRows, Refunding
<1>7. CASE ChargeTransaction(r)
  <2>1. /\ pc[r] = "c_tx" /\ pc'[r] = "c_order" /\ refunded' = refunded
        /\ tx' = [tx EXCEPT ![call[r].tx] = Paid(row[r], r)]
    BY <1>1, <1>7 DEF ChargeTransaction, Goto, TypeOK
  <2>2. ~RefundTransaction(r) /\ r \notin refunded
    BY <1>1, <2>1 DEF RefundTransaction, TrueRefunds, Past
  <2>3. ASSUME NEW t \in Requests, tx'[t].status = "paid"
        PROVE  tx'[t].charge \notin refunded' \/ Refunding(tx[t].charge)'
    <3>1. CASE t # call[r].tx
      BY <1>1, <1>2, <2>1, <2>2, <2>3, <3>1 DEF TypeOK
    <3>2. CASE t = call[r].tx
      <4>1. tx'[t] = Paid(row[r], r)
        BY <1>1, <2>1, <3>2 DEF TypeOK
      <4>2. Paid(row[r], r).charge = r
        BY <1>1, RowsMade
      <4>3. tx'[t].charge = r
        BY <4>1, <4>2
      <4>. QED
        BY <2>1, <2>2, <4>3
    <3>. QED
      BY <3>1, <3>2
  <2>. QED
    BY <2>3 DEF PaidRows, Refunding
<1>8. CASE RefundGateway(r)
  <2>1. /\ pc[r] = "r_gateway" /\ pc'[r] = "r_tx" /\ call'[r] = call[r] /\ row'[r] = row[r]
        /\ tx' = tx /\ refunded' = refunded \cup {row[r].charge} /\ call[r].op = "refund"
    BY <1>1, <1>8 DEF RefundGateway, Goto, Working, TypeOK
  <2>2. ~RefundTransaction(r)
    BY <2>1 DEF RefundTransaction
  <2>3. ASSUME NEW t \in Requests, tx'[t].status = "paid"
        PROVE  tx'[t].charge \notin refunded' \/ Refunding(tx[t].charge)'
    <3>1. CASE tx[t].charge = row[r].charge
      BY <2>1, <3>1 DEF Refunding
    <3>2. CASE tx[t].charge # row[r].charge
      <4>1. tx[t].charge \in Requests
        BY <1>1, <2>1, <2>3 DEF TrueTable, TrueRow
      <4>2. tx[t].charge \in refunded => Refunding(tx[t].charge)
        BY <1>1, <2>1, <2>3 DEF PaidRows
      <4>3. PICK c \in Requests : c = tx[t].charge
        BY <4>1
      <4>4. Refunding(c) => Refunding(c)'
        BY <2>2, RefundingStays
      <4>. QED
        BY <2>1, <3>2, <4>2, <4>3, <4>4 DEF Refunding
    <3>. QED
      BY <3>1, <3>2
  <2>. QED
    BY <2>3 DEF PaidRows, Refunding
<1>9. CASE RefundTransaction(r)
  <2>1. /\ pc[r] = "r_tx" /\ refunded' = refunded /\ call' = call /\ row' = row
        /\ pc' = [pc EXCEPT ![r] = "done"]
        /\ tx' = [tx EXCEPT ![call[r].tx] = Refunded(row[r])]
    BY <1>9 DEF RefundTransaction, Goto
  <2>2. call[r].tx \in Requests
    BY <1>1, <2>1 DEF Working, HoldingPhases, TypeOK
  <2>3. ASSUME NEW t \in Requests, tx'[t].status = "paid", tx'[t].charge \in refunded'
        PROVE  Refunding(tx[t].charge)'
    <3>1. tx'[call[r].tx] = Refunded(row[r])
      BY <1>1, <2>1, <2>2 DEF TypeOK
    <3>2. t # call[r].tx /\ tx'[t] = tx[t]
      BY <1>1, <2>1, <2>3, <3>1, RowsMade DEF TypeOK
    <3>3. PICK q \in Requests : /\ call[q].op = "refund" /\ row[q].charge = tx[t].charge
                               /\ pc[q] \in {"r_tx", "failed"}
      BY <1>1, <2>1, <2>3, <3>2 DEF PaidRows, Refunding
    <3>4. q # r
      BY <1>1, <2>3, <3>2, <3>3 DEF TrueTable, TrueRow
    <3>. QED
      BY <1>1, <2>1, <3>2, <3>3, <3>4 DEF Refunding, TypeOK
  <2>. QED
    BY <2>3 DEF PaidRows, Refunding
<1>. QED
  BY <1>4, <1>5, <1>6, <1>7, <1>8, <1>9

-----------------------------------------------------------------------------
(* Theorems. *)

\* The strengthening is kept by every step, and by stuttering.
LEMMA PaymentNextInv == PaymentInv /\ [Next]_vars => PaymentInv'
<1> SUFFICES ASSUME PaymentInv, [Next]_vars PROVE PaymentInv'
  OBVIOUS
<1>1. TypeOK'
  BY NextTypes DEF PaymentInv
<1>2. ASSUME NEW r \in Requests, Arrive(r) \/ Continue(r) \/ Fail(r) PROVE PaymentInv'
  BY <1>1, <1>2, TrueTableStep, TrueCopiesStep, TrueRefundsStep, FreshIdsStep,
     HandlersStep, PlacedOrdersStep, PaidOrdersStep, PaidRowsStep DEF PaymentInv
<1>3. CASE UNCHANGED vars
  BY <1>1, <1>3 DEF vars, PaymentInv, TrueTable, TrueCopies, TrueRow, TrueRefunds, FreshIds,
     Stored, Handlers, Working, PlacedOrders, Placed, PaidOrders, PaidRows, Refunding
<1>. QED
  BY <1>2, <1>3 DEF Next, Rest

\* The strengthening holds in every reachable state.
LEMMA PaymentInvariance == Spec => []PaymentInv
  BY PaymentInitInv, PaymentNextInv, PTL DEF Spec

\* An order is marked paid only when a transaction of it records a charge the
\* gateway has made for that very order (Payment!PaidOrderOnTheBooks),
\* however many checkouts, submissions and refunds of it are under way.
THEOREM PaidOnTheBooks == Spec => []PaidOrderOnTheBooks
<1>1. PaymentInv => PaidOrderOnTheBooks
  BY DEF PaymentInv, PaidOrders, TrueTable, TrueRow, PaidOrderOnTheBooks
<1>. QED
  BY <1>1, PaymentInvariance, PTL

\* No transaction says paid whose charge has been refunded, nor refund whose
\* charge has not, but for a refund that is on its way to the table or was cut
\* short there (Payment!BooksMatchGateway).
THEOREM BooksMatch == Spec => []BooksMatchGateway
<1>1. PaymentInv => BooksMatchGateway
  BY DEF PaymentInv, TrueTable, TrueRow, PaidRows, BooksMatchGateway
<1>. QED
  BY <1>1, PaymentInvariance, PTL

-----------------------------------------------------------------------------
(* Subscriptions: the inductive invariant of their books.                  *)

\* Where each call is, what it works on is there: its subscription, the
\* gateway's that it has made or was given, the transaction it has found.
DealOK(c) ==
  /\ Dealing(c) => deal[c].sub \in Calls /\ progress[deal[c].sub] = "done"
  /\ progress[c] \in {"page_gateway", "page_update", "charge_active"} => gateway = "razorpay"
  /\ progress[c] \in {"charge_gateway", "charge_sub"} => gateway = "stripe"
  /\ progress[c] = "page_update" => ownerOf[c] = deal[c].sub
  /\ progress[c] \in {"charge_active", "charge_find", "charge_tx"} /\ gateway = "razorpay" =>
       deal[c].at \in Calls /\ ownerOf[deal[c].at] = deal[c].sub
  /\ progress[c] \in {"charge_tx", "charge_sub"} /\ gateway = "stripe" =>
       deal[c].at = c /\ ownerOf[c] = deal[c].sub
  /\ progress[c] \in {"charge_active", "charge_find"} => deal[c].tx = 0
  /\ progress[c] \in {"charge_tx", "charge_sub"} => deal[c].tx # 0
  /\ progress[c] \in {"charge_gateway", "charge_tx", "charge_sub"} /\ deal[c].tx # 0 =>
       payment[deal[c].tx].status # "none" /\ payment[deal[c].tx].sub = deal[c].sub
  /\ progress[c] = "charge_sub" => payment[deal[c].tx].status = "paid"
  /\ progress[c] = "hook_write" => deal[c].at \in Calls /\ copied[c].at = deal[c].at
  /\ progress[c] \in {"idle", "page_find", "page_gateway", "charge_active", "charge_find",
                      "charge_gateway", "hook_write"} => ownerOf[c] = 0

\* A call that has made a row has ended.
MadeOK(c) ==
  payment[c].status # "none" \/ subscription[c] # NoSubscription => progress[c] = "done"

HasPaid(s) == \E t \in Calls : payment[t].status = "paid" /\ payment[t].sub = s

\* What a row, or a copy that will be written back, may name of the gateway's.
Names(r, s) ==
  r.at # 0 => ownerOf[r.at] = s /\ (gateway = "stripe" => HasPaid(s))

\* What is paid is a transaction of the gateway's subscription it names.
PaidOK(t) ==
  payment[t].status = "paid" =>
    /\ payment[t].sub \in Calls /\ payment[t].at \in Calls
    /\ ownerOf[payment[t].at] = payment[t].sub

NamesOK ==
  /\ \A s \in Calls : Names(subscription[s], s)
  /\ \A c \in Calls : progress[c] = "hook_write" => Names(copied[c], deal[c].sub)
  /\ \A t \in Calls : PaidOK(t)

BooksInv ==
  /\ SubscriptionTypeOK /\ NamesOK
  /\ \A c \in Calls : DealOK(c) /\ MadeOK(c)

-----------------------------------------------------------------------------
(* What every step leaves as it was.                                       *)

\* Calls that have ended stay so, the gateway's subscriptions keep their
\* owners, transactions their subscriptions, and what is paid stays paid.
BooksGrow ==
  /\ gateway' = gateway
  /\ \A d \in Calls : progress[d] = "done" => progress'[d] = "done"
  /\ \A g \in Calls : ownerOf[g] # 0 => ownerOf'[g] = ownerOf[g]
  /\ \A t \in Calls : payment[t].status # "none" =>
       payment'[t].status # "none" /\ payment'[t].sub = payment[t].sub
  /\ \A t \in Calls : payment[t].status = "paid" => payment'[t].status = "paid"

LEMMA OthersOK ==
  ASSUME BooksInv, BooksGrow, NEW b \in Calls,
         UNCHANGED <<progress[b], deal[b], copied[b], ownerOf[b]>>
  PROVE  DealOK(b)'
<1>1. DealOK(b) /\ deal[b].sub \in Calls \union {0} /\ deal[b].tx \in Calls \union {0}
  BY DEF BooksInv, SubscriptionTypeOK
<1>2. 0 \notin Calls
  BY SubscriptionAssumption DEF Calls
<1> QED BY <1>1, <1>2 DEF DealOK, BooksGrow, Dealing

\* A row that named one of the gateway's still does.
LEMMA NamesGrow ==
  ASSUME BooksInv, BooksGrow, NEW s \in Calls, NEW r \in RowsOfSubscriptions, Names(r, s)
  PROVE  r.at # 0 => ownerOf'[r.at] = s /\ (gateway = "stripe" => HasPaid(s)')
<1>1. 0 \notin Calls
  BY SubscriptionAssumption DEF Calls
<1>2. HasPaid(s) => HasPaid(s)'
  BY DEF HasPaid, BooksGrow
<1> QED BY <1>1, <1>2 DEF Names, BooksGrow, RowsOfSubscriptions

\* The rest of the invariant, where a step changes nothing it speaks of but at
\* one call.
LEMMA RestOK ==
  ASSUME BooksInv, BooksGrow, SubscriptionTypeOK', NEW c \in Calls,
         progress[c] # "done",
         \A b \in Calls \ {c} : UNCHANGED <<progress[b], deal[b], copied[b], ownerOf[b]>>,
         DealOK(c)',
         \A s \in Calls : Names(subscription[s], s)',
         progress'[c] = "hook_write" => Names(copied[c], deal[c].sub)',
         \A t \in Calls : PaidOK(t)',
         \A b \in Calls : MadeOK(b)'
  PROVE  BooksInv'
<1>1. \A b \in Calls : DealOK(b)'
  BY OthersOK
<1>2. ASSUME NEW b \in Calls, progress'[b] = "hook_write"
      PROVE  Names(copied[b], deal[b].sub)'
  <2>1. CASE b # c
    <3>1. UNCHANGED <<progress[b], deal[b], copied[b]>> /\ Names(copied[b], deal[b].sub)
      BY <1>2, <2>1 DEF BooksInv, NamesOK
    <3>2. deal[b].sub \in Calls /\ copied[b] \in RowsOfSubscriptions
      BY <1>2, <3>1 DEF BooksInv, DealOK, Dealing, SubscriptionTypeOK
    <3>3. copied[b].at # 0 =>
            ownerOf'[copied[b].at] = deal[b].sub /\ (gateway = "stripe" => HasPaid(deal[b].sub)')
      BY <3>1, <3>2, NamesGrow
    <3> QED BY <3>1, <3>3 DEF Names, BooksGrow
  <2> QED BY <1>2, <2>1
<1> QED BY <1>1, <1>2 DEF BooksInv, NamesOK

-----------------------------------------------------------------------------
(* Every action preserves it: first those that take a call up.             *)

LEMMA ZeroIsNoCall == 0 \notin Calls
BY SubscriptionAssumption DEF Calls

Deal == [op : {"none", "subscribe", "page", "charge", "hook"}, sub : Calls \union {0},
         at : Calls \union {0}, status : Reported, tx : Calls \union {0}]

LEMMA BeginSubscriptionInv ==
  ASSUME BooksInv, NEW c \in Calls, Subscribe(c)
  PROVE  BooksInv'
<1> USE DEF BooksInv, Subscribe, Take, NoDeal
<1>1. SubscriptionTypeOK'
  BY DEF SubscriptionTypeOK, RowsOfSubscriptions, Reported
<1>2. BooksGrow
  BY DEF BooksGrow, SubscriptionTypeOK
<1>3. DealOK(c)'
  BY DEF DealOK, Dealing, SubscriptionTypeOK
<1>4. \A s \in Calls : subscription'[s].at = subscription[s].at
  BY DEF SubscriptionTypeOK, RowsOfSubscriptions
<1>5. (\A s \in Calls : Names(subscription[s], s))'
  BY <1>4 DEF NamesOK, Names, HasPaid
<1>6. \A b \in Calls : MadeOK(b)'
  BY DEF MadeOK, SubscriptionTypeOK
<1>7. \A b \in Calls \ {c} : UNCHANGED <<progress[b], deal[b], copied[b], ownerOf[b]>>
  BY DEF SubscriptionTypeOK
<1>8. progress[c] # "done" /\ progress'[c] # "hook_write"
  BY DEF SubscriptionTypeOK
<1>9. \A t \in Calls : PaidOK(t)'
  BY DEF NamesOK, PaidOK
<1> QED BY <1>1, <1>2, <1>3, <1>5, <1>6, <1>7, <1>8, <1>9, RestOK

\* The other calls read what they will work on, and change no row.
LEMMA TakeInv ==
  ASSUME BooksInv, NEW c \in Calls, NEW d \in Deal,
         NEW at \in {"page_find", "charge_find", "charge_active", "hook_write", "failed", "done"},
         d.tx = 0, Take(c, d, at), UNCHANGED subscription, hooks' \subseteq hooks,
         copied' \in [Calls -> RowsOfSubscriptions],
         \A b \in Calls \ {c} : copied'[b] = copied[b],
         at \notin {"failed", "done"} => d.sub \in Calls /\ progress[d.sub] = "done",
         at = "charge_find" => gateway = "stripe",
         at = "charge_active" =>
           gateway = "razorpay" /\ d.at \in Calls /\ ownerOf[d.at] = d.sub,
         at = "hook_write" =>
           d.at \in Calls /\ copied'[c].at = d.at /\ copied'[c] = subscription[d.sub]
  PROVE  BooksInv'
<1> USE DEF BooksInv, Take
<1>1. SubscriptionTypeOK'
  BY DEF SubscriptionTypeOK, Deal
<1>2. BooksGrow
  BY DEF BooksGrow, SubscriptionTypeOK
<1>3. progress[c] = "idle" /\ progress'[c] = at /\ deal'[c] = d /\ ownerOf[c] = 0
  BY DEF SubscriptionTypeOK, DealOK
<1>4. at \notin {"failed", "done"} => progress'[d.sub] = "done"
  BY <1>2 DEF BooksGrow
<1>5. DealOK(c)'
  BY <1>3, <1>4 DEF DealOK, Dealing
<1>6. (\A s \in Calls : Names(subscription[s], s))'
  BY DEF NamesOK, Names, HasPaid
<1>7. progress'[c] = "hook_write" => Names(copied[c], deal[c].sub)'
  BY <1>3 DEF NamesOK, Names, HasPaid
<1>8. \A b \in Calls : MadeOK(b)'
  BY <1>3 DEF MadeOK, SubscriptionTypeOK
<1>9. \A b \in Calls \ {c} : UNCHANGED <<progress[b], deal[b], copied[b], ownerOf[b]>>
  BY DEF SubscriptionTypeOK
<1>10. \A t \in Calls : PaidOK(t)'
  BY DEF NamesOK, PaidOK
<1> QED BY <1>1, <1>2, <1>3, <1>5, <1>6, <1>7, <1>8, <1>9, <1>10, RestOK

LEMMA SubscribedOK ==
  ASSUME BooksInv, NEW s \in Calls, Subscribed(s) \/ subscription[s].at # 0
  PROVE  progress[s] = "done"
BY DEF BooksInv, MadeOK, Subscribed, NoSubscription

LEMMA TakeCallInv ==
  ASSUME BooksInv, NEW c \in Calls, TakeCall(c)
  PROVE  BooksInv'
<1> USE DEF NoDeal, Deal, Reported
<1>0. copied \in [Calls -> RowsOfSubscriptions] /\ subscription \in [Calls -> RowsOfSubscriptions]
  BY DEF BooksInv, SubscriptionTypeOK
<1>1. ASSUME Subscribe(c) PROVE BooksInv'
  BY <1>1, BeginSubscriptionInv
<1>2. ASSUME NEW s \in Calls, OpenPage(c, s) PROVE BooksInv'
  <2> DEFINE d == [NoDeal EXCEPT !.op = "page", !.sub = s]
  <2>1. d \in Deal /\ d.tx = 0 /\ d.sub = s /\ progress[s] = "done"
    BY <1>2, SubscribedOK DEF OpenPage
  <2> QED BY <1>0, <1>2, <2>1, TakeInv DEF OpenPage
<1>3. ASSUME NEW s \in Calls, ChargeCard(c, s) PROVE BooksInv'
  <2> DEFINE d == [NoDeal EXCEPT !.op = "charge", !.sub = s]
  <2>1. d \in Deal /\ d.tx = 0 /\ d.sub = s /\ progress[s] = "done"
    BY <1>3, SubscribedOK DEF ChargeCard
  <2> QED BY <1>0, <1>3, <2>1, TakeInv DEF ChargeCard
<1>4. ASSUME NEW g \in Calls, NEW s \in Calls, ChargePage(c, g, s) PROVE BooksInv'
  <2> DEFINE d == [NoDeal EXCEPT !.op = "charge", !.sub = s, !.at = g]
  <2>1. d \in Deal /\ d.tx = 0 /\ d.sub = s /\ d.at = g /\ progress[s] = "done" /\ ownerOf[g] = s
    BY <1>4, SubscribedOK, ZeroIsNoCall DEF ChargePage, NamedBy, BooksInv, NamesOK, Names
  <2> QED BY <1>0, <1>4, <2>1, TakeInv DEF ChargePage
<1>5. ASSUME NEW h \in hooks, WebHookMissed(c, h) PROVE BooksInv'
  <2> DEFINE d == [NoDeal EXCEPT !.op = "hook", !.at = h.at, !.status = h.status]
  <2>1. d \in Deal /\ d.tx = 0
    BY <1>5 DEF BooksInv, SubscriptionTypeOK
  <2> QED BY <1>0, <1>5, <2>1, TakeInv DEF WebHookMissed
<1>6. ASSUME NEW h \in hooks, NEW s \in Calls, WebHook(c, h, s) PROVE BooksInv'
  <2> DEFINE d == [NoDeal EXCEPT !.op = "hook", !.sub = s, !.at = h.at, !.status = h.status]
  <2>1. h.at \in Calls /\ h.status \in Reported
    BY <1>6 DEF BooksInv, SubscriptionTypeOK
  <2>2. d \in Deal /\ d.tx = 0 /\ d.sub = s /\ d.at = h.at
    BY <2>1
  <2>3. subscription[s].at = h.at /\ progress[s] = "done"
    BY <1>6, <2>1, SubscribedOK, ZeroIsNoCall DEF WebHook, NamedBy
  <2>4. copied' = [copied EXCEPT ![c] = subscription[s]]
    BY <1>6 DEF WebHook
  <2>5. Take(c, d, "hook_write") /\ UNCHANGED <<subscription, hooks>>
    BY <1>6 DEF WebHook
  <2> HIDE DEF d
  <2> QED BY <1>0, <2>1, <2>2, <2>3, <2>4, <2>5, TakeInv
<1> QED BY <1>1, <1>2, <1>3, <1>4, <1>5, <1>6 DEF TakeCall

-----------------------------------------------------------------------------
(* Then those that go on with one.                                         *)

\* A call that moves on and writes no row: it may make a subscription at the
\* gateway, and learn what it works on.
LEMMA MoveInv ==
  ASSUME BooksInv, BooksGrow, SubscriptionTypeOK', NEW c \in Calls, progress[c] # "done",
         progress'[c] # "hook_write",
         \A b \in Calls \ {c} : UNCHANGED <<progress[b], deal[b], copied[b], ownerOf[b]>>,
         UNCHANGED <<subscription, payment>>,
         DealOK(c)'
  PROVE  BooksInv'
<1>1. ASSUME NEW s \in Calls PROVE Names(subscription[s], s)'
  <2>1. Names(subscription[s], s) /\ subscription[s] \in RowsOfSubscriptions
    BY DEF BooksInv, NamesOK, SubscriptionTypeOK
  <2> QED BY <2>1, NamesGrow DEF Names, BooksGrow
<1>2. ASSUME NEW t \in Calls PROVE PaidOK(t)'
  BY ZeroIsNoCall DEF BooksInv, NamesOK, PaidOK, BooksGrow
<1>3. \A b \in Calls : MadeOK(b)'
  BY DEF BooksInv, MadeOK, BooksGrow
<1> QED BY <1>1, <1>2, <1>3, RestOK

LEMMA PageFindInv ==
  ASSUME BooksInv, NEW c \in Calls, PageFind(c)
  PROVE  BooksInv'
<1> USE DEF PageFind, Proceed
<1>1. SubscriptionTypeOK'
  <2>1. PICK t \in Calls \union {0} : deal' = [deal EXCEPT ![c].tx = t]
    BY DEF PaymentsOf
  <2>2. deal' \in [Calls -> Deal]
    BY <2>1 DEF BooksInv, SubscriptionTypeOK, Deal
  <2>3. \E at \in {"page_gateway", "page_insert", "done"} :
          progress' = [progress EXCEPT ![c] = at]
    OBVIOUS
  <2> QED BY <2>2, <2>3 DEF BooksInv, SubscriptionTypeOK, Deal
<1>2. BooksGrow
  BY ZeroIsNoCall DEF BooksGrow, BooksInv, SubscriptionTypeOK, DealOK, Dealing
<1>3. \A b \in Calls \ {c} : UNCHANGED <<progress[b], deal[b], copied[b], ownerOf[b]>>
  BY DEF BooksInv, SubscriptionTypeOK
<1>4. progress[c] # "done" /\ progress'[c] # "hook_write"
  BY DEF BooksInv, SubscriptionTypeOK, Dealing
<1>5. DealOK(c)'
  BY <1>2, ZeroIsNoCall DEF BooksGrow, BooksInv, SubscriptionTypeOK, DealOK, Dealing, PaymentsOf
<1> QED BY <1>1, <1>2, <1>3, <1>4, <1>5, MoveInv

LEMMA PageGatewayInv ==
  ASSUME BooksInv, NEW c \in Calls, PageGateway(c)
  PROVE  BooksInv'
<1> USE DEF PageGateway, Proceed
<1>1. SubscriptionTypeOK'
  BY DEF BooksInv, SubscriptionTypeOK, PaymentsOf, Reported, RowsOfSubscriptions
<1>2. BooksGrow
  BY ZeroIsNoCall DEF BooksGrow, BooksInv, SubscriptionTypeOK, DealOK, Dealing
<1>3. \A b \in Calls \ {c} : UNCHANGED <<progress[b], deal[b], copied[b], ownerOf[b]>>
  BY DEF BooksInv, SubscriptionTypeOK
<1>4. progress[c] # "done" /\ progress'[c] # "hook_write"
  BY DEF BooksInv, SubscriptionTypeOK, Dealing
<1>5. DealOK(c)'
  BY <1>2, ZeroIsNoCall DEF BooksGrow, BooksInv, SubscriptionTypeOK, DealOK, Dealing
<1> QED BY <1>1, <1>2, <1>3, <1>4, <1>5, MoveInv

LEMMA ChargeLookInv ==
  ASSUME BooksInv, NEW c \in Calls, ChargeLook(c)
  PROVE  BooksInv'
<1> USE DEF ChargeLook, Proceed
<1>1. SubscriptionTypeOK'
  BY DEF BooksInv, SubscriptionTypeOK, PaymentsOf, Reported, RowsOfSubscriptions
<1>2. BooksGrow
  BY ZeroIsNoCall DEF BooksGrow, BooksInv, SubscriptionTypeOK, DealOK, Dealing
<1>3. \A b \in Calls \ {c} : UNCHANGED <<progress[b], deal[b], copied[b], ownerOf[b]>>
  BY DEF BooksInv, SubscriptionTypeOK
<1>4. progress[c] # "done" /\ progress'[c] # "hook_write"
  BY DEF BooksInv, SubscriptionTypeOK, Dealing
<1>5. DealOK(c)'
  BY <1>2, ZeroIsNoCall DEF BooksGrow, BooksInv, SubscriptionTypeOK, DealOK, Dealing, PaymentsOf
<1> QED BY <1>1, <1>2, <1>3, <1>4, <1>5, MoveInv

LEMMA ChargeUnseenInv ==
  ASSUME BooksInv, NEW c \in Calls, ChargeUnseen(c)
  PROVE  BooksInv'
<1> USE DEF ChargeUnseen, Proceed
<1>1. SubscriptionTypeOK'
  BY DEF BooksInv, SubscriptionTypeOK, PaymentsOf, Reported, RowsOfSubscriptions
<1>2. BooksGrow
  BY ZeroIsNoCall DEF BooksGrow, BooksInv, SubscriptionTypeOK, DealOK, Dealing
<1>3. \A b \in Calls \ {c} : UNCHANGED <<progress[b], deal[b], copied[b], ownerOf[b]>>
  BY DEF BooksInv, SubscriptionTypeOK
<1>4. progress[c] # "done" /\ progress'[c] # "hook_write"
  BY DEF BooksInv, SubscriptionTypeOK, Dealing
<1>5. DealOK(c)'
  BY <1>2, ZeroIsNoCall DEF BooksGrow, BooksInv, SubscriptionTypeOK, DealOK, Dealing
<1> QED BY <1>1, <1>2, <1>3, <1>4, <1>5, MoveInv

LEMMA ChargeStripeInv ==
  ASSUME BooksInv, NEW c \in Calls, ChargeStripe(c)
  PROVE  BooksInv'
<1> USE DEF ChargeStripe, Proceed
<1>1. SubscriptionTypeOK'
  <2>1. deal' \in [Calls -> Deal]
    BY DEF BooksInv, SubscriptionTypeOK, Deal
  <2>2. ownerOf' \in [Calls -> Calls \union {0}] /\ said' \in [Calls -> Reported]
    BY DEF BooksInv, SubscriptionTypeOK, Reported
  <2>3. \E at \in {"failed", "charge_tx"} : progress' = [progress EXCEPT ![c] = at]
    OBVIOUS
  <2> QED BY <2>1, <2>2, <2>3 DEF BooksInv, SubscriptionTypeOK, Deal
<1>2. BooksGrow
  BY ZeroIsNoCall DEF BooksGrow, BooksInv, SubscriptionTypeOK, DealOK, Dealing
<1>3. \A b \in Calls \ {c} : UNCHANGED <<progress[b], deal[b], copied[b], ownerOf[b]>>
  BY DEF BooksInv, SubscriptionTypeOK
<1>4. progress[c] # "done" /\ progress'[c] # "hook_write"
  BY DEF BooksInv, SubscriptionTypeOK, Dealing
<1>5. DealOK(c)'
  <2>1. DealOK(c) /\ Dealing(c) /\ progress[deal[c].sub] = "done" /\ gateway = "stripe"
    BY DEF BooksInv, DealOK, Dealing
  <2>2. deal'[c] = [deal[c] EXCEPT !.at = c] /\ ownerOf'[c] = deal[c].sub
    BY DEF BooksInv, SubscriptionTypeOK
  <2>3. /\ deal'[c].sub = deal[c].sub /\ deal'[c].at = c /\ deal'[c].tx = deal[c].tx
        /\ deal[c].sub \in Calls
    BY <2>1, <2>2 DEF BooksInv, SubscriptionTypeOK, DealOK
  <2>4. progress'[c] = IF deal[c].tx = 0 THEN "failed" ELSE "charge_tx"
    BY DEF BooksInv, SubscriptionTypeOK
  <2>5. progress'[deal[c].sub] = "done" /\ gateway' = "stripe"
    BY <1>2, <2>1, <2>3 DEF BooksGrow
  <2> QED BY <2>1, <2>2, <2>3, <2>4, <2>5 DEF DealOK, Dealing
<1> QED BY <1>1, <1>2, <1>3, <1>4, <1>5, MoveInv

LEMMA DealFailsInv ==
  ASSUME BooksInv, NEW c \in Calls, DealFails(c)
  PROVE  BooksInv'
<1> USE DEF DealFails, Proceed
<1>1. SubscriptionTypeOK'
  BY DEF BooksInv, SubscriptionTypeOK, PaymentsOf, Reported, RowsOfSubscriptions
<1>2. BooksGrow
  BY ZeroIsNoCall DEF BooksGrow, BooksInv, SubscriptionTypeOK, DealOK, Dealing
<1>3. \A b \in Calls \ {c} : UNCHANGED <<progress[b], deal[b], copied[b], ownerOf[b]>>
  BY DEF BooksInv, SubscriptionTypeOK
<1>4. progress[c] # "done" /\ progress'[c] # "hook_write"
  BY DEF BooksInv, SubscriptionTypeOK, Dealing
<1>5. DealOK(c)'
  BY <1>2, ZeroIsNoCall DEF BooksGrow, BooksInv, SubscriptionTypeOK, DealOK, Dealing
<1> QED BY <1>1, <1>2, <1>3, <1>4, <1>5, MoveInv

-----------------------------------------------------------------------------
(* And those that write a row.                                             *)

LEMMA PageUpdateInv ==
  ASSUME BooksInv, NEW c \in Calls, PageUpdate(c)
  PROVE  BooksInv'
<1> USE DEF PageUpdate, Proceed
<1>1. DealOK(c) /\ deal[c].sub \in Calls /\ progress[deal[c].sub] = "done"
  BY DEF BooksInv, SubscriptionTypeOK, DealOK, Dealing
<1>2. SubscriptionTypeOK'
  <2>1. subscription' \in [Calls -> RowsOfSubscriptions]
    BY <1>1 DEF SubscriptionTypeOK, BooksInv, RowsOfSubscriptions
  <2>2. \E at \in {"page_insert", "done"} : progress' = [progress EXCEPT ![c] = at]
    OBVIOUS
  <2> QED BY <2>1, <2>2 DEF SubscriptionTypeOK, BooksInv
<1>3. BooksGrow
  BY <1>1 DEF BooksGrow, BooksInv, SubscriptionTypeOK, DealOK, MadeOK
<1>4. \A b \in Calls \ {c} : UNCHANGED <<progress[b], deal[b], copied[b], ownerOf[b]>>
  BY DEF BooksInv, SubscriptionTypeOK
<1>5. progress[c] # "done" /\ progress'[c] # "hook_write"
  BY DEF BooksInv, SubscriptionTypeOK
<1>6. DealOK(c)'
  BY <1>1, <1>3, ZeroIsNoCall DEF BooksGrow, BooksInv, SubscriptionTypeOK, DealOK, Dealing
<1>7. ASSUME NEW s \in Calls PROVE Names(subscription[s], s)'
  <2>1. CASE s = deal[c].sub
    BY <1>1, <2>1 DEF Names, BooksInv, SubscriptionTypeOK, RowsOfSubscriptions, DealOK
  <2>2. CASE s # deal[c].sub
    BY <2>2 DEF Names, HasPaid, BooksInv, NamesOK, SubscriptionTypeOK
  <2> QED BY <2>1, <2>2
<1>8. ASSUME NEW t \in Calls PROVE PaidOK(t)'
  BY DEF BooksInv, NamesOK, PaidOK
<1>9. \A b \in Calls : MadeOK(b)'
  BY <1>1, <1>5, ZeroIsNoCall DEF BooksInv, MadeOK, BooksGrow, SubscriptionTypeOK, DealOK
<1> QED BY <1>2, <1>3, <1>4, <1>5, <1>6, <1>7, <1>8, <1>9, RestOK

LEMMA PageInsertInv ==
  ASSUME BooksInv, NEW c \in Calls, PageInsert(c)
  PROVE  BooksInv'
<1> USE DEF PageInsert, Proceed
<1>1. DealOK(c) /\ deal[c].sub \in Calls /\ progress[deal[c].sub] = "done"
  BY DEF BooksInv, SubscriptionTypeOK, DealOK, Dealing
<1>2. SubscriptionTypeOK'
  BY <1>1, ZeroIsNoCall DEF SubscriptionTypeOK, BooksInv, DealOK, RowsOfSubscriptions, Reported
<1>3. BooksGrow
  BY <1>1 DEF BooksGrow, BooksInv, SubscriptionTypeOK, DealOK, MadeOK
<1>4. \A b \in Calls \ {c} : UNCHANGED <<progress[b], deal[b], copied[b], ownerOf[b]>>
  BY DEF BooksInv, SubscriptionTypeOK
<1>5. progress[c] # "done" /\ progress'[c] # "hook_write"
  BY DEF BooksInv, SubscriptionTypeOK
<1>6. DealOK(c)'
  BY <1>1, <1>3, ZeroIsNoCall DEF BooksGrow, BooksInv, SubscriptionTypeOK, DealOK, Dealing
<1>7. ASSUME NEW s \in Calls PROVE Names(subscription[s], s)'
  <2>1. Names(subscription[s], s) /\ subscription[s] \in RowsOfSubscriptions
    BY DEF BooksInv, NamesOK, SubscriptionTypeOK
  <2> QED BY <1>3, <2>1, NamesGrow DEF Names, BooksGrow
<1>8. ASSUME NEW t \in Calls PROVE PaidOK(t)'
  BY DEF BooksInv, NamesOK, PaidOK, SubscriptionTypeOK
<1>9. \A b \in Calls : MadeOK(b)'
  BY <1>1, <1>5, ZeroIsNoCall DEF BooksInv, MadeOK, BooksGrow, SubscriptionTypeOK, DealOK
<1> QED BY <1>2, <1>3, <1>4, <1>5, <1>6, <1>7, <1>8, <1>9, RestOK

LEMMA ChargeActiveInv ==
  ASSUME BooksInv, NEW c \in Calls, ChargeActive(c)
  PROVE  BooksInv'
<1> USE DEF ChargeActive, Proceed
<1>1. DealOK(c) /\ deal[c].sub \in Calls /\ progress[deal[c].sub] = "done"
  BY DEF BooksInv, SubscriptionTypeOK, DealOK, Dealing
<1>2. SubscriptionTypeOK'
  BY <1>1, ZeroIsNoCall DEF SubscriptionTypeOK, BooksInv, DealOK, RowsOfSubscriptions, Reported
<1>3. BooksGrow
  BY <1>1 DEF BooksGrow, BooksInv, SubscriptionTypeOK, DealOK, MadeOK
<1>4. \A b \in Calls \ {c} : UNCHANGED <<progress[b], deal[b], copied[b], ownerOf[b]>>
  BY DEF BooksInv, SubscriptionTypeOK
<1>5. progress[c] # "done" /\ progress'[c] # "hook_write"
  BY DEF BooksInv, SubscriptionTypeOK
<1>6. DealOK(c)'
  BY <1>1, <1>3, ZeroIsNoCall DEF BooksGrow, BooksInv, SubscriptionTypeOK, DealOK, Dealing
<1>7. ASSUME NEW s \in Calls PROVE Names(subscription[s], s)'
  BY DEF Names, HasPaid, BooksInv, NamesOK, SubscriptionTypeOK, RowsOfSubscriptions
<1>8. ASSUME NEW t \in Calls PROVE PaidOK(t)'
  BY DEF BooksInv, NamesOK, PaidOK
<1>9. \A b \in Calls : MadeOK(b)'
  BY <1>1, <1>5, ZeroIsNoCall DEF BooksInv, MadeOK, BooksGrow, SubscriptionTypeOK, DealOK
<1> QED BY <1>2, <1>3, <1>4, <1>5, <1>6, <1>7, <1>8, <1>9, RestOK

LEMMA ChargePaymentInv ==
  ASSUME BooksInv, NEW c \in Calls, ChargePayment(c)
  PROVE  BooksInv'
<1> USE DEF ChargePayment, Proceed
<1>1. DealOK(c) /\ deal[c].sub \in Calls /\ progress[deal[c].sub] = "done"
  BY DEF BooksInv, SubscriptionTypeOK, DealOK, Dealing
<1>2. SubscriptionTypeOK'
  BY <1>1, ZeroIsNoCall DEF SubscriptionTypeOK, BooksInv, DealOK, RowsOfSubscriptions, Reported
<1>3. BooksGrow
  BY <1>1 DEF BooksGrow, BooksInv, SubscriptionTypeOK, DealOK, MadeOK
<1>4. \A b \in Calls \ {c} : UNCHANGED <<progress[b], deal[b], copied[b], ownerOf[b]>>
  BY DEF BooksInv, SubscriptionTypeOK
<1>5. progress[c] # "done" /\ progress'[c] # "hook_write"
  BY DEF BooksInv, SubscriptionTypeOK
<1>6. DealOK(c)'
  BY <1>1, <1>3, ZeroIsNoCall DEF BooksGrow, BooksInv, SubscriptionTypeOK, DealOK, Dealing
<1>7. ASSUME NEW s \in Calls PROVE Names(subscription[s], s)'
  <2>1. Names(subscription[s], s) /\ subscription[s] \in RowsOfSubscriptions
    BY DEF BooksInv, NamesOK, SubscriptionTypeOK
  <2> QED BY <1>3, <2>1, NamesGrow DEF Names, BooksGrow
<1>8. ASSUME NEW t \in Calls PROVE PaidOK(t)'
  BY <1>1, ZeroIsNoCall DEF BooksInv, NamesOK, PaidOK, SubscriptionTypeOK, DealOK
<1>9. \A b \in Calls : MadeOK(b)'
  BY <1>1, <1>5, ZeroIsNoCall DEF BooksInv, MadeOK, BooksGrow, SubscriptionTypeOK, DealOK
<1> QED BY <1>2, <1>3, <1>4, <1>5, <1>6, <1>7, <1>8, <1>9, RestOK

LEMMA ChargeSubscriptionInv ==
  ASSUME BooksInv, NEW c \in Calls, ChargeSubscription(c)
  PROVE  BooksInv'
<1> USE DEF ChargeSubscription, Proceed
<1>1. DealOK(c) /\ deal[c].sub \in Calls /\ progress[deal[c].sub] = "done"
  BY DEF BooksInv, SubscriptionTypeOK, DealOK, Dealing
<1>2. SubscriptionTypeOK'
  BY <1>1, ZeroIsNoCall DEF SubscriptionTypeOK, BooksInv, DealOK, RowsOfSubscriptions, Reported
<1>3. BooksGrow
  BY <1>1 DEF BooksGrow, BooksInv, SubscriptionTypeOK, DealOK, MadeOK
<1>4. \A b \in Calls \ {c} : UNCHANGED <<progress[b], deal[b], copied[b], ownerOf[b]>>
  BY DEF BooksInv, SubscriptionTypeOK
<1>5. progress[c] # "done" /\ progress'[c] # "hook_write"
  BY DEF BooksInv, SubscriptionTypeOK
<1>6. DealOK(c)'
  BY <1>1, <1>3, ZeroIsNoCall DEF BooksGrow, BooksInv, SubscriptionTypeOK, DealOK, Dealing
<1>7. ASSUME NEW s \in Calls PROVE Names(subscription[s], s)'
  <2>1. CASE s = deal[c].sub
    BY <1>1, <2>1 DEF Names, HasPaid, BooksInv, SubscriptionTypeOK, RowsOfSubscriptions, DealOK
  <2>2. CASE s # deal[c].sub
    BY <2>2 DEF Names, HasPaid, BooksInv, NamesOK, SubscriptionTypeOK
  <2> QED BY <2>1, <2>2
<1>8. ASSUME NEW t \in Calls PROVE PaidOK(t)'
  BY DEF BooksInv, NamesOK, PaidOK
<1>9. \A b \in Calls : MadeOK(b)'
  BY <1>1, <1>5, ZeroIsNoCall DEF BooksInv, MadeOK, BooksGrow, SubscriptionTypeOK, DealOK
<1> QED BY <1>2, <1>3, <1>4, <1>5, <1>6, <1>7, <1>8, <1>9, RestOK

LEMMA HookWriteInv ==
  ASSUME BooksInv, NEW c \in Calls, HookWrite(c)
  PROVE  BooksInv'
<1> USE DEF HookWrite, Proceed
<1>1. DealOK(c) /\ deal[c].sub \in Calls /\ progress[deal[c].sub] = "done"
  BY DEF BooksInv, SubscriptionTypeOK, DealOK, Dealing
<1>2. SubscriptionTypeOK'
  BY <1>1, ZeroIsNoCall DEF SubscriptionTypeOK, BooksInv, DealOK, RowsOfSubscriptions, Reported
<1>3. BooksGrow
  BY <1>1 DEF BooksGrow, BooksInv, SubscriptionTypeOK, DealOK, MadeOK
<1>4. \A b \in Calls \ {c} : UNCHANGED <<progress[b], deal[b], copied[b], ownerOf[b]>>
  BY DEF BooksInv, SubscriptionTypeOK
<1>5. progress[c] # "done" /\ progress'[c] # "hook_write"
  BY DEF BooksInv, SubscriptionTypeOK
<1>6. DealOK(c)'
  BY <1>1, <1>3, ZeroIsNoCall DEF BooksGrow, BooksInv, SubscriptionTypeOK, DealOK, Dealing
<1>7. ASSUME NEW s \in Calls PROVE Names(subscription[s], s)'
  <2>1. CASE s = deal[c].sub
    <3>1. copied[c] \in RowsOfSubscriptions /\ Names(copied[c], s)
      BY <2>1 DEF BooksInv, NamesOK, SubscriptionTypeOK
    <3>2. subscription'[s].at = copied[c].at
      BY <1>1, <2>1, <3>1 DEF BooksInv, SubscriptionTypeOK, RowsOfSubscriptions
    <3> QED BY <3>1, <3>2 DEF Names, HasPaid
  <2>2. CASE s # deal[c].sub
    BY <2>2 DEF Names, HasPaid, BooksInv, NamesOK, SubscriptionTypeOK
  <2> QED BY <2>1, <2>2
<1>8. ASSUME NEW t \in Calls PROVE PaidOK(t)'
  BY DEF BooksInv, NamesOK, PaidOK
<1>9. \A b \in Calls : MadeOK(b)'
  BY <1>1, <1>5, ZeroIsNoCall DEF BooksInv, MadeOK, BooksGrow, SubscriptionTypeOK, DealOK
<1> QED BY <1>2, <1>3, <1>4, <1>5, <1>6, <1>7, <1>8, <1>9, RestOK

LEMMA ReportInv ==
  ASSUME BooksInv, NEW g \in Calls, NEW v \in {"paid", "void"}, Report(g, v)
  PROVE  BooksInv'
<1> USE DEF Report
<1>1. SubscriptionTypeOK'
  BY SubscriptionAssumption DEF BooksInv, SubscriptionTypeOK, Reported
<1>2. NamesOK'
  BY DEF BooksInv, NamesOK, Names, HasPaid, PaidOK
<1>3. \A b \in Calls : DealOK(b)'
  BY DEF BooksInv, DealOK, Dealing
<1>4. \A b \in Calls : MadeOK(b)'
  BY DEF BooksInv, MadeOK
<1> QED BY <1>1, <1>2, <1>3, <1>4 DEF BooksInv

-----------------------------------------------------------------------------
(* The invariant, and what it gives.                                       *)

LEMMA BooksInitInv == SubscriptionInit => BooksInv
<1> SUFFICES ASSUME SubscriptionInit PROVE BooksInv
  OBVIOUS
<1>1. SubscriptionTypeOK
  BY SubscriptionAssumption
  DEF SubscriptionInit, SubscriptionTypeOK, NoSubscription, NoPayment, NoDeal, Reported,
      RowsOfSubscriptions
<1>2. NamesOK
  BY DEF SubscriptionInit, NamesOK, Names, PaidOK, NoSubscription, NoPayment
<1>3. \A c \in Calls : DealOK(c) /\ MadeOK(c)
  BY DEF SubscriptionInit, DealOK, MadeOK, Dealing, NoSubscription, NoPayment
<1> QED BY <1>1, <1>2, <1>3 DEF BooksInv

LEMMA BooksNextInv == BooksInv /\ [SubscriptionNext]_subscriptionVars => BooksInv'
<1> SUFFICES ASSUME BooksInv, [SubscriptionNext]_subscriptionVars PROVE BooksInv'
  OBVIOUS
<1>1. ASSUME NEW c \in Calls, ProceedCall(c) PROVE BooksInv'
  BY <1>1, PageFindInv, PageGatewayInv, PageUpdateInv, PageInsertInv, ChargeActiveInv,
     ChargeLookInv, ChargeUnseenInv, ChargeStripeInv, ChargePaymentInv,
     ChargeSubscriptionInv, HookWriteInv
  DEF ProceedCall
<1>2. CASE UNCHANGED subscriptionVars
  BY <1>2
  DEF subscriptionVars, BooksInv, SubscriptionTypeOK, NamesOK, Names, HasPaid, PaidOK,
      DealOK, MadeOK, Dealing
<1> QED BY <1>1, <1>2, TakeCallInv, DealFailsInv, ReportInv DEF SubscriptionNext

\* Subscriptions: what has been paid is on the books, for any number of calls,
\* overlapping in any way and cut short anywhere.
THEOREM SubscriptionsAreOnTheBooks == SubscriptionSpec => []SubscriptionOnTheBooks
<1>1. BooksInv => SubscriptionOnTheBooks
  BY DEF BooksInv, NamesOK, Names, HasPaid, PaidOK, SubscriptionOnTheBooks
<1> QED BY BooksInitInv, BooksNextInv, <1>1, PTL DEF SubscriptionSpec

\* Subscriptions, transactions and the gateway's records keep their types.
THEOREM SubscriptionTypes == SubscriptionSpec => []SubscriptionTypeOK
<1>1. BooksInv => SubscriptionTypeOK
  BY DEF BooksInv
<1> QED BY <1>1, BooksInitInv, BooksNextInv, PTL DEF SubscriptionSpec

-----------------------------------------------------------------------------
(* That subscriptions follow the gateway's hooks.                          *)

\* Where Stripe sends one hook at a time: the hook that is not answered is what
\* it has said last, the call that handles it has not lost it, and a row, or a
\* charge on its way to one, has what was said of it or a hook still to come.
FollowOK ==
  /\ \A h \in hooks : said[h.at] = h.status /\ ownerOf[h.at] # 0
  /\ \A h, k \in hooks : h = k
  /\ \A b, c \in Calls : progress[b] = "hook_write" /\ progress[c] = "hook_write" => b = c
  /\ \A c \in Calls : progress[c] = "hook_write" =>
       /\ deal[c].op = "hook" /\ progress[deal[c].at] = "done"
       /\ [at |-> deal[c].at, status |-> deal[c].status] \in hooks
  /\ \A s \in Calls : subscription[s].at # 0 =>
       /\ progress[subscription[s].at] = "done"
       /\ \/ subscription[s].status = said[subscription[s].at]
          \/ \E h \in hooks : h.at = subscription[s].at
  /\ \A c \in Calls : progress[c] \in {"charge_tx", "charge_sub"} =>
       said[c] = "active" \/ \E h \in hooks : h.at = c

FollowInv == BooksInv /\ (gateway = "stripe" /\ onebyone => FollowOK)

\* A call that moves on, and has the gateway say nothing.
LEMMA QuietOK ==
  ASSUME BooksInv, FollowOK, NEW c \in Calls, progress[c] # "done",
         \A b \in Calls \ {c} : UNCHANGED <<progress[b], deal[b]>>,
         progress'[c] # "hook_write",
         progress'[c] \in {"charge_tx", "charge_sub"} => progress[c] = "charge_tx",
         \A s \in Calls : subscription'[s].at # 0 => subscription'[s] = subscription[s],
         UNCHANGED <<said, ownerOf, hooks>>
  PROVE  FollowOK'
<1> USE ZeroIsNoCall DEF FollowOK
<1>1. \A b \in Calls : progress[b] = "done" => progress'[b] = "done"
  OBVIOUS
<1>2. \A b \in Calls : progress'[b] = "hook_write" =>
        b # c /\ progress[b] = "hook_write" /\ deal[b].at \in Calls /\ deal'[b] = deal[b]
  BY DEF BooksInv, DealOK
<1>3. \A s \in Calls : subscription[s].at \in Calls \union {0}
  BY DEF BooksInv, SubscriptionTypeOK, RowsOfSubscriptions
<1>4. ASSUME NEW b \in Calls, progress'[b] \in {"charge_tx", "charge_sub"}
      PROVE  progress[b] \in {"charge_tx", "charge_sub"}
  BY <1>4
<1> QED BY <1>1, <1>2, <1>3, <1>4

\* The rows, and what is written back, name only what a charge has ended with.
LEMMA FollowTakes ==
  ASSUME BooksInv, FollowOK, gateway = "stripe", onebyone, NEW c \in Calls, TakeCall(c)
  PROVE  FollowOK'
<1> USE DEF Take, NoDeal
<1>0. progress[c] = "idle" => subscription[c].at = 0
  BY DEF BooksInv, MadeOK, NoSubscription
<1>1. ASSUME Subscribe(c) PROVE FollowOK'
  <2>1. \A s \in Calls : subscription'[s].at = subscription[s].at
    BY <1>1 DEF Subscribe, BooksInv, SubscriptionTypeOK, RowsOfSubscriptions
  <2>2. \A s \in Calls : subscription'[s].at # 0 => subscription'[s] = subscription[s]
    BY <1>0, <1>1, <2>1 DEF Subscribe, BooksInv, SubscriptionTypeOK
  <2>3. /\ progress[c] = "idle" /\ progress'[c] = "done"
        /\ \A b \in Calls \ {c} : UNCHANGED <<progress[b], deal[b]>>
        /\ UNCHANGED <<said, ownerOf, hooks>>
    BY <1>1 DEF Subscribe, BooksInv, SubscriptionTypeOK
  <2> QED BY <2>2, <2>3, QuietOK
<1>2. ASSUME NEW s \in Calls, OpenPage(c, s) \/ ChargeCard(c, s) PROVE FollowOK'
  <2>1. /\ progress[c] = "idle" /\ progress'[c] \in {"page_find", "charge_find"}
        /\ \A b \in Calls \ {c} : UNCHANGED <<progress[b], deal[b]>>
        /\ UNCHANGED <<said, ownerOf, hooks, subscription>>
    BY <1>2 DEF OpenPage, ChargeCard, BooksInv, SubscriptionTypeOK
  <2> QED BY <2>1, QuietOK
<1>3. ASSUME NEW h \in hooks, WebHookMissed(c, h) PROVE FollowOK'
  <2>1. /\ progress[c] = "idle" /\ progress'[c] = "failed"
        /\ \A b \in Calls \ {c} : UNCHANGED <<progress[b], deal[b]>>
        /\ UNCHANGED <<said, ownerOf, hooks, subscription>>
    BY <1>3 DEF WebHookMissed, BooksInv, SubscriptionTypeOK
  <2> QED BY <2>1, QuietOK
<1>4. ASSUME NEW h \in hooks, NEW s \in Calls, WebHook(c, h, s) PROVE FollowOK'
  <2>1. h.at \in Calls /\ h = [at |-> h.at, status |-> h.status]
    BY <1>4 DEF BooksInv, SubscriptionTypeOK
  <2>2. progress[h.at] = "done"
    BY <1>4, <2>1, ZeroIsNoCall DEF WebHook, NamedBy, FollowOK
  <2>3. /\ progress[c] = "idle" /\ progress'[c] = "hook_write"
        /\ deal'[c].op = "hook" /\ deal'[c].at = h.at /\ deal'[c].status = h.status
        /\ \A b \in Calls \ {c} : UNCHANGED <<progress[b], deal[b]>>
        /\ UNCHANGED <<said, ownerOf, hooks, subscription>>
    BY <1>4 DEF WebHook, BooksInv, SubscriptionTypeOK
  <2>4. \A b \in Calls : progress[b] # "hook_write"
    BY <1>4 DEF WebHook, Hooking, Dealing, FollowOK
  <2>5. \A b \in Calls : progress[b] = "done" => progress'[b] = "done"
    BY <2>3
  <2>6. \A b \in Calls : progress'[b] = "hook_write" => b = c
    BY <2>3, <2>4
  <2>7. \A t \in Calls : subscription[t].at \in Calls \union {0}
    BY DEF BooksInv, SubscriptionTypeOK, RowsOfSubscriptions
  <2>8. \A b \in Calls : progress'[b] \in {"charge_tx", "charge_sub"} =>
          progress[b] \in {"charge_tx", "charge_sub"}
    BY <2>3
  <2> QED BY <2>1, <2>2, <2>3, <2>5, <2>6, <2>7, <2>8 DEF FollowOK
<1> QED BY <1>1, <1>2, <1>3, <1>4 DEF TakeCall, ChargePage

LEMMA FollowProceeds ==
  ASSUME BooksInv, FollowOK, gateway = "stripe", onebyone, NEW c \in Calls,
         PageFind(c) \/ PageInsert(c) \/ ChargeLook(c) \/ ChargeUnseen(c)
           \/ ChargePayment(c) \/ DealFails(c)
  PROVE  FollowOK'
<1>1. progress[c] # "done" /\ UNCHANGED <<said, ownerOf, hooks, subscription>>
  BY DEF PageFind, PageInsert, ChargeLook, ChargeUnseen, ChargePayment, DealFails, Dealing
<1>2. \A b \in Calls \ {c} : UNCHANGED <<progress[b], deal[b]>>
  BY DEF PageFind, PageInsert, ChargeLook, ChargeUnseen, ChargePayment, DealFails, Proceed,
         BooksInv, SubscriptionTypeOK
<1>3. progress'[c] # "hook_write"
  BY DEF PageFind, PageInsert, ChargeLook, ChargeUnseen, ChargePayment, DealFails, Proceed,
         BooksInv, SubscriptionTypeOK
<1>4. progress'[c] \in {"charge_tx", "charge_sub"} => progress[c] = "charge_tx"
  BY DEF PageFind, PageInsert, ChargeLook, ChargeUnseen, ChargePayment, DealFails, Proceed,
         BooksInv, SubscriptionTypeOK
<1> QED BY <1>1, <1>2, <1>3, <1>4, QuietOK

\* Charging says "active" of a subscription nobody names yet.
LEMMA FollowStripe ==
  ASSUME BooksInv, FollowOK, NEW c \in Calls, ChargeStripe(c)
  PROVE  FollowOK'
<1> USE DEF ChargeStripe, Proceed
<1>1. progress[c] = "charge_gateway" /\ ownerOf[c] = 0
  BY DEF BooksInv, DealOK
<1>2. \A h \in hooks : h.at \in Calls /\ h.at # c
  BY <1>1 DEF BooksInv, SubscriptionTypeOK, FollowOK
<1>3. \A s \in Calls : subscription[s].at \in Calls \union {0} /\ subscription[s].at # c
  BY <1>1, ZeroIsNoCall DEF BooksInv, SubscriptionTypeOK, RowsOfSubscriptions, FollowOK
<1>4. /\ said'[c] = "active" /\ progress'[c] \in {"failed", "charge_tx"}
      /\ \A b \in Calls \ {c} :
           UNCHANGED <<progress[b], deal[b], said[b]>> /\ ownerOf'[b] = ownerOf[b]
      /\ UNCHANGED <<hooks, subscription>>
  BY DEF BooksInv, SubscriptionTypeOK
<1>5. \A b \in Calls : progress[b] = "done" => progress'[b] = "done"
  BY <1>1, <1>4
<1>6. \A b \in Calls : progress'[b] = "hook_write" =>
        b # c /\ progress[b] = "hook_write" /\ deal[b].at \in Calls /\ deal'[b] = deal[b]
  BY <1>4 DEF BooksInv, DealOK
<1>7. \A h \in hooks : said'[h.at] = h.status /\ ownerOf'[h.at] # 0
  BY <1>2, <1>4 DEF FollowOK
<1>8. \A s \in Calls : subscription[s].at # 0 =>
        /\ progress'[subscription[s].at] = "done"
        /\ \/ subscription[s].status = said'[subscription[s].at]
           \/ \E h \in hooks : h.at = subscription[s].at
  BY <1>3, <1>4, <1>5 DEF FollowOK
<1>9. \A b \in Calls : progress'[b] \in {"charge_tx", "charge_sub"} =>
        said'[b] = "active" \/ \E h \in hooks : h.at = b
  BY <1>4 DEF FollowOK
<1> QED BY <1>4, <1>5, <1>6, <1>7, <1>8, <1>9 DEF FollowOK

\* The row is written with what was said by the charge, or a hook is still to come.
LEMMA FollowCharge ==
  ASSUME BooksInv, FollowOK, gateway = "stripe", NEW c \in Calls, ChargeSubscription(c)
  PROVE  FollowOK'
<1> USE DEF ChargeSubscription, Proceed
<1>1. deal[c].at = c /\ deal[c].sub \in Calls /\ progress[c] = "charge_sub"
  BY DEF BooksInv, DealOK, Dealing
<1>2. /\ progress'[c] = "done"
      /\ \A b \in Calls \ {c} : UNCHANGED progress[b]
      /\ UNCHANGED <<said, ownerOf, hooks, deal>>
  BY DEF BooksInv, SubscriptionTypeOK
<1>3. subscription'[deal[c].sub].at = c /\ subscription'[deal[c].sub].status = "active"
  BY <1>1 DEF BooksInv, SubscriptionTypeOK
<1>4. \A s \in Calls : s # deal[c].sub => subscription'[s] = subscription[s]
  BY DEF BooksInv, SubscriptionTypeOK
<1>5. \A b \in Calls : progress[b] = "done" => progress'[b] = "done"
  BY <1>1, <1>2
<1>6. \A b \in Calls : progress'[b] = "hook_write" =>
        progress[b] = "hook_write" /\ deal[b].at \in Calls
  BY <1>2 DEF BooksInv, DealOK
<1>7. \A s \in Calls : subscription[s].at \in Calls \union {0}
  BY DEF BooksInv, SubscriptionTypeOK, RowsOfSubscriptions
<1>8. \A s \in Calls : subscription'[s].at # 0 =>
        /\ progress'[subscription'[s].at] = "done"
        /\ \/ subscription'[s].status = said[subscription'[s].at]
           \/ \E h \in hooks : h.at = subscription'[s].at
  <2> SUFFICES ASSUME NEW s \in Calls, subscription'[s].at # 0
               PROVE  /\ progress'[subscription'[s].at] = "done"
                      /\ \/ subscription'[s].status = said[subscription'[s].at]
                         \/ \E h \in hooks : h.at = subscription'[s].at
    OBVIOUS
  <2>1. CASE s = deal[c].sub
    BY <1>1, <1>2, <1>3, <2>1 DEF FollowOK
  <2>2. CASE s # deal[c].sub
    BY <1>4, <1>5, <1>7, <2>2 DEF FollowOK
  <2> QED BY <2>1, <2>2
<1>9. \A b \in Calls : progress'[b] \in {"charge_tx", "charge_sub"} =>
        progress[b] \in {"charge_tx", "charge_sub"}
  BY <1>2
<1> QED BY <1>2, <1>5, <1>6, <1>8, <1>9 DEF FollowOK

\* A hook's writing answers it, and it was the only one.
LEMMA FollowHook ==
  ASSUME BooksInv, FollowOK, gateway = "stripe", NEW c \in Calls, HookWrite(c)
  PROVE  FollowOK'
<1> USE DEF HookWrite, Proceed
<1> DEFINE h == [at |-> deal[c].at, status |-> deal[c].status]
<1>1. /\ progress[c] = "hook_write" /\ deal[c].sub \in Calls /\ deal[c].at \in Calls
      /\ copied[c].at = deal[c].at /\ ownerOf[deal[c].at] = deal[c].sub
  BY ZeroIsNoCall DEF BooksInv, DealOK, Dealing, NamesOK, Names
<1>2. h \in hooks /\ h.at = deal[c].at /\ h.status = deal[c].status
      /\ progress[deal[c].at] = "done"
  BY <1>1 DEF FollowOK
<1>3. hooks' = {} /\ \A k \in hooks : k.at = deal[c].at
  BY <1>2 DEF FollowOK
<1>4. said[deal[c].at] = deal[c].status
  BY <1>2 DEF FollowOK
<1>5. /\ progress'[c] = "done"
      /\ \A b \in Calls \ {c} : UNCHANGED progress[b]
      /\ UNCHANGED <<said, ownerOf, deal>>
  BY DEF BooksInv, SubscriptionTypeOK
<1>6. /\ subscription'[deal[c].sub].at = deal[c].at
      /\ subscription'[deal[c].sub].status = deal[c].status
  BY <1>1 DEF BooksInv, SubscriptionTypeOK, RowsOfSubscriptions
<1>7. \A s \in Calls : s # deal[c].sub => subscription'[s] = subscription[s]
  BY DEF BooksInv, SubscriptionTypeOK
<1>8. \A s \in Calls : subscription[s].at # 0 =>
        subscription[s].at \in Calls /\ ownerOf[subscription[s].at] = s
  BY DEF BooksInv, SubscriptionTypeOK, RowsOfSubscriptions, NamesOK, Names
<1> HIDE DEF h
<1>9. \A b \in Calls : progress[b] = "done" => progress'[b] = "done"
  BY <1>5
<1>10. \A b \in Calls : progress'[b] # "hook_write"
  BY <1>1, <1>5 DEF FollowOK
<1>11. \A s \in Calls : subscription'[s].at # 0 =>
         /\ progress'[subscription'[s].at] = "done"
         /\ subscription'[s].status = said[subscription'[s].at]
  <2> SUFFICES ASSUME NEW s \in Calls, subscription'[s].at # 0
               PROVE  /\ progress'[subscription'[s].at] = "done"
                      /\ subscription'[s].status = said[subscription'[s].at]
    OBVIOUS
  <2>1. CASE s = deal[c].sub
    BY <1>1, <1>2, <1>4, <1>6, <1>9, <2>1
  <2>2. CASE s # deal[c].sub
    <3>1. subscription[s].at \in Calls /\ subscription[s].at # deal[c].at
      BY <1>1, <1>7, <1>8, <2>2
    <3> QED BY <1>3, <1>7, <1>9, <2>2, <3>1 DEF FollowOK
  <2> QED BY <2>1, <2>2
<1>12. ASSUME NEW b \in Calls, progress'[b] \in {"charge_tx", "charge_sub"}
       PROVE  said[b] = "active"
  <2>1. progress[b] \in {"charge_tx", "charge_sub"} /\ b # deal[c].at
    BY <1>2, <1>5, <1>12
  <2> QED BY <1>3, <2>1 DEF FollowOK
<1> QED BY <1>3, <1>5, <1>10, <1>11, <1>12 DEF FollowOK

\* Nothing was unanswered: what is said now comes with a hook.
LEMMA FollowReport ==
  ASSUME BooksInv, FollowOK, onebyone, NEW g \in Calls, NEW v \in {"paid", "void"},
         Report(g, v)
  PROVE  FollowOK'
<1> USE DEF Report
<1> DEFINE h == [at |-> g, status |-> v]
<1>1. hooks = {} /\ hooks' = {h} /\ h.at = g /\ h.status = v
  OBVIOUS
<1>2. said'[g] = v /\ \A b \in Calls \ {g} : said'[b] = said[b]
  BY DEF BooksInv, SubscriptionTypeOK
<1>3. UNCHANGED <<progress, deal, subscription, ownerOf>> /\ ownerOf[g] # 0
  OBVIOUS
<1> HIDE DEF h
<1>4. \A c \in Calls : progress[c] # "hook_write"
  BY <1>1 DEF FollowOK
<1>5. \A s \in Calls : subscription[s].at \in Calls \union {0}
  BY DEF BooksInv, SubscriptionTypeOK, RowsOfSubscriptions
<1> HIDE DEF Report
<1>6. \A s \in Calls : subscription[s].at # 0 =>
        /\ progress[subscription[s].at] = "done"
        /\ \/ subscription[s].status = said'[subscription[s].at]
           \/ subscription[s].at = g
  BY <1>1, <1>2, <1>5 DEF FollowOK
<1>7. \A c \in Calls : progress[c] \in {"charge_tx", "charge_sub"} =>
        said'[c] = "active" \/ c = g
  BY <1>1, <1>2 DEF FollowOK
<1> QED BY <1>1, <1>2, <1>3, <1>4, <1>6, <1>7 DEF FollowOK

LEMMA FollowInitInv == SubscriptionInit => FollowInv
<1>1. SubscriptionInit => FollowOK
  BY DEF SubscriptionInit, FollowOK, NoSubscription
<1> QED BY <1>1, BooksInitInv DEF FollowInv

LEMMA FollowNextInv == FollowInv /\ [SubscriptionNext]_subscriptionVars => FollowInv'
<1> SUFFICES ASSUME FollowInv, [SubscriptionNext]_subscriptionVars PROVE FollowInv'
  OBVIOUS
<1>1. BooksInv /\ BooksInv'
  BY BooksNextInv DEF FollowInv
<1>2. ASSUME gateway' = "stripe", onebyone' PROVE FollowOK'
  <2>1. gateway = "stripe" /\ onebyone
    BY <1>2
    DEF SubscriptionNext, TakeCall, ProceedCall, Subscribe, OpenPage, PageFind, PageGateway,
        PageUpdate, PageInsert, ChargeCard, ChargePage, ChargeActive, ChargeLook,
        ChargeUnseen, ChargeStripe, ChargePayment, ChargeSubscription, Report, WebHook,
        WebHookMissed, HookWrite, DealFails, Take, Proceed, subscriptionVars
  <2>2. FollowOK
    BY <2>1 DEF FollowInv
  <2>3. ASSUME NEW c \in Calls, ProceedCall(c) PROVE FollowOK'
    <3>1. ~PageGateway(c) /\ ~PageUpdate(c) /\ ~ChargeActive(c)
      BY <1>1, <2>1 DEF PageGateway, PageUpdate, ChargeActive, BooksInv, DealOK
    <3> QED BY <1>1, <2>1, <2>2, <2>3, <3>1, FollowProceeds, FollowStripe, FollowCharge,
               FollowHook
            DEF ProceedCall
  <2>4. CASE UNCHANGED subscriptionVars
    BY <2>2, <2>4 DEF subscriptionVars, FollowOK
  <2> QED BY <1>1, <2>1, <2>2, <2>3, <2>4, FollowTakes, FollowProceeds, FollowReport
          DEF SubscriptionNext
<1> QED BY <1>1, <1>2 DEF FollowInv

\* Subscriptions: a gateway that sends its hooks one at a time is followed, for
\* any number of calls, hooks and failures.
THEOREM HooksAreFollowed == SubscriptionSpec => []StatusFollowsHooks
<1>1. FollowInv => StatusFollowsHooks
  BY DEF FollowInv, FollowOK, StatusFollowsHooks
<1> QED BY FollowInitInv, FollowNextInv, <1>1, PTL DEF SubscriptionSpec

=============================================================================
