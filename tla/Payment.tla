------------------------------ MODULE Payment -------------------------------
(***************************************************************************)
(* The payment service with the Stripe gateway: placing an order, opening  *)
(* its payment page, charging it and refunding a transaction               *)
(* (TransactionsController, StripeProvider) over the tables orders and     *)
(* transactions.  A request takes one step for each database statement and *)
(* each call of the gateway its handler awaits.                            *)
(*                                                                         *)
(* Requests are numbered in the order they start and run once, so the      *)
(* number of a request also names the order, the transaction and the       *)
(* charge it makes.  Amounts, currencies and pages are left out; creating  *)
(* the gateway's customer leaves nothing that is modelled.  The gateway is *)
(* external: it refunds a charge it has made, once.                        *)
(***************************************************************************)
EXTENDS Naturals, FiniteSets

CONSTANTS
  MaxRequests,  \* bound: how many requests the clients issue in all
  MaxInFlight   \* bound: how many of them are handled at the same time

Requests == 1 .. MaxRequests

ASSUME BoundsAssumption == MaxRequests \in Nat /\ MaxInFlight \in Nat

VARIABLES
  order,     \* table orders: the status of each
  tx,        \* table transactions
  charges,   \* gateway: the charges it has made
  refunded,  \* gateway: those it has refunded
  pc,        \* the statement each handler is at
  call,      \* what each request asks for
  row        \* the transaction a handler has read

vars == <<order, tx, charges, refunded, pc, call, row>>

NoCall == [op |-> "none", order |-> 0, tx |-> 0, status |-> "none"]
NoRow == [status |-> "none", order |-> 0, charge |-> 0]
Draft(o) == [status |-> "draft", order |-> o, charge |-> 0]
Charge(r, o) == [id |-> r, order |-> o]

Placed(o) == order[o] # "none"
Stored(t) == tx[t].status # "none"

\* find({where: {orderId}})
AllTransactions(o) == {t \in Requests : Stored(t)}     \* mutant: no where
TransactionsOf(o) == {t \in Requests : Stored(t) /\ tx[t].order = o}

\* What charge and refund write over the row they have read.
PaidKeepingRes(x, c) == [x EXCEPT !.status = "paid"]   \* mutant: res stays
Paid(x, c) == [x EXCEPT !.status = "paid", !.charge = c]
RefundedAs(x) == [x EXCEPT !.status = "refunded"]      \* mutant: no such status
Refunded(x) == [x EXCEPT !.status = "refund"]

-----------------------------------------------------------------------------
(* Requests. *)

Busy(r) == pc[r] \notin {"idle", "done", "failed"}

Begin(r, c, at) ==
  /\ pc[r] = "idle"
  /\ \A q \in Requests : q < r => pc[q] # "idle"
  /\ Cardinality({q \in Requests : Busy(q)}) < MaxInFlight
  /\ call' = [call EXCEPT ![r] = c]
  /\ pc' = [pc EXCEPT ![r] = at]

Goto(r, at) ==
  /\ pc' = [pc EXCEPT ![r] = at]
  /\ UNCHANGED call

-----------------------------------------------------------------------------
(* POST /place-order-and-pay, and its payment page. *)

\* The order is stored with the status its client gives: open stands for any text
\* the service does not write itself.
PlaceOrder(r, status) ==
  /\ Begin(r, [op |-> "place", order |-> r, tx |-> 0, status |-> status], "done")
  /\ order' = [order EXCEPT ![r] = status]
  /\ UNCHANGED <<tx, charges, refunded, row>>

\* GET /transactions/orderid/{id}: Stripe's create does not ask whether the
\* order has been paid.
Pay(r, o) ==
  /\ Placed(o)
  /\ Begin(r, [op |-> "pay", order |-> o, tx |-> 0, status |-> "none"], "p_find")
  /\ UNCHANGED <<order, tx, charges, refunded, row>>

PayFind(r) ==
  /\ pc[r] = "p_find"
  /\ Goto(r, IF TransactionsOf(call[r].order) = {} THEN "p_insert" ELSE "done")
  /\ UNCHANGED <<order, tx, charges, refunded, row>>

PayInsert(r) ==
  /\ pc[r] = "p_insert"
  /\ tx' = [tx EXCEPT ![r] = Draft(call[r].order)]
  /\ Goto(r, "done")
  /\ UNCHANGED <<order, charges, refunded, row>>

-----------------------------------------------------------------------------
(* POST /transactions/charge: the form of the page. *)

ChargeOrder(r, o) ==
  /\ Placed(o)
  /\ Begin(r, [op |-> "charge", order |-> o, tx |-> 0, status |-> "none"], "c_find")
  /\ UNCHANGED <<order, tx, charges, refunded, row>>

\* The first of the order's transactions, in no particular order.
ChargeFind(r) ==
  /\ pc[r] = "c_find"
  /\ \E t \in TransactionsOf(call[r].order) :
       /\ row' = [row EXCEPT ![r] = tx[t]]
       /\ call' = [call EXCEPT ![r].tx = t]
  /\ pc' = [pc EXCEPT ![r] = "c_gateway"]
  /\ UNCHANGED <<order, tx, charges, refunded>>

\* There is none: the gateway is asked all the same.
ChargeMissed(r) ==
  /\ pc[r] = "c_find" /\ TransactionsOf(call[r].order) = {}
  /\ Goto(r, "c_gateway")
  /\ UNCHANGED <<order, tx, charges, refunded, row>>

\* Without a transaction the handler fails once the gateway has charged.
ChargeGateway(r) ==
  /\ pc[r] = "c_gateway"
  /\ charges' = charges \cup {Charge(r, call[r].order)}
  /\ Goto(r, IF call[r].tx = 0 THEN "failed" ELSE "c_tx")
  /\ UNCHANGED <<order, tx, refunded, row>>

ChargeTransaction(r) ==
  /\ pc[r] = "c_tx"
  /\ tx' = [tx EXCEPT ![call[r].tx] = Paid(row[r], r)]
  /\ Goto(r, "c_order")
  /\ UNCHANGED <<order, charges, refunded, row>>

ChargeStatus(r) ==
  /\ pc[r] = "c_order"
  /\ order' = [order EXCEPT ![call[r].order] = "paid"]
  /\ Goto(r, "done")
  /\ UNCHANGED <<tx, charges, refunded, row>>

-----------------------------------------------------------------------------
(* GET /transactions/refund/parse/{id}. *)

Refund(r, t) ==
  /\ Stored(t)
  /\ Begin(r, [op |-> "refund", order |-> tx[t].order, tx |-> t, status |-> "none"], "r_gateway")
  /\ row' = [row EXCEPT ![r] = tx[t]]
  /\ UNCHANGED <<order, tx, charges, refunded>>

\* The gateway refuses a refund without a charge, and a second one.
Refundable(x) == x.charge # 0 /\ x.charge \notin refunded

RefundGateway(r) ==
  /\ pc[r] = "r_gateway" /\ Refundable(row[r])
  /\ refunded' = refunded \cup {row[r].charge}
  /\ Goto(r, "r_tx")
  /\ UNCHANGED <<order, tx, charges, row>>

RefundRefused(r) ==
  /\ pc[r] = "r_gateway" /\ ~Refundable(row[r])
  /\ Goto(r, "failed")
  /\ UNCHANGED <<order, tx, charges, refunded, row>>

\* The row is written back as it was read.
RefundTransaction(r) ==
  /\ pc[r] = "r_tx"
  /\ tx' = [tx EXCEPT ![call[r].tx] = Refunded(row[r])]
  /\ Goto(r, "done")
  /\ UNCHANGED <<order, charges, refunded, row>>

\* The gateway declines, a call or a statement fails, or the server stops:
\* nothing is undone.
Fail(r) ==
  /\ Busy(r)
  /\ Goto(r, "failed")
  /\ UNCHANGED <<order, tx, charges, refunded, row>>

-----------------------------------------------------------------------------

Init ==
  /\ order = [o \in Requests |-> "none"]
  /\ tx = [t \in Requests |-> NoRow]
  /\ charges = {} /\ refunded = {}
  /\ pc = [r \in Requests |-> "idle"] /\ call = [r \in Requests |-> NoCall]
  /\ row = [r \in Requests |-> NoRow]

Arrive(r) ==
  \/ \E status \in {"open", "paid"} : PlaceOrder(r, status)
  \/ \E o \in Requests : Pay(r, o) \/ ChargeOrder(r, o)
  \/ \E t \in Requests : Refund(r, t)

Continue(r) ==
  \/ PayFind(r) \/ PayInsert(r)
  \/ ChargeFind(r) \/ ChargeMissed(r) \/ ChargeGateway(r)
  \/ ChargeTransaction(r) \/ ChargeStatus(r)
  \/ RefundGateway(r) \/ RefundRefused(r) \/ RefundTransaction(r)

\* Nothing is under way.
Rest == (\A r \in Requests : ~Busy(r)) /\ UNCHANGED vars

Next == Rest \/ \E r \in Requests : Arrive(r) \/ Continue(r) \/ Fail(r)
Spec == Init /\ [][Next]_vars

-----------------------------------------------------------------------------
(* Properties. *)

Statuses == {"none", "draft", "paid", "refund"}
Rows == [status : Statuses, order : Requests \cup {0}, charge : Requests \cup {0}]
Statements ==
  {"idle", "p_find", "p_insert", "c_find", "c_gateway", "c_tx", "c_order",
   "r_gateway", "r_tx", "done", "failed"}

\* Tables, gateway and handlers hold values of their types.
TypeOK ==
  /\ order \in [Requests -> {"none", "open", "paid"}]
  /\ tx \in [Requests -> Rows] /\ row \in [Requests -> Rows]
  /\ charges \subseteq [id : Requests, order : Requests \cup {0}] /\ refunded \subseteq Requests
  /\ pc \in [Requests -> Statements]
  /\ call \in [Requests -> [op : {"none", "place", "pay", "charge", "refund"},
                            order : Requests \cup {0}, tx : Requests \cup {0},
                            status : {"none", "open", "paid"}]]

\* An order that has become paid has a transaction on the books for which the
\* gateway has charged that very order, however checkouts, repeated
\* submissions and refunds of it interleave and wherever they are cut short.
\* One whose client has placed it as paid is so without a charge.
PaidOrderOnTheBooks ==
  \A o \in Requests : order[o] = "paid" /\ call[o].status # "paid" =>
    \E t \in Requests : tx[t].order = o /\ Charge(tx[t].charge, o) \in charges

\* A refund of charge c has gone through at the gateway and was not recorded
\* yet, or never will be.
Refunding(c) ==
  \E r \in Requests :
    call[r].op = "refund" /\ row[r].charge = c /\ pc[r] \in {"r_tx", "failed"}

\* A transaction tells the truth about its charge: one that says refund has
\* been refunded, one that says paid has not, unless a refund is between the
\* gateway and the table or was cut short there.
BooksMatchGateway ==
  \A t \in Requests :
    /\ tx[t].status = "refund" => tx[t].charge \in refunded
    /\ tx[t].status = "paid" =>
         /\ Charge(tx[t].charge, tx[t].order) \in charges
         /\ tx[t].charge \notin refunded \/ Refunding(tx[t].charge)
=============================================================================
