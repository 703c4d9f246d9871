---------------------------- MODULE Subscription ----------------------------
(***************************************************************************)
(* The subscriptions of the payment service: opening the payment page,     *)
(* charging, and the webhook by which the gateway says what has become of  *)
(* a subscription (SubscriptionTransactionsController,                     *)
(* TransactionSubscriptionsController and both providers), over the tables *)
(* subscriptions and transactions.                                         *)
(*                                                                         *)
(* Calls are numbered in the order they start, so the number of a call     *)
(* also names the row and the gateway's subscription it makes.  The        *)
(* gateway is external.  It sends a hook for each report until it is       *)
(* answered.  Plans, amounts and pages are left out.                       *)
(***************************************************************************)
EXTENDS Naturals, FiniteSets

CONSTANTS
  MaxCalls,       \* bound: how many calls are made
  MaxCallsAtOnce, \* bound: how many of them are handled at the same time
  MaxReports      \* bound: how often the gateway reports

Calls == 1 .. MaxCalls

ASSUME SubscriptionAssumption ==
  MaxCalls \in Nat /\ MaxCallsAtOnce \in Nat /\ MaxReports \in Nat

VARIABLES
  gateway,      \* "stripe" or "razorpay"
  onebyone,     \* the gateway sends a hook only when no other is unanswered
  subscription, \* table subscriptions
  payment,      \* table transactions
  ownerOf,      \* gateway: the subscription each of its own was made for
  said,         \* gateway: what it has last said of each
  hooks,        \* gateway: the reports that have not been answered
  reports,      \* how often it has reported
  progress,     \* the statement each call is at
  deal,         \* what it asks for, and the transaction it has found
  copied         \* the subscription a hook has read, as it was

subscriptionVars ==
  <<gateway, onebyone, subscription, payment, ownerOf, said, hooks, reports, progress,
    deal, copied>>

NoDeal == [op |-> "none", sub |-> 0, at |-> 0, status |-> "none", tx |-> 0]
NoSubscription == [status |-> "none", at |-> 0]
NoPayment == [status |-> "none", sub |-> 0, at |-> 0]

Subscribed(s) == subscription[s].status # "none"
AllPayments(s) == {t \in Calls : payment[t].status # "none"}    \* mutant: no where
PaymentsOf(s) == {t \in Calls : payment[t].status # "none" /\ payment[t].sub = s}
NamedBy(g) == {s \in Calls : subscription[s].at = g}

Dealing(c) == progress[c] \notin {"idle", "done", "failed"}
Hooking(c) == Dealing(c) /\ deal[c].op = "hook"

Take(c, d, at) ==
  /\ progress[c] = "idle"
  /\ \A b \in Calls : b < c => progress[b] # "idle"
  /\ Cardinality({b \in Calls : Dealing(b)}) < MaxCallsAtOnce
  /\ deal' = [deal EXCEPT ![c] = d]
  /\ progress' = [progress EXCEPT ![c] = at]
  /\ UNCHANGED <<gateway, onebyone, payment, ownerOf, said, reports>>

Proceed(c, at) ==
  /\ progress' = [progress EXCEPT ![c] = at]
  /\ UNCHANGED <<gateway, onebyone, reports>>

-----------------------------------------------------------------------------
(* POST /create-subscription-and-pay, and the page it leads to.            *)

Subscribe(c) ==
  /\ Take(c, [NoDeal EXCEPT !.op = "subscribe"], "done")
  /\ subscription' = [subscription EXCEPT ![c].status = "created"]
  /\ UNCHANGED <<hooks, copied>>

\* GET /transactions/subscription/{id}
OpenPage(c, s) ==
  /\ Subscribed(s)
  /\ Take(c, [NoDeal EXCEPT !.op = "page", !.sub = s], "page_find")
  /\ UNCHANGED <<subscription, hooks, copied>>

\* Razorpay's page is made for a subscription of the gateway, a new one each
\* time; Stripe's comes later, with the charge.
PageFind(c) ==
  /\ progress[c] = "page_find"
  /\ \E t \in PaymentsOf(deal[c].sub) \union {0} :
       /\ t = 0 => PaymentsOf(deal[c].sub) = {}
       /\ deal' = [deal EXCEPT ![c].tx = t]
       /\ Proceed(c, IF gateway = "razorpay" THEN "page_gateway"
                     ELSE IF t = 0 THEN "page_insert" ELSE "done")
  /\ UNCHANGED <<subscription, payment, ownerOf, said, hooks, copied>>

PageGateway(c) ==
  /\ progress[c] = "page_gateway"
  /\ ownerOf' = [ownerOf EXCEPT ![c] = deal[c].sub]
  /\ said' = [said EXCEPT ![c] = "created"]
  /\ Proceed(c, "page_update")
  /\ UNCHANGED <<subscription, payment, hooks, deal, copied>>

PageUpdate(c) ==
  /\ progress[c] = "page_update"
  /\ subscription' = [subscription EXCEPT ![deal[c].sub].at = c]
  /\ Proceed(c, IF deal[c].tx = 0 THEN "page_insert" ELSE "done")
  /\ UNCHANGED <<payment, ownerOf, said, hooks, deal, copied>>

PageInsert(c) ==
  /\ progress[c] = "page_insert"
  /\ payment' = [payment EXCEPT ![c] = [status |-> "draft", sub |-> deal[c].sub, at |-> 0]]
  /\ Proceed(c, "done")
  /\ UNCHANGED <<subscription, ownerOf, said, hooks, deal, copied>>

-----------------------------------------------------------------------------
(* POST /subscription/transaction/charge.                                  *)

\* Stripe: the form names the subscription.
ChargeCard(c, s) ==
  /\ gateway = "stripe" /\ Subscribed(s)
  /\ Take(c, [NoDeal EXCEPT !.op = "charge", !.sub = s], "charge_find")
  /\ UNCHANGED <<subscription, hooks, copied>>

\* Razorpay: the form names the gateway's, of a page that has been opened.
ChargePage(c, g, s) ==
  /\ gateway = "razorpay"
  /\ deal[g].op = "page" /\ progress[g] = "done" /\ s \in NamedBy(g)
  /\ Take(c, [NoDeal EXCEPT !.op = "charge", !.sub = s, !.at = g], "charge_active")
  /\ UNCHANGED <<subscription, hooks, copied>>

ChargeActive(c) ==
  /\ progress[c] = "charge_active"
  /\ subscription' = [subscription EXCEPT ![deal[c].sub].status = "active"]
  /\ Proceed(c, "charge_find")
  /\ UNCHANGED <<payment, ownerOf, said, hooks, deal, copied>>

\* The first transaction of the subscription, in no particular order.
ChargeLook(c) ==
  /\ progress[c] = "charge_find"
  /\ \E t \in PaymentsOf(deal[c].sub) : deal' = [deal EXCEPT ![c].tx = t]
  /\ Proceed(c, IF gateway = "stripe" THEN "charge_gateway" ELSE "charge_tx")
  /\ UNCHANGED <<subscription, payment, ownerOf, said, hooks, copied>>

\* Without one Stripe is charged all the same, and then the handler fails.
ChargeUnseen(c) ==
  /\ progress[c] = "charge_find" /\ PaymentsOf(deal[c].sub) = {}
  /\ Proceed(c, IF gateway = "stripe" THEN "charge_gateway" ELSE "failed")
  /\ UNCHANGED <<subscription, payment, ownerOf, said, hooks, deal, copied>>

ChargeStripe(c) ==
  /\ progress[c] = "charge_gateway"
  /\ ownerOf' = [ownerOf EXCEPT ![c] = deal[c].sub]
  /\ said' = [said EXCEPT ![c] = "active"]
  /\ deal' = [deal EXCEPT ![c].at = c]
  /\ Proceed(c, IF deal[c].tx = 0 THEN "failed" ELSE "charge_tx")
  /\ UNCHANGED <<subscription, payment, hooks, copied>>

ChargePayment(c) ==
  /\ progress[c] = "charge_tx"
  /\ payment' = [payment EXCEPT ![deal[c].tx].status = "paid",
                                ![deal[c].tx].at = deal[c].at]
  /\ Proceed(c, IF gateway = "stripe" THEN "charge_sub" ELSE "done")
  /\ UNCHANGED <<subscription, ownerOf, said, hooks, deal, copied>>

ChargeSubscription(c) ==
  /\ progress[c] = "charge_sub"
  /\ subscription' =
       [subscription EXCEPT ![deal[c].sub] = [status |-> "active", at |-> deal[c].at]]
  /\ Proceed(c, "done")
  /\ UNCHANGED <<payment, ownerOf, said, hooks, deal, copied>>

-----------------------------------------------------------------------------
(* The gateway's reports, and POST /transactions/webhook.                  *)

Report(g, v) ==
  /\ reports < MaxReports /\ reports' = reports + 1
  /\ ownerOf[g] # 0
  /\ onebyone => hooks = {}
  /\ said' = [said EXCEPT ![g] = v]
  /\ hooks' = hooks \union {[at |-> g, status |-> v]}
  /\ UNCHANGED <<gateway, onebyone, subscription, payment, ownerOf, progress, deal, copied>>

\* The row is read ...
WebHook(c, h, s) ==
  /\ onebyone => \A b \in Calls : ~Hooking(b)
  /\ s \in NamedBy(h.at)
  /\ Take(c, [NoDeal EXCEPT !.op = "hook", !.sub = s, !.at = h.at, !.status = h.status],
          "hook_write")
  /\ copied' = [copied EXCEPT ![c] = subscription[s]]
  /\ UNCHANGED <<subscription, hooks>>

MissedAnswered(c, h) ==            \* mutant: an unknown subscription is no error
  /\ NamedBy(h.at) = {}
  /\ Take(c, [NoDeal EXCEPT !.op = "hook", !.at = h.at, !.status = h.status], "done")
  /\ hooks' = hooks \ {h}
  /\ UNCHANGED <<subscription, copied>>

\* ... unless no row names that subscription, which is an error.
WebHookMissed(c, h) ==
  /\ NamedBy(h.at) = {}
  /\ Take(c, [NoDeal EXCEPT !.op = "hook", !.at = h.at, !.status = h.status], "failed")
  /\ UNCHANGED <<subscription, hooks, copied>>

\* ... and written back whole, with the status that has been reported.
HookWrite(c) ==
  /\ progress[c] = "hook_write"
  /\ subscription' =
       [subscription EXCEPT ![deal[c].sub] = [copied[c] EXCEPT !.status = deal[c].status]]
  /\ hooks' = hooks \ {[at |-> deal[c].at, status |-> deal[c].status]}
  /\ Proceed(c, "done")
  /\ UNCHANGED <<payment, ownerOf, said, deal, copied>>

\* A call or a statement fails, or the server stops: nothing is undone.
DealFails(c) ==
  /\ Dealing(c)
  /\ Proceed(c, "failed")
  /\ UNCHANGED <<subscription, payment, ownerOf, said, hooks, deal, copied>>

-----------------------------------------------------------------------------

SubscriptionInit ==
  /\ gateway \in {"stripe", "razorpay"} /\ onebyone \in BOOLEAN
  /\ subscription = [s \in Calls |-> NoSubscription]
  /\ payment = [t \in Calls |-> NoPayment]
  /\ ownerOf = [g \in Calls |-> 0] /\ said = [g \in Calls |-> "none"]
  /\ hooks = {} /\ reports = 0
  /\ progress = [c \in Calls |-> "idle"] /\ deal = [c \in Calls |-> NoDeal]
  /\ copied = [c \in Calls |-> NoSubscription]

TakeCall(c) ==
  \/ Subscribe(c)
  \/ \E s \in Calls : OpenPage(c, s) \/ ChargeCard(c, s)
  \/ \E g, s \in Calls : ChargePage(c, g, s)
  \/ \E h \in hooks : WebHookMissed(c, h) \/ \E s \in Calls : WebHook(c, h, s)

ProceedCall(c) ==
  \/ PageFind(c) \/ PageGateway(c) \/ PageUpdate(c) \/ PageInsert(c)
  \/ ChargeActive(c) \/ ChargeLook(c) \/ ChargeUnseen(c) \/ ChargeStripe(c)
  \/ ChargePayment(c) \/ ChargeSubscription(c) \/ HookWrite(c)

SubscriptionNext ==
  \/ \E c \in Calls : TakeCall(c) \/ ProceedCall(c) \/ DealFails(c)
  \/ \E g \in Calls, v \in {"paid", "void"} : Report(g, v)

SubscriptionSpec == SubscriptionInit /\ [][SubscriptionNext]_subscriptionVars

-----------------------------------------------------------------------------
(* What the code guarantees.                                               *)

Reported == {"none", "created", "active", "paid", "void"}
RowsOfSubscriptions == [status : Reported, at : Calls \union {0}]

SubscriptionTypeOK ==
  /\ gateway \in {"stripe", "razorpay"} /\ onebyone \in BOOLEAN
  /\ subscription \in [Calls -> RowsOfSubscriptions]
  /\ payment \in [Calls -> [status : {"none", "draft", "paid"}, sub : Calls \union {0},
                            at : Calls \union {0}]]
  /\ ownerOf \in [Calls -> Calls \union {0}] /\ said \in [Calls -> Reported]
  /\ hooks \subseteq [at : Calls, status : Reported] /\ reports \in 0 .. MaxReports
  /\ progress \in [Calls -> {"idle", "page_find", "page_gateway", "page_update",
       "page_insert", "charge_active", "charge_find", "charge_gateway", "charge_tx",
       "charge_sub", "hook_write", "done", "failed"}]
  /\ deal \in [Calls -> [op : {"none", "subscribe", "page", "charge", "hook"},
       sub : Calls \union {0}, at : Calls \union {0}, status : Reported,
       tx : Calls \union {0}]]
  /\ copied \in [Calls -> RowsOfSubscriptions]

\* What has been paid is on the books: a paid transaction names a subscription
\* that the gateway has made for the transaction's own, and with Stripe every
\* subscription that names one of the gateway's has such a transaction, whatever
\* hooks write it back and wherever a charge is cut short.
SubscriptionOnTheBooks ==
  /\ \A t \in Calls : payment[t].status = "paid" => ownerOf[payment[t].at] = payment[t].sub
  /\ \A s \in Calls : subscription[s].at # 0 /\ gateway = "stripe" =>
       \E t \in Calls : payment[t].status = "paid" /\ payment[t].sub = s

\* A gateway that repeats a hook until it is answered, and sends one at a time,
\* is followed: with Stripe, once nothing is unanswered, a subscription has the
\* status last reported of the one it names, though the hooks of a charge that
\* has not been stored are errors first.
StatusFollowsHooks ==
  \A s \in Calls :
    /\ subscription[s].at # 0
    /\ onebyone /\ gateway = "stripe" /\ hooks = {}
    => subscription[s].status = said[subscription[s].at]
=============================================================================
