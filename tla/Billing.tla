--------------------------------- MODULE Billing ---------------------------------
(***************************************************************************)
(* A tenant's subscription as the webhooks of two providers write it, and  *)
(* its payment links. The providers deliver every notice at least once, in *)
(* any order, several at a time; the row is read and written back whole.   *)
(***************************************************************************)
EXTENDS Naturals, Sequences, FiniteSets

CONSTANTS
    PaidPlan,           \* the plans that can be bought
    Handler,            \* webhook requests under way
    NoticeLimit,        \* bound: notices sent
    DeliveryLimit,      \* bound: deliveries of one notice
    BillingFaultLimit   \* bound: statements that fail

ASSUME BillingAssumption ==
    /\ {NoticeLimit, DeliveryLimit, BillingFaultLimit} \subseteq Nat /\ DeliveryLimit >= 1
    /\ IsFiniteSet(Handler)

VARIABLES
    purchases,  \* subscriptions at the providers, oldest first
    notices,    \* webhook events, oldest first, with how often they were answered
    row,        \* the tenant's row of subscriptions
    handling,   \* [Handler -> the event it handles, the row it has read]
    disordered, \* an event came again, early, or while another was handled
    links,      \* payment_transactions
    billingFaults

billingVars == <<purchases, notices, row, handling, disordered, links, billingFaults>>

Starter == "starter"
LimitsOf(plan) == plan   \* the three limits of a plan, as one value
Waiting == [pc |-> "waiting"]

FreePlan == [provider |-> "free", customer |-> 0, subscription |-> 0,
          plan |-> Starter, status |-> "active", limits |-> LimitsOf(Starter)]

BillingInit ==
    /\ purchases = <<>> /\ notices = <<>>
    /\ row = FreePlan
    /\ handling = [h \in Handler |-> Waiting]
    /\ disordered = FALSE
    /\ links = <<>>
    /\ billingFaults = 0

BillingFails == billingFaults < BillingFaultLimit /\ billingFaults' = billingFaults + 1
BillingHolds == billingFaults' = billingFaults

-----------------------------------------------------------------------------
(* The providers *)

Notice(type, n) == Append(notices, [type |-> type, of |-> n, answered |-> 0])

Room == Len(notices) < NoticeLimit

\* Stripe makes a customer per checkout, Paystack one per address.
Customer(provider, n) == IF provider = "stripe" THEN n ELSE "payer"

Buy(provider, plan) ==
    /\ Room
    /\ LET n == Len(purchases) + 1 IN
       /\ purchases' = Append(purchases, [provider |-> provider, plan |-> plan, status |-> "active",
                                          customer |-> Customer(provider, n)])
       /\ notices' = Notice("bought", n)
    /\ UNCHANGED <<row, handling, disordered, links, billingFaults>>

\* A renewal that fails, or succeeds later.
ChangeStatus(n, status) ==
    /\ Room /\ purchases[n].provider = "stripe" /\ purchases[n].status \notin {status, "canceled"}
    /\ purchases' = [purchases EXCEPT ![n].status = status]
    /\ notices' = Append(notices, [type |-> "updated", of |-> n, answered |-> 0, status |-> status])
    /\ UNCHANGED <<row, handling, disordered, links, billingFaults>>

Canceled(purchase) == [provider |-> purchase.provider, plan |-> purchase.plan,
                       status |-> "canceled", customer |-> purchase.customer]

\* Paystack disables what the customer has.
Cancel(n) ==
    /\ Room /\ purchases[n].status # "canceled"
    /\ purchases' = [m \in DOMAIN purchases |->
                        IF m = n \/ (purchases[n].provider = "paystack" /\ purchases[m].provider = "paystack")
                        THEN Canceled(purchases[m]) ELSE purchases[m]]
    /\ notices' = Notice("canceled", n)
    /\ UNCHANGED <<row, handling, disordered, links, billingFaults>>

-----------------------------------------------------------------------------
(* Payment links *)

NewLink == Append(links, [charged |-> FALSE, status |-> "pending", confirmed |-> 0])

\* The link at Paystack first, then the record; without the record there is no
\* link for the customer to pay.
CreatePaymentLink ==
    /\ Len(links) < 1
    /\ links' = NewLink
    /\ UNCHANGED <<purchases, notices, row, handling, disordered, billingFaults>>

Charge(n) ==
    /\ Room /\ ~links[n].charged
    /\ links' = [links EXCEPT ![n].charged = TRUE]
    /\ notices' = Notice("link_paid", n)
    /\ UNCHANGED <<purchases, row, handling, disordered, billingFaults>>

-----------------------------------------------------------------------------
(* The webhooks *)

InOrder(e) ==
    /\ notices[e].answered = 0
    /\ \A d \in 1..(e - 1) : notices[d].answered > 0
    /\ \A h \in Handler : handling[h] = Waiting

Receive(h, e) ==
    /\ handling[h] = Waiting /\ notices[e].answered < DeliveryLimit
    /\ handling' = [handling EXCEPT ![h] = [pc |-> "look up", event |-> e]]
    /\ disordered' = (disordered \/ ~InOrder(e))
    /\ UNCHANGED <<purchases, notices, row, links, billingFaults>>

Event(h) == notices[handling[h].event]
Bought(h) == purchases[Event(h).of]

Answer(h) ==
    /\ notices' = [notices EXCEPT ![handling[h].event].answered = @ + 1]
    /\ handling' = [handling EXCEPT ![h] = Waiting]

Subscription(n) ==
    [provider |-> purchases[n].provider, customer |-> purchases[n].customer, subscription |-> n,
     plan |-> purchases[n].plan, status |-> "active", limits |-> LimitsOf(purchases[n].plan)]

\* checkout.session.completed and charge.success. An error is answered 400 and
\* the provider sends the event again.
Activate(h) ==
    /\ handling[h].pc = "look up" /\ Event(h).type = "bought"
    /\ \/ row' = Subscription(Event(h).of) /\ Answer(h) /\ BillingHolds
       \/ /\ BillingFails /\ row' = row /\ notices' = notices
          /\ handling' = [handling EXCEPT ![h] = Waiting]
    /\ UNCHANGED <<purchases, disordered, links>>

\* Mistaken variant, for mutation: any provider's customer will do.
MatchesAnyRow(h) == TRUE

\* By the subscription's id or the customer's, of the same provider; Paystack's
\* event names the customer only.
MatchesRow(h) ==
    /\ row.provider = Bought(h).provider
    /\ \/ row.provider = "stripe" /\ row.subscription = Event(h).of
       \/ row.customer = Bought(h).customer

\* No row, or one that cannot be read: the event is acknowledged all the same.
FindSubscription(h) ==
    /\ handling[h].pc = "look up" /\ Event(h).type \in {"updated", "canceled"}
    /\ \/ /\ MatchesRow(h) /\ BillingHolds
          /\ handling' = [handling EXCEPT ![h] = [pc |-> "write", event |-> @.event, read |-> row]]
          /\ notices' = notices
       \/ ~MatchesRow(h) /\ Answer(h) /\ BillingHolds
       \/ BillingFails /\ Answer(h)
    /\ UNCHANGED <<purchases, row, disordered, links>>

\* Mistaken variant, for mutation: the limits stay.
DowngradedPlanOnly(read) == [read EXCEPT !.plan = Starter, !.status = "canceled"]

Downgraded(read) ==
    [provider |-> read.provider, customer |-> read.customer, subscription |-> read.subscription,
     plan |-> Starter, status |-> "canceled", limits |-> LimitsOf(Starter)]

\* The whole row is written back as it was read.
WriteSubscription(h) ==
    /\ handling[h].pc = "write"
    /\ \/ /\ row' = IF Event(h).type = "canceled" THEN Downgraded(handling[h].read)
                    ELSE [handling[h].read EXCEPT !.status = Event(h).status]
          /\ Answer(h) /\ BillingHolds
       \/ /\ BillingFails /\ row' = row /\ notices' = notices
          /\ handling' = [handling EXCEPT ![h] = Waiting]
    /\ UNCHANGED <<purchases, disordered, links>>

\* Mistaken variant, for mutation: the notice is answered before the record.
MarkedLater(link) == link

Marked(link) == [link EXCEPT !.status = "paid"]
Confirmed(link) == [charged |-> link.charged, status |-> link.status,
                    confirmed |-> link.confirmed + 1]

\* Whatever its status was; the tag and the message in the chat follow, and a
\* message that cannot be stored is let go.
HandlePaymentWebhook(h) ==
    /\ handling[h].pc = "look up" /\ Event(h).type = "link_paid"
    /\ LET n == Event(h).of IN
       \/ /\ links' = [links EXCEPT ![n] = Confirmed(Marked(@))]
          /\ Answer(h) /\ BillingHolds
       \/ links' = [links EXCEPT ![n] = Marked(@)] /\ Answer(h) /\ BillingFails
       \/ /\ BillingFails /\ links' = links /\ notices' = notices
          /\ handling' = [handling EXCEPT ![h] = Waiting]
    /\ UNCHANGED <<purchases, row, disordered>>

BillingNext ==
    \/ \E p \in {"stripe", "paystack"}, plan \in PaidPlan : Buy(p, plan)
    \/ \E n \in DOMAIN purchases : Cancel(n) \/ \E s \in {"active", "past_due"} : ChangeStatus(n, s)
    \/ CreatePaymentLink
    \/ \E n \in DOMAIN links : Charge(n)
    \/ \E h \in Handler : \/ \E e \in DOMAIN notices : Receive(h, e)
                          \/ Activate(h) \/ FindSubscription(h) \/ WriteSubscription(h)
                          \/ HandlePaymentWebhook(h)

BillingSpec == BillingInit /\ [][BillingNext]_billingVars

-----------------------------------------------------------------------------
BillingTypeOK ==
    /\ row.plan \in PaidPlan \cup {Starter} /\ row.status \in {"active", "past_due", "canceled"}
    /\ row.subscription \in 0..Len(purchases)
    /\ \A n \in DOMAIN links : links[n].status \in {"pending", "paid"}
                               /\ links[n].confirmed < DeliveryLimit + Cardinality(Handler)

\* The limits the quotas are checked against are those of the plan in the row,
\* whatever events overlap, repeat or fail.
LimitsMatchPlan == row.limits = LimitsOf(row.plan)

Settled == \A e \in DOMAIN notices : notices[e].answered > 0

\* When every event was handled once, in order and alone, and no statement
\* failed, the plan is that of the last purchase as it stands at its provider:
\* a cancellation of an earlier purchase, or at the other provider, changes
\* nothing.
PlanFollowsPurchases ==
    Settled /\ ~disordered /\ billingFaults = 0 /\ purchases # <<>> =>
        LET last == purchases[Len(purchases)] IN
        /\ row.plan = IF last.status = "canceled" THEN Starter ELSE last.plan
        /\ row.status = last.status

\* No link is paid before its charge, and no notice of a charge is answered
\* before the link is paid, so a failure always has the provider send it again.
PaidMeansCharged ==
    /\ \A n \in DOMAIN links : links[n].status = "paid" => links[n].charged
    /\ \A e \in DOMAIN notices : notices[e].type = "link_paid" /\ notices[e].answered > 0
                                  => links[notices[e].of].status = "paid"
=============================================================================
