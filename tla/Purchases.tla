------------------------------ MODULE Purchases ------------------------------
(***************************************************************************)
(* Purchases of subscriptions through hosted checkouts: a member's request *)
(* reserves a checkout and opens a session with the payment provider       *)
(* (apps/api/src/stripe-checkout.service.ts), the provider reports the     *)
(* payment at any later time (stripe-webhook.service.ts), and what cannot  *)
(* be accepted then is refunded or granted by an administrator             *)
(* (billing-admin-resolution.service.ts).  One coupon with a limited       *)
(* number of redemptions is reserved and redeemed on the way               *)
(* (billing-coupon.service.ts).                                            *)
(*                                                                         *)
(* A row of billing_checkouts is named by its idempotency key, which fixes *)
(* who buys what, and with the coupon or without.  Reservations, accepted  *)
(* payments, grants and closures of accounts of one member take the lock   *)
(* "billing:<member>" before they read, those of founders' subscriptions   *)
(* "billing:founder-capacity" as well, so that each is one step.  Calls of *)
(* the provider and writes outside these transactions are steps of their   *)
(* own.  Sales and the coupon may be stopped at any time, which only keeps *)
(* a reservation from happening.                                           *)
(***************************************************************************)
EXTENDS PurchasePromises

CONSTANT Request   \* API requests in flight, the provider's among them

VARIABLES
    coupon,     \* Member -> the row of billing_coupon_redemptions
    late,       \* history: redemptions of a reservation that no longer counted
    now,
    (* the payment provider *)
    session,    \* Checkout -> its session
    contracts   \* running subscriptions

database == <<checkout, coupon, access, refunds, members, late>>
provider == <<session, contracts, refund>>
vars == <<database, now, doing, provider>>

Time == 0 .. LastTime + Lifetime
RequestType ==
    [op : {"idle"}, about : {None}, fact : {FALSE}]
      \cup [op : {"opening", "opened", "failed", "releasing", "hearing",
                  "refunding", "refunded", "granting"},
            about : Checkout, fact : BOOLEAN]
Does(op, c, fact) == [op |-> op, about |-> c, fact |-> fact]
Idle == Does("idle", None, FALSE)

Init ==
    /\ checkout = [c \in Checkout |->
                    [status |-> "NONE", expires |-> 0, recorded |-> FALSE, completed |-> FALSE]]
    /\ coupon = [m \in Member |-> [status |-> "NONE", checkout |-> None, until |-> 0]]
    /\ access = [c \in Checkout |-> "NONE"]
    /\ refunds = {} /\ members = Member /\ late = {}
    /\ now = 0
    /\ doing = [q \in Request |-> Idle]
    /\ session = [c \in Checkout |-> [state |-> "NONE", expires |-> 0]]
    /\ contracts = {}
    /\ refund = [c \in Checkout |-> "NONE"]

-----------------------------------------------------------------------------
(***************************************************************************)
(* Helpers.                                                                *)
(***************************************************************************)
Holds(q, work) == doing' = [doing EXCEPT ![q] = work]
WithStatus(c, status) == [checkout EXCEPT ![c].status = status]

\* The checkout is INITIATED or OPEN, not completed and not expired.
Pending(c) ==
    /\ checkout[c].status \in {"INITIATED", "OPEN"}
    /\ ~checkout[c].completed /\ checkout[c].expires > now

Reserved(m) == coupon[m].status = "RESERVED" /\ coupon[m].until > now

\* Faulty variant: reservations do not count.
UsersRedeemed == {m \in Member : coupon[m].status = "REDEEMED"}

\* Members whose use of the coupon counts.
Users == {m \in Member : coupon[m].status = "REDEEMED" \/ Reserved(m)}

\* eligible, with the coupon's lock: once for a member, and within its limit.
CouponAvailable(m) == m \notin Users /\ Cardinality(Users \ {m}) < MaxRedemptions

-----------------------------------------------------------------------------
(***************************************************************************)
(* Opening a checkout.                                                     *)
(***************************************************************************)

\* The reservation; a repetition of a request that has no session yet starts
\* anew with the same row.
Reserve(q, c) ==
    LET m == BuyerOf[c]
        others == {d \in Checkout \ {c} : Pending(d)}
    IN  /\ doing[q] = Idle
        /\ m \in members
        /\ ~checkout[c].recorded
        /\ ~Subscribed(m)
        /\ CheckoutsOf(m) \cap others = {}
        /\ PlanOf[c] = "FOUNDER" =>
             FoundersSold + Cardinality({d \in others : PlanOf[d] = "FOUNDER"}) < FounderLimit
        /\ c \in WithCoupon => CouponAvailable(m)
        /\ checkout' = [checkout EXCEPT ![c].status = "INITIATED", ![c].expires = now + Lifetime]
        /\ coupon' = IF c \in WithCoupon
                     THEN [coupon EXCEPT ![m] = [status |-> "RESERVED", checkout |-> c,
                                                 until |-> now + Lifetime]]
                     ELSE coupon
        /\ Holds(q, Does("opening", c, FALSE))
        /\ UNCHANGED <<access, refunds, members, late, now, provider>>

\* The provider opens one session per idempotency key, and answers a
\* repetition with other parameters with an error.
OpenSession(q) ==
    LET c == doing[q].about
    IN  /\ doing[q].op = "opening"
        /\ \/ session[c].state = "NONE"
           \/ session[c].expires = checkout[c].expires
        /\ session' = IF session[c].state = "NONE"
                      THEN [session EXCEPT ![c] = [state |-> "OPEN", expires |-> checkout[c].expires]]
                      ELSE session
        /\ \/ Holds(q, Does("opened", c, FALSE))
           \/ Holds(q, Does("failed", c, FALSE))
        /\ UNCHANGED <<database, now, contracts, refund>>

\* The price does not match, or the provider refuses or cannot be reached.
FailToOpen(q) ==
    /\ doing[q].op = "opening"
    /\ Holds(q, Does("failed", doing[q].about, FALSE))
    /\ UNCHANGED <<database, now, provider>>

\* The session is written by the checkout's id, whatever became of the row.
RecordSession(q) ==
    LET c == doing[q].about
    IN  /\ doing[q].op = "opened"
        /\ checkout' = [checkout EXCEPT ![c].status = "OPEN", ![c].recorded = TRUE,
                                        ![c].expires = session[c].expires]
        /\ Holds(q, Idle)
        /\ UNCHANGED <<coupon, access, refunds, members, late, now, provider>>

FailedStatus == "FAILED"

\* updateMany where INITIATED ...
RecordFailure(q) ==
    LET c == doing[q].about
    IN  /\ doing[q].op = "failed"
        /\ checkout' = IF checkout[c].status = "INITIATED" THEN WithStatus(c, FailedStatus) ELSE checkout
        /\ Holds(q, Does("releasing", c, FALSE))
        /\ UNCHANGED <<coupon, access, refunds, members, late, now, provider>>

\* ... and releaseCheckout, where the coupon is still reserved by the checkout.
ReleaseCoupon(q) ==
    LET c == doing[q].about
        m == BuyerOf[c]
    IN  /\ doing[q].op = "releasing"
        /\ coupon' = IF coupon[m].checkout = c /\ coupon[m].status = "RESERVED"
                     THEN [coupon EXCEPT ![m].status = "RELEASED", ![m].until = 0]
                     ELSE coupon
        /\ Holds(q, Idle)
        /\ UNCHANGED <<checkout, access, refunds, members, late, now, provider>>

\* A request is refused, fails or dies between two of its steps; an open
\* transaction is rolled back, an event the provider sent is sent again.
GiveUp(q) ==
    /\ doing[q] # Idle
    /\ Holds(q, Idle)
    /\ UNCHANGED <<database, now, provider>>

-----------------------------------------------------------------------------
(***************************************************************************)
(* The payment and what the application hears of it.                       *)
(***************************************************************************)

\* The member gets the session's address once it is recorded, and may pay
\* until it expires.
Pay(c) ==
    /\ session[c].state = "OPEN" /\ checkout[c].recorded
    /\ now < session[c].expires
    /\ session' = [session EXCEPT ![c].state = "PAID"]
    /\ contracts' = contracts \cup {c}
    /\ UNCHANGED <<database, now, doing, refund>>

\* checkout.session.completed, at any time after: the checkout is read and the
\* coupon's row is looked up by it.
BeginHearing(q, c) ==
    LET row == coupon[BuyerOf[c]]
    IN  /\ doing[q] = Idle
        /\ session[c].state = "PAID" /\ ~checkout[c].completed
        /\ \A p \in Request : doing[p].op = "hearing" => doing[p].about # c
        /\ Holds(q, Does("hearing", c, row.checkout = c /\ row.status # "REDEEMED"))
        /\ UNCHANGED <<database, now, provider>>

\* The coupon's row is redeemed by its id; the payment gives access or waits
\* for a review.
CommitHearing(q) ==
    LET c == doing[q].about
        m == BuyerOf[c]
    IN  /\ doing[q].op = "hearing"
        /\ checkout' = [checkout EXCEPT ![c].status = Verdict(c), ![c].completed = TRUE]
        /\ access' = AccessAfter(c)
        /\ OneOpenPerUser(access')
        /\ IF doing[q].fact
           THEN /\ coupon' = [coupon EXCEPT ![m].status = "REDEEMED", ![m].until = 0]
                /\ late' = IF Reserved(m) THEN late ELSE late \cup {m}
           ELSE UNCHANGED <<coupon, late>>
        /\ Holds(q, Idle)
        /\ UNCHANGED <<refunds, members, now, provider>>

-----------------------------------------------------------------------------
(***************************************************************************)
(* An administrator resolves a payment that waits for a review.            *)
(***************************************************************************)

\* REFUND, under the lock of the review: nothing else may happen to it now.
BeginRefund(q, c) ==
    /\ doing[q] = Idle
    /\ checkout[c].completed /\ checkout[c].status \in ReviewStates
    /\ checkout' = WithStatus(c, "REVIEW_REFUNDING")
    /\ Holds(q, Does("refunding", c, FALSE))
    /\ UNCHANGED <<coupon, access, refunds, members, late, now, provider>>

\* The subscription is cancelled and the payment refunded, once per key; a
\* refund that is not through at once is left to the provider's event.
RefundAtProvider(q) ==
    LET c == doing[q].about
    IN  /\ doing[q].op = "refunding"
        /\ contracts' = contracts \ {c}
        /\ \/ refund[c] = "NONE" /\ \E outcome \in {"PENDING", "SUCCEEDED"} :
                                      refund' = [refund EXCEPT ![c] = outcome]
           \/ refund[c] # "NONE" /\ UNCHANGED refund
        /\ IF refund'[c] = "SUCCEEDED" THEN Holds(q, Does("refunded", c, FALSE)) ELSE Holds(q, Idle)
        /\ UNCHANGED <<database, now, session>>

\* The refund is recorded unless the provider's event was faster.
CommitRefund(q) ==
    LET c == doing[q].about
    IN  /\ doing[q].op = "refunded"
        /\ refunds' = refunds \cup {c}
        /\ checkout' = WithStatus(c, "REVIEW_REFUNDED")
        /\ Holds(q, Idle)
        /\ UNCHANGED <<coupon, access, members, late, now, provider>>

\* A pending refund succeeds; the key keeps its first answer.
SettleRefund(c) ==
    /\ refund[c] = "PENDING"
    /\ refund' = [refund EXCEPT ![c] = "SETTLED"]
    /\ UNCHANGED <<database, now, doing, session, contracts>>

\* Faulty variant: a review being refunded is not closed.
ClosedByRefundRejected == Rejected

\* The statuses a full refund closes.
ClosedByRefund == ReviewStates

\* refund.created and refund.updated.
HearRefund(c) ==
    /\ refund[c] \in {"SUCCEEDED", "SETTLED"} /\ c \notin refunds
    /\ refunds' = refunds \cup {c}
    /\ checkout' = IF checkout[c].status \in ClosedByRefund
                   THEN WithStatus(c, "REVIEW_REFUNDED") ELSE checkout
    /\ UNCHANGED <<coupon, access, members, late, now, doing, provider>>

\* GRANT_ACCESS reads the review and the provider's subscription ...
BeginGrant(q, c) ==
    /\ doing[q] = Idle
    /\ checkout[c].completed /\ checkout[c].status \in ReviewStates
    /\ Holds(q, Does("granting", c, c \in contracts))
    /\ UNCHANGED <<database, now, provider>>

\* Faulty variant: a review being refunded may be granted.
GrantableInReview(c) == checkout[c].status \in ReviewStates

Grantable(c) == checkout[c].status \in Rejected

\* ... and checks all conditions again under the locks.
CommitGrant(q) ==
    LET c == doing[q].about
    IN  /\ doing[q].op = "granting"
        /\ Grantable(c)
        /\ BuyerOf[c] \in members
        /\ doing[q].fact
        /\ ~Subscribed(BuyerOf[c])
        /\ PlanOf[c] = "FOUNDER" => FoundersLeft
        /\ checkout' = WithStatus(c, "REVIEW_ACCESS_GRANTED")
        /\ access' = [access EXCEPT ![c] = "CURRENT"]
        /\ OneOpenPerUser(access')
        /\ Holds(q, Idle)
        /\ UNCHANGED <<coupon, refunds, members, late, now, provider>>

-----------------------------------------------------------------------------
(***************************************************************************)
(* Members, ends of subscriptions and time.                                *)
(***************************************************************************)

\* close: refused with current access, whose period does not end within the
\* time modelled, or a pending checkout.  A restored account keeps its closure
\* and cannot buy.
CloseAccount(m) ==
    /\ m \in members
    /\ ~Subscribed(m)
    /\ \A c \in CheckoutsOf(m) : ~Pending(c)
    /\ members' = members \ {m}
    /\ UNCHANGED <<checkout, coupon, access, refunds, late, now, doing, provider>>

\* A subscription ends at the provider ...
EndContract(c) ==
    /\ c \in contracts
    /\ contracts' = contracts \ {c}
    /\ UNCHANGED <<database, now, doing, session, refund>>

\* ... and customer.subscription.deleted ends the access.
HearEnd(c) ==
    /\ access[c] = "CURRENT" /\ c \notin contracts
    /\ access' = [access EXCEPT ![c] = "ENDED"]
    /\ UNCHANGED <<checkout, coupon, refunds, members, late, now, doing, provider>>

Tick ==
    /\ now < LastTime
    /\ now' = now + 1
    /\ UNCHANGED <<database, doing, provider>>

Next ==
    \/ \E q \in Request, c \in Checkout :
        Reserve(q, c) \/ BeginHearing(q, c) \/ BeginRefund(q, c) \/ BeginGrant(q, c)
    \/ \E q \in Request :
        \/ OpenSession(q) \/ FailToOpen(q) \/ RecordSession(q) \/ RecordFailure(q) \/ ReleaseCoupon(q)
        \/ CommitHearing(q) \/ RefundAtProvider(q) \/ CommitRefund(q) \/ CommitGrant(q)
        \/ GiveUp(q)
    \/ \E c \in Checkout : Pay(c) \/ SettleRefund(c) \/ HearRefund(c) \/ EndContract(c) \/ HearEnd(c)
    \/ \E m \in Member : CloseAccount(m)
    \/ Tick

Spec == Init /\ [][Next]_vars

-----------------------------------------------------------------------------
(***************************************************************************)
(* Properties.                                                             *)
(***************************************************************************)

\* Every variable holds a value of its type; the status of a checkout is one
\* the table's CHECK knows.
TypeOK ==
    /\ checkout \in [Checkout -> [status : Status, expires : Time, recorded : BOOLEAN,
                                  completed : BOOLEAN]]
    /\ coupon \in [Member -> [status : {"NONE", "RESERVED", "RELEASED", "REDEEMED"},
                              checkout : Checkout \cup {None}, until : Time]]
    /\ access \in [Checkout -> {"NONE", "CURRENT", "ENDED"}]
    /\ refunds \subseteq Checkout
    /\ members \subseteq Member
    /\ late \subseteq Member
    /\ now \in 0 .. LastTime
    /\ doing \in [Request -> RequestType]
    /\ session \in [Checkout -> [state : {"NONE", "OPEN", "PAID"}, expires : Time]]
    /\ contracts \subseteq Checkout
    /\ refund \in [Checkout -> {"NONE", "PENDING", "SUCCEEDED", "SETTLED"}]

\* The coupon is reserved and redeemed within its limit, which BILLING_COUPONS.md:21
\* says of it: the lock of the coupon prevents that the limit is exceeded.
CouponWithinLimit == Cardinality(Users) <= MaxRedemptions

\* The same but for payments heard when their reservation no longer counted:
\* each of those takes a use beyond the limit at most.
OverrunsAreLate == Cardinality(Users) <= MaxRedemptions + Cardinality(late)
=============================================================================
