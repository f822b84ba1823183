-------------------------- MODULE PurchasePromises --------------------------
(***************************************************************************)
(* What is promised of the payments for subscriptions, over the rows that  *)
(* members, administrators and accounting read: which payment gives        *)
(* access, waits for a review or is refunded.  Purchases is how the code   *)
(* keeps it.                                                               *)
(***************************************************************************)
EXTENDS Naturals, FiniteSets

CONSTANTS
    Member,
    Checkout,       \* rows of billing_checkouts
    BuyerOf,        \* Checkout -> Member
    PlanOf,         \* Checkout -> "FOUNDER" or "STANDARD"
    WithCoupon,     \* checkouts that use the coupon
    FounderLimit,   \* founderSalesLimit
    MaxRedemptions, \* the coupon's maxRedemptions
    Lifetime,       \* ticks until a checkout expires (30 minutes)
    LastTime,       \* bound: time at which the behaviour ends
    None

Plan == {"FOUNDER", "STANDARD"}
Rejected == {"REJECTED_ACCOUNT_STATE", "REJECTED_EXISTING_ACCESS", "REJECTED_FOUNDER_LIMIT"}
ReviewStates == Rejected \cup {"REVIEW_REFUNDING"}
Granted == {"COMPLETED", "REVIEW_ACCESS_GRANTED"}
Status == {"NONE", "INITIATED", "OPEN", "FAILED", "REVIEW_REFUNDED"} \cup ReviewStates \cup Granted

ASSUME PurchasesAssumption ==
    /\ BuyerOf \in [Checkout -> Member]
    /\ PlanOf \in [Checkout -> Plan]
    /\ WithCoupon \subseteq Checkout
    /\ FounderLimit \in Nat /\ MaxRedemptions \in Nat
    /\ Lifetime \in Nat \ {0} /\ LastTime \in Nat
    /\ IsFiniteSet(Checkout) /\ IsFiniteSet(Member)
    /\ None \notin Checkout

VARIABLES
    checkout,   \* Checkout -> status, expiresAt, whether providerSessionId and completedAt are set
    access,     \* Checkout -> the subscription it led to
    refunds,    \* checkouts with a REFUNDED payment
    members,    \* members who have not closed their account
    doing,      \* request -> what it is doing
    refund      \* Checkout -> its refund at the provider

\* The member's checkouts.
CheckoutsOf(m) == {c \in Checkout : BuyerOf[c] = m}

\* Faulty variant: what an administrator granted does not count.
HasPurchased(m) ==
    \E c \in CheckoutsOf(m) : access[c] = "CURRENT" /\ checkout[c].status = "COMPLETED"

\* The member has a current subscription.
Subscribed(m) == \E c \in CheckoutsOf(m) : access[c] = "CURRENT"

\* The unique index subscriptions_one_open_per_user.
OneOpenPerUser(open) ==
    \A c, d \in Checkout : BuyerOf[c] = BuyerOf[d] /\ open[c] = "CURRENT" /\ open[d] = "CURRENT" => c = d

\* Every founder's subscription counts, ended ones too.
FoundersSold == Cardinality({c \in Checkout : PlanOf[c] = "FOUNDER" /\ access[c] # "NONE"})
FoundersLeft == FoundersSold < FounderLimit

\* Faulty variant: the number of founders is not counted again.
VerdictUncounted(c) ==
    IF BuyerOf[c] \notin members THEN "REJECTED_ACCOUNT_STATE"
    ELSE IF Subscribed(BuyerOf[c]) THEN "REJECTED_EXISTING_ACCESS"
    ELSE "COMPLETED"

\* What the account, its access and the founders' places allow by now.
Verdict(c) ==
    IF BuyerOf[c] \notin members THEN "REJECTED_ACCOUNT_STATE"
    ELSE IF Subscribed(BuyerOf[c]) THEN "REJECTED_EXISTING_ACCESS"
    ELSE IF PlanOf[c] = "FOUNDER" /\ ~FoundersLeft THEN "REJECTED_FOUNDER_LIMIT"
    ELSE "COMPLETED"

\* Who has access once the payment is heard.
AccessAfter(c) == IF Verdict(c) = "COMPLETED" THEN [access EXCEPT ![c] = "CURRENT"] ELSE access

-----------------------------------------------------------------------------
\* No more founders than there are places, although reservations run out,
\* payments are heard after that, and administrators grant some of them.
FoundersWithinLimit == FoundersSold <= FounderLimit

\* A payment that is being heard is settled one way or the other: what the
\* checks under the member's lock let through, the unique index does not refuse.
\* The event would fail however often it is sent, and the money have no row.
HeardIsNeverRefused ==
    \A q \in DOMAIN doing : doing[q].op = "hearing" => OneOpenPerUser(AccessAfter(doing[q].about))

\* A payment that gave access is not refunded, nor does a refunded one give
\* access: not between the provider's call and its record either.
GrantedOrRefunded == \A c \in Checkout : access[c] # "NONE" => refund[c] = "NONE" /\ c \notin refunds

\* What happened to a payment that was heard is what its checkout says: access
\* was given, a review is open, or it was refunded.  Only a second request
\* with the same key, still in flight since before the payment, writes OPEN
\* over it.
HeardIsSettled ==
    \A c \in Checkout :
        LET status == checkout[c].status
        IN  checkout[c].completed /\ status # "OPEN" =>
                /\ status \in Granted <=> access[c] # "NONE"
                /\ status = "REVIEW_REFUNDED" <=> c \in refunds
                /\ status \in Granted \cup ReviewStates \cup {"REVIEW_REFUNDED"}
=============================================================================
