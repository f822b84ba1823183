------------------------------ MODULE MCBilling ------------------------------
(***************************************************************************)
(* Instances for TLC of what is billed: the purchases of several members   *)
(* up to their first payment (Purchases), and one subscription from there  *)
(* on (SubscriptionLifecycle).  What happens to the one changes no row of  *)
(* the other but through a payment heard or a contract ended, which each   *)
(* module has of its own; so a behaviour is of one or of the other.        *)
(***************************************************************************)
EXTENDS SubscriptionLifecycle, PurchasePromises, TLC

CONSTANTS
    Client,   \* the requests of a behaviour that is of purchases
    m1, m2, c1, c2, c3

\* One member tries a founder's and a standard subscription, another a
\* founder's one.
Buyers == (c1 :> m1) @@ (c2 :> m1) @@ (c3 :> m2)
Plans  == (c1 :> "FOUNDER") @@ (c2 :> "STANDARD") @@ (c3 :> "FOUNDER")

\* Requests are interchangeable.
Interchangeable == Permutations(Client)

\* Two failures around a renewal; a failure and a change of the flag; two
\* changes of it.
Profiles ==
    {[failures |-> 2, changes |-> 0, time |-> 3], [failures |-> 1, changes |-> 1, time |-> 3],
     [failures |-> 0, changes |-> 2, time |-> 2]}

VARIABLES
    coupon, late, purchaseNow, session, contracts,
    about     \* which of the two the behaviour is of

Buying == INSTANCE Purchases WITH Request <- Client, now <- purchaseNow
purchases == <<checkout, coupon, access, refunds, members, late, purchaseNow, doing, session,
               contracts, refund>>

\* The bounds and the first invoice of a subscription at rest do not matter.
BillingInit ==
    /\ Init /\ Buying!Init
    /\ \/ about = "subscription"
       \/ /\ about = "purchases"
          /\ bound = CHOOSE any \in Bounds : TRUE
          /\ \A e \in issued : ~e.flag

BillingNext ==
    \/ about = "subscription" /\ Next /\ UNCHANGED <<purchases, about>>
    \/ about = "purchases" /\ Buying!Next /\ UNCHANGED <<vars, about>>

BillingSpec == BillingInit /\ [][BillingNext]_<<vars, purchases, about>>

CouponWithinLimit == Buying!CouponWithinLimit
=============================================================================
