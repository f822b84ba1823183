--------------------------- MODULE PurchasesProofs ---------------------------
(***************************************************************************)
(* Theorems about Purchases, for any members, checkouts, limits and        *)
(* requests.                                                               *)
(***************************************************************************)
EXTENDS Purchases, FiniteSetTheorems, TLAPS

-----------------------------------------------------------------------------
(***************************************************************************)
(* Type correctness.                                                       *)
(***************************************************************************)

CheckoutRow == [status : Status, expires : Time, recorded : BOOLEAN, completed : BOOLEAN]
CouponRow == [status : {"NONE", "RESERVED", "RELEASED", "REDEEMED"},
              checkout : Checkout \cup {None}, until : Time]
Ops == {"opening", "opened", "failed", "releasing", "hearing", "refunding", "refunded", "granting"}

\* What a request may do is typed, and so is its end.
LEMMA DoesTyped ==
    /\ Idle \in RequestType
    /\ \A op \in Ops, c \in Checkout, fact \in BOOLEAN : Does(op, c, fact) \in RequestType
  BY DEF Idle, Does, RequestType, Ops

\* A request that does something is about a checkout.
LEMMA AboutTyped ==
    ASSUME TypeOK, NEW q \in Request, doing[q].op # "idle"
    PROVE  doing[q].about \in Checkout /\ doing[q].fact \in BOOLEAN /\ doing[q].op \in Ops
  BY DEF TypeOK, RequestType, Ops

\* The step of a request keeps the requests' type.
LEMMA HoldsTyped ==
    ASSUME TypeOK, NEW q \in Request, NEW t \in RequestType, Holds(q, t)
    PROVE  doing' \in [Request -> RequestType]
  BY DEF TypeOK, Holds

\* A change of status keeps the checkouts' type.
LEMMA StatusTyped ==
    ASSUME TypeOK, NEW c, NEW s \in Status
    PROVE  WithStatus(c, s) \in [Checkout -> CheckoutRow]
  <1>1. CASE c \in Checkout
    <2>1. [checkout[c] EXCEPT !.status = s] \in CheckoutRow
      BY <1>1 DEF TypeOK, CheckoutRow
    <2>2. QED
      BY <2>1 DEF TypeOK, WithStatus, CheckoutRow
  <1>2. CASE c \notin Checkout
    BY <1>2 DEF TypeOK, WithStatus, CheckoutRow
  <1>3. QED
    BY <1>1, <1>2

\* A redemption's row keeps its type when it is settled.
LEMMA CouponRowTyped ==
    ASSUME NEW r \in CouponRow, NEW s \in {"RELEASED", "REDEEMED"}, NEW t \in Time
    PROVE  [[r EXCEPT !.status = s] EXCEPT !.until = t] \in CouponRow
  <1>1. [r EXCEPT !.status = s] \in CouponRow
    BY DEF CouponRow
  <1>2. \A x \in CouponRow : [x EXCEPT !.until = t] \in CouponRow
    BY DEF CouponRow
  <1>3. QED
    BY <1>1, <1>2

\* A checkout or coupon that is reserved now expires in time.
LEMMA ExpiryTyped ==
    ASSUME TypeOK
    PROVE  now + Lifetime \in Time /\ 0 \in Time
  BY PurchasesAssumption DEF TypeOK, Time

\* What a payment comes to is a status.
LEMMA VerdictTyped == \A c : Verdict(c) \in Rejected \cup {"COMPLETED"} /\ Verdict(c) \in Status
  BY DEF Verdict, Rejected, Status, ReviewStates, Granted

\* The initial state is well typed.
LEMMA TypeInit == Init => TypeOK
  <1> SUFFICES ASSUME Init PROVE TypeOK
    OBVIOUS
  <1>1. 0 \in Time /\ 0 \in 0 .. LastTime
    BY PurchasesAssumption DEF Time
  <1>2. "NONE" \in Status
    BY DEF Status
  <1> QED
    BY <1>1, <1>2, DoesTyped DEF Init, TypeOK

\* Every step keeps the types.
LEMMA TypeStep == TypeOK /\ [Next]_vars => TypeOK'
  <1> SUFFICES ASSUME TypeOK, [Next]_vars PROVE TypeOK'
    OBVIOUS
  <1> USE DEF database, provider
  <1>s. /\ Rejected \subseteq Status /\ Granted \subseteq Status /\ ReviewStates \subseteq Status
        /\ {"INITIATED", "OPEN", "FAILED", "REVIEW_REFUNDED", "REVIEW_REFUNDING",
            "REVIEW_ACCESS_GRANTED"} \subseteq Status
    BY DEF Status, ReviewStates, Granted
  <1>1. ASSUME NEW q \in Request, NEW c \in Checkout, Reserve(q, c) PROVE TypeOK'
    <2>1. doing' \in [Request -> RequestType]
      BY <1>1, DoesTyped, HoldsTyped DEF Reserve, Ops
    <2>2. checkout' \in [Checkout -> CheckoutRow]
      <3>1. checkout[c] \in CheckoutRow
        BY DEF TypeOK, CheckoutRow
      <3>2. [[checkout[c] EXCEPT !.status = "INITIATED"] EXCEPT !.expires = now + Lifetime] \in CheckoutRow
        BY <3>1, <1>s, ExpiryTyped DEF CheckoutRow
      <3>3. checkout' = [checkout EXCEPT ![c] =
                          [[checkout[c] EXCEPT !.status = "INITIATED"] EXCEPT !.expires = now + Lifetime]]
        BY <1>1 DEF Reserve, TypeOK
      <3>4. QED
        BY <3>2, <3>3 DEF TypeOK, CheckoutRow
    <2>3. coupon' \in [Member -> CouponRow]
      BY <1>1, ExpiryTyped DEF Reserve, TypeOK, CouponRow
    <2>4. QED
      BY <1>1, <2>1, <2>2, <2>3 DEF Reserve, TypeOK, CheckoutRow, CouponRow
  <1>2. ASSUME NEW q \in Request, NEW c \in Checkout,
               BeginHearing(q, c) \/ BeginRefund(q, c) \/ BeginGrant(q, c)
        PROVE  TypeOK'
    <2>1. CASE BeginHearing(q, c)
      <3>1. doing' \in [Request -> RequestType]
        BY <2>1, DoesTyped, HoldsTyped DEF BeginHearing, Ops
      <3>2. QED
        BY <2>1, <3>1 DEF BeginHearing, TypeOK
    <2>2. CASE BeginRefund(q, c)
      <3>1. doing' \in [Request -> RequestType]
        BY <2>2, DoesTyped, HoldsTyped DEF BeginRefund, Ops
      <3>2. QED
        BY <2>2, <3>1, <1>s, StatusTyped DEF CheckoutRow, BeginRefund, TypeOK
    <2>3. CASE BeginGrant(q, c)
      <3>1. doing' \in [Request -> RequestType]
        <4>1. (c \in contracts) \in BOOLEAN
          OBVIOUS
        <4>2. Does("granting", c, c \in contracts) \in RequestType
          BY <4>1, DoesTyped DEF Ops
        <4>3. QED
          BY <2>3, <4>2, HoldsTyped DEF BeginGrant
      <3>2. QED
        BY <2>3, <3>1 DEF BeginGrant, TypeOK
    <2>4. QED
      BY <1>2, <2>1, <2>2, <2>3
  <1>3. ASSUME NEW q \in Request, OpenSession(q) \/ FailToOpen(q) PROVE TypeOK'
    <2>1. doing[q].about \in Checkout
      BY <1>3, AboutTyped DEF OpenSession, FailToOpen
    <2>2. doing' \in [Request -> RequestType]
      BY <1>3, <2>1, DoesTyped, HoldsTyped DEF OpenSession, FailToOpen, Ops
    <2>3. session' \in [Checkout -> [state : {"NONE", "OPEN", "PAID"}, expires : Time]]
      <3>1. checkout[doing[q].about].expires \in Time
        BY <2>1 DEF TypeOK
      <3>2. [state |-> "OPEN", expires |-> checkout[doing[q].about].expires]
              \in [state : {"NONE", "OPEN", "PAID"}, expires : Time]
        BY <3>1
      <3>3. QED
        BY <1>3, <2>1, <3>2 DEF OpenSession, FailToOpen, TypeOK
    <2>4. QED
      BY <1>3, <2>2, <2>3 DEF OpenSession, FailToOpen, TypeOK
  <1>4. ASSUME NEW q \in Request, RecordSession(q) PROVE TypeOK'
    <2>1. doing[q].about \in Checkout
      BY <1>4, AboutTyped DEF RecordSession
    <2>2. doing' \in [Request -> RequestType]
      BY <1>4, DoesTyped, HoldsTyped DEF RecordSession
    <2>3. session[doing[q].about].expires \in Time
      BY <2>1 DEF TypeOK
    <2>4. checkout' \in [Checkout -> CheckoutRow]
      <3> DEFINE c == doing[q].about
                 row == [[[checkout[c] EXCEPT !.status = "OPEN"] EXCEPT !.recorded = TRUE]
                          EXCEPT !.expires = session[c].expires]
      <3>1. checkout[c] \in CheckoutRow
        BY <2>1 DEF TypeOK, CheckoutRow
      <3>2. row \in CheckoutRow
        BY <3>1, <2>3, <1>s DEF CheckoutRow
      <3>3. checkout' = [checkout EXCEPT ![c] = row]
        BY <1>4, <2>1 DEF RecordSession, TypeOK
      <3>4. QED
        BY <3>2, <3>3 DEF TypeOK, CheckoutRow
    <2>5. QED
      BY <1>4, <2>2, <2>4 DEF RecordSession, TypeOK, CheckoutRow
  <1>5. ASSUME NEW q \in Request, RecordFailure(q) PROVE TypeOK'
    <2>1. doing' \in [Request -> RequestType]
      BY <1>5, AboutTyped, DoesTyped, HoldsTyped DEF RecordFailure, Ops
    <2>2. QED
      BY <1>5, <1>s, <2>1, StatusTyped DEF CheckoutRow, RecordFailure, FailedStatus, TypeOK
  <1>6. ASSUME NEW q \in Request, ReleaseCoupon(q) PROVE TypeOK'
    <2>1. doing' \in [Request -> RequestType]
      BY <1>6, DoesTyped, HoldsTyped DEF ReleaseCoupon
    <2>2. coupon' \in [Member -> CouponRow]
      <3> DEFINE m == BuyerOf[doing[q].about]
                 row == [[coupon[m] EXCEPT !.status = "RELEASED"] EXCEPT !.until = 0]
      <3>1. m \in Member
        BY <1>6, AboutTyped, PurchasesAssumption DEF ReleaseCoupon
      <3>2. row \in CouponRow
        <4>1. coupon[m] \in CouponRow
          BY <3>1 DEF TypeOK, CouponRow
        <4>2. QED
          BY <4>1, ExpiryTyped, CouponRowTyped
      <3>3. coupon' = coupon \/ coupon' = [coupon EXCEPT ![m] = row]
        BY <1>6, <3>1 DEF ReleaseCoupon, TypeOK
      <3>4. QED
        BY <3>2, <3>3 DEF TypeOK, CouponRow
    <2>3. QED
      BY <1>6, <2>1, <2>2 DEF ReleaseCoupon, TypeOK, CouponRow
  <1>7. ASSUME NEW q \in Request, GiveUp(q) PROVE TypeOK'
    <2>1. doing' \in [Request -> RequestType]
      BY <1>7, DoesTyped, HoldsTyped DEF GiveUp
    <2>2. QED
      BY <1>7, <2>1 DEF GiveUp, TypeOK
  <1>8. ASSUME NEW q \in Request, CommitHearing(q) PROVE TypeOK'
    <2> DEFINE c == doing[q].about
    <2>1. c \in Checkout /\ BuyerOf[c] \in Member
      BY <1>8, AboutTyped, PurchasesAssumption DEF CommitHearing
    <2>2. doing' \in [Request -> RequestType]
      BY <1>8, DoesTyped, HoldsTyped DEF CommitHearing
    <2>3. checkout' \in [Checkout -> CheckoutRow]
      <3> DEFINE row == [[checkout[c] EXCEPT !.status = Verdict(c)] EXCEPT !.completed = TRUE]
      <3>1. checkout[c] \in CheckoutRow
        BY <2>1 DEF TypeOK, CheckoutRow
      <3>2. row \in CheckoutRow
        BY <3>1, VerdictTyped DEF CheckoutRow
      <3>3. checkout' = [checkout EXCEPT ![c] = row]
        BY <1>8, <2>1 DEF CommitHearing, TypeOK
      <3>4. QED
        BY <3>2, <3>3 DEF TypeOK, CheckoutRow
    <2>4. access' \in [Checkout -> {"NONE", "CURRENT", "ENDED"}]
      BY <1>8 DEF CommitHearing, AccessAfter, TypeOK
    <2>5. /\ coupon' \in [Member -> CouponRow]
          /\ late' \subseteq Member
      <3> DEFINE row == [[coupon[BuyerOf[c]] EXCEPT !.status = "REDEEMED"] EXCEPT !.until = 0]
      <3>1. row \in CouponRow
        <4>1. coupon[BuyerOf[c]] \in CouponRow
          BY <2>1 DEF TypeOK, CouponRow
        <4>2. QED
          BY <4>1, ExpiryTyped, CouponRowTyped
      <3>2. coupon' = coupon \/ coupon' = [coupon EXCEPT ![BuyerOf[c]] = row]
        BY <1>8, <2>1 DEF CommitHearing, TypeOK
      <3>3. late' = late \/ late' = late \cup {BuyerOf[c]}
        BY <1>8 DEF CommitHearing
      <3>4. coupon' \in [Member -> CouponRow]
        BY <3>1, <3>2 DEF TypeOK, CouponRow
      <3>5. late' \subseteq Member
        BY <2>1, <3>3 DEF TypeOK
      <3>6. QED
        BY <3>4, <3>5
    <2>6. QED
      BY <1>8, <2>2, <2>3, <2>4, <2>5 DEF CommitHearing, TypeOK, CheckoutRow, CouponRow
  <1>9. ASSUME NEW q \in Request, RefundAtProvider(q) PROVE TypeOK'
    <2>1. doing' \in [Request -> RequestType]
      BY <1>9, AboutTyped, DoesTyped, HoldsTyped DEF RefundAtProvider, Ops
    <2>2. refund' \in [Checkout -> {"NONE", "PENDING", "SUCCEEDED", "SETTLED"}]
      BY <1>9 DEF RefundAtProvider, TypeOK
    <2>3. QED
      BY <1>9, <2>1, <2>2 DEF RefundAtProvider, TypeOK
  <1>10. ASSUME NEW q \in Request, CommitRefund(q) PROVE TypeOK'
    <2>1. doing' \in [Request -> RequestType] /\ doing[q].about \in Checkout
      BY <1>10, AboutTyped, DoesTyped, HoldsTyped DEF CommitRefund
    <2>2. QED
      BY <1>10, <1>s, <2>1, StatusTyped DEF CheckoutRow, CommitRefund, TypeOK
  <1>11. ASSUME NEW q \in Request, CommitGrant(q) PROVE TypeOK'
    <2>1. doing' \in [Request -> RequestType]
      BY <1>11, DoesTyped, HoldsTyped DEF CommitGrant
    <2>2. QED
      BY <1>11, <1>s, <2>1, StatusTyped DEF CheckoutRow, CommitGrant, TypeOK
  <1>12. ASSUME NEW c \in Checkout, Pay(c) PROVE TypeOK'
    BY <1>12 DEF Pay, TypeOK
  <1>13. ASSUME NEW c \in Checkout, SettleRefund(c) \/ EndContract(c) \/ HearEnd(c) PROVE TypeOK'
    BY <1>13 DEF SettleRefund, EndContract, HearEnd, TypeOK
  <1>14. ASSUME NEW c \in Checkout, HearRefund(c) PROVE TypeOK'
    BY <1>14, <1>s, StatusTyped DEF CheckoutRow, HearRefund, TypeOK
  <1>15. ASSUME NEW m \in Member, CloseAccount(m) PROVE TypeOK'
    BY <1>15 DEF CloseAccount, TypeOK
  <1>16. CASE Tick
    BY <1>16, PurchasesAssumption DEF Tick, TypeOK
  <1>17. CASE UNCHANGED vars
    BY <1>17 DEF vars, TypeOK
  <1>18. QED
    BY <1>1, <1>2, <1>3, <1>4, <1>5, <1>6, <1>7, <1>8, <1>9, <1>10, <1>11, <1>12, <1>13, <1>14,
       <1>15, <1>16, <1>17 DEF Next

\* Every variable always holds a value of its type, whatever members buy,
\* whenever payments are heard and administrators act.
THEOREM TypeCorrect == Spec => []TypeOK
  BY TypeInit, TypeStep, PTL DEF Spec

-----------------------------------------------------------------------------
(***************************************************************************)
(* Founders.                                                               *)
(***************************************************************************)

\* What a step may do to the subscriptions: give one to a member who has none,
\* which takes a founder's place if it is one, or end one.
LEMMA AccessStep ==
    ASSUME TypeOK, [Next]_vars
    PROVE  \/ access' = access
           \/ \E c \in Checkout : access[c] = "CURRENT" /\ access' = [access EXCEPT ![c] = "ENDED"]
           \/ \E c \in Checkout : /\ access' = [access EXCEPT ![c] = "CURRENT"]
                                  /\ PlanOf[c] = "FOUNDER" => FoundersLeft
                                  /\ ~Subscribed(BuyerOf[c])
  <1>1. CASE UNCHANGED vars
    BY <1>1 DEF vars, database
  <1>2. ASSUME NEW q \in Request, CommitHearing(q)
        PROVE  \/ access' = access
               \/ \E c \in Checkout : /\ access' = [access EXCEPT ![c] = "CURRENT"]
                                      /\ PlanOf[c] = "FOUNDER" => FoundersLeft
                                      /\ ~Subscribed(BuyerOf[c])
    <2>1. doing[q].about \in Checkout
      BY <1>2, AboutTyped DEF CommitHearing
    <2>2. QED
      BY <1>2, <2>1 DEF CommitHearing, AccessAfter, Verdict
  <1>3. ASSUME NEW q \in Request, CommitGrant(q)
        PROVE  \E c \in Checkout : /\ access' = [access EXCEPT ![c] = "CURRENT"]
                                   /\ PlanOf[c] = "FOUNDER" => FoundersLeft
                                   /\ ~Subscribed(BuyerOf[c])
    <2>1. doing[q].about \in Checkout
      BY <1>3, AboutTyped DEF CommitGrant
    <2>2. QED
      BY <1>3, <2>1 DEF CommitGrant
  <1>4. ASSUME NEW c \in Checkout, HearEnd(c)
        PROVE  access[c] = "CURRENT" /\ access' = [access EXCEPT ![c] = "ENDED"]
    BY <1>4 DEF HearEnd
  <1>5. ASSUME NEW q \in Request, NEW c \in Checkout,
               Reserve(q, c) \/ BeginHearing(q, c) \/ BeginRefund(q, c) \/ BeginGrant(q, c)
        PROVE  access' = access
    BY <1>5 DEF Reserve, BeginHearing, BeginRefund, BeginGrant, database
  <1>6. ASSUME NEW q \in Request,
               \/ OpenSession(q) \/ FailToOpen(q) \/ RecordSession(q) \/ RecordFailure(q)
               \/ ReleaseCoupon(q) \/ RefundAtProvider(q) \/ CommitRefund(q) \/ GiveUp(q)
        PROVE  access' = access
    BY <1>6 DEF OpenSession, FailToOpen, RecordSession, RecordFailure, ReleaseCoupon,
                RefundAtProvider, CommitRefund, GiveUp, database
  <1>7. ASSUME NEW c \in Checkout, Pay(c) \/ SettleRefund(c) \/ HearRefund(c) \/ EndContract(c)
        PROVE  access' = access
    BY <1>7 DEF Pay, SettleRefund, HearRefund, EndContract, database
  <1>8. ASSUME NEW m \in Member, CloseAccount(m) PROVE access' = access
    BY <1>8 DEF CloseAccount
  <1>9. CASE Tick
    BY <1>9 DEF Tick, database
  <1>10. QED
    BY <1>1, <1>2, <1>3, <1>4, <1>5, <1>6, <1>7, <1>8, <1>9 DEF Next

\* Every step keeps the number of founders' subscriptions within the limit.
LEMMA FoundersStep == TypeOK /\ FoundersWithinLimit /\ [Next]_vars => FoundersWithinLimit'
  <1> SUFFICES ASSUME TypeOK, FoundersWithinLimit, [Next]_vars PROVE FoundersWithinLimit'
    OBVIOUS
  <1> DEFINE Sold == {c \in Checkout : PlanOf[c] = "FOUNDER" /\ access[c] # "NONE"}
  <1>1. IsFiniteSet(Sold) /\ Cardinality(Sold) \in Nat /\ FoundersSold = Cardinality(Sold)
    BY PurchasesAssumption, FS_Subset, FS_CardinalityType DEF FoundersSold
  <1>2. FoundersSold' = Cardinality(Sold')
    BY DEF FoundersSold
  <1>3. Sold' = Sold \/ \E c \in Checkout : Sold' = Sold \cup {c} /\ FoundersLeft
    <2>1. CASE access' = access
      BY <2>1
    <2>2. CASE \E c \in Checkout : access[c] = "CURRENT" /\ access' = [access EXCEPT ![c] = "ENDED"]
      BY <2>2 DEF TypeOK
    <2>3. CASE \E c \in Checkout : /\ access' = [access EXCEPT ![c] = "CURRENT"]
                                   /\ PlanOf[c] = "FOUNDER" => FoundersLeft
      <3>1. PICK c \in Checkout : /\ access' = [access EXCEPT ![c] = "CURRENT"]
                                  /\ PlanOf[c] = "FOUNDER" => FoundersLeft
        BY <2>3
      <3>2. \A d \in Checkout : access'[d] = IF d = c THEN "CURRENT" ELSE access[d]
        BY <3>1 DEF TypeOK
      <3>3. CASE PlanOf[c] = "FOUNDER"
        <4>1. Sold' = Sold \cup {c}
          BY <3>2, <3>3
        <4>2. FoundersLeft
          BY <3>1, <3>3
        <4> HIDE DEF Sold
        <4>3. QED
          BY <4>1, <4>2
      <3>4. CASE PlanOf[c] # "FOUNDER"
        <4>1. Sold' = Sold
          BY <3>2, <3>4
        <4> HIDE DEF Sold
        <4>2. QED
          BY <4>1
      <3>5. QED
        BY <3>3, <3>4
    <2>4. QED
      BY <2>1, <2>2, <2>3, AccessStep
  <1> HIDE DEF Sold
  <1>4. CASE Sold' = Sold
    BY <1>2, <1>1, <1>4 DEF FoundersWithinLimit
  <1>5. ASSUME NEW c \in Checkout, Sold' = Sold \cup {c}, FoundersLeft PROVE FoundersWithinLimit'
    <2>1. Cardinality(Sold \cup {c}) <= Cardinality(Sold) + 1
      BY <1>1, FS_AddElement
    <2>2. Cardinality(Sold \cup {c}) \in Nat
      BY <1>1, FS_AddElement, FS_CardinalityType
    <2>3. QED
      BY <1>1, <1>2, <1>5, <2>1, <2>2, PurchasesAssumption DEF FoundersWithinLimit, FoundersLeft
  <1>6. QED
    BY <1>3, <1>4, <1>5

\* There are never more founders than places, whatever number of requests
\* and administrators sell and grant them at a time.
THEOREM FoundersWithinLimitCorrect == Spec => []FoundersWithinLimit
  <1>1. Init => FoundersWithinLimit
    <2> SUFFICES ASSUME Init PROVE FoundersWithinLimit
      OBVIOUS
    <2>1. {c \in Checkout : PlanOf[c] = "FOUNDER" /\ access[c] # "NONE"} = {}
      BY DEF Init
    <2>2. QED
      BY <2>1, FS_EmptySet, PurchasesAssumption DEF FoundersWithinLimit, FoundersSold
  <1>2. QED
    BY <1>1, TypeInit, TypeStep, FoundersStep, PTL DEF Spec

-----------------------------------------------------------------------------
(***************************************************************************)
(* Payments that were heard.                                               *)
(***************************************************************************)

\* The statuses of a checkout no payment was heard of.
Unheard == {"NONE", "INITIATED", "OPEN", "FAILED"}

\* A refund was decided: it is recorded, at the provider or on its way there.
Refunding(c) ==
    \/ refund[c] # "NONE" \/ c \in refunds
    \/ \E q \in Request : doing[q].op \in {"refunding", "refunded"} /\ doing[q].about = c

\* HeardIsSettled, for one checkout.
Settled(c) ==
    LET status == checkout[c].status
    IN  checkout[c].completed /\ status # "OPEN" =>
            /\ status \in Granted <=> access[c] # "NONE"
            /\ status = "REVIEW_REFUNDED" <=> c \in refunds
            /\ status \in Granted \cup ReviewStates \cup {"REVIEW_REFUNDED"}

\* Who pays knows the session, so that it is recorded and the row is not
\* reserved again; and once a refund is decided, the status never comes back
\* to one an administrator may grant.
PaymentInv(c) ==
    /\ session[c].state = "PAID" => checkout[c].recorded
    /\ checkout[c].completed => checkout[c].recorded
    /\ ~checkout[c].completed => checkout[c].status \in Unheard /\ access[c] = "NONE" /\ ~Refunding(c)
    /\ Refunding(c) => /\ access[c] = "NONE"
                       /\ checkout[c].status \in {"REVIEW_REFUNDING", "REVIEW_REFUNDED", "OPEN"}
    /\ \A q \in Request : doing[q].op = "hearing" /\ doing[q].about = c =>
         /\ session[c].state = "PAID" /\ ~checkout[c].completed
         /\ \A p \in Request : doing[p].op = "hearing" /\ doing[p].about = c => p = q
    /\ Settled(c)

SettleInv == \A c \in Checkout : PaymentInv(c)

\* A step that changes nothing the invariant reads of a checkout.
Alike(c) ==
    /\ checkout'[c] = checkout[c]
    /\ access'[c] = "NONE" <=> access[c] = "NONE"
    /\ c \in refunds' <=> c \in refunds
    /\ session'[c].state = "PAID" <=> session[c].state = "PAID"
    /\ refund'[c] = "NONE" <=> refund[c] = "NONE"
    /\ \A q \in Request :
         doing'[q].op \in {"hearing", "refunding", "refunded"} /\ doing'[q].about = c =>
            doing'[q] = doing[q]

LEMMA AlikeKeeps ==
    ASSUME NEW c \in Checkout, PaymentInv(c), Alike(c)
    PROVE  PaymentInv(c)'
  <1>1. Refunding(c)' => Refunding(c)
    BY DEF Alike, Refunding
  <1>2. Settled(c)'
    BY DEF PaymentInv, Settled, Alike
  <1>3. QED
    BY <1>1, <1>2 DEF PaymentInv, Alike

\* What a step of a request leaves of the requests.
LEMMA HoldsValue ==
    ASSUME TypeOK, NEW q \in Request, NEW t, Holds(q, t)
    PROVE  \A p \in Request : doing'[p] = IF p = q THEN t ELSE doing[p]
  BY DEF TypeOK, Holds

\* What a change of status leaves of the checkouts.
LEMMA StatusValue ==
    ASSUME TypeOK, NEW c \in Checkout, NEW s
    PROVE  \A d \in Checkout :
             WithStatus(c, s)[d] = IF d = c THEN [checkout[c] EXCEPT !.status = s] ELSE checkout[d]
  BY DEF TypeOK, WithStatus

\* Steps that leave every checkout as it is, as far as the invariant goes.
LEMMA QuietStep ==
    ASSUME TypeOK, [Next]_vars,
           NEW d \in Checkout,
           \/ \E q \in Request : \/ OpenSession(q) \/ FailToOpen(q) \/ ReleaseCoupon(q) \/ GiveUp(q)
                               \/ \E c \in Checkout : BeginGrant(q, c)
           \/ \E c \in Checkout : SettleRefund(c) \/ EndContract(c) \/ HearEnd(c)
           \/ \E m \in Member : CloseAccount(m)
           \/ Tick
           \/ UNCHANGED vars
    PROVE  Alike(d)
  <1> USE DEF database, provider
  <1>1. ASSUME NEW q \in Request, OpenSession(q) PROVE Alike(d)
    <2>1. doing[q].about \in Checkout
      BY <1>1, AboutTyped DEF OpenSession
    <2>2. session'[d].state = "PAID" <=> session[d].state = "PAID"
      BY <1>1, <2>1 DEF OpenSession, TypeOK
    <2>3. PICK t : Holds(q, t) /\ t.op \in {"opened", "failed"}
      BY <1>1 DEF OpenSession, Does
    <2>4. QED
      BY <1>1, <2>2, <2>3, HoldsValue DEF OpenSession, Alike
  <1>2. ASSUME NEW q \in Request, FailToOpen(q) \/ ReleaseCoupon(q) \/ GiveUp(q) PROVE Alike(d)
    <2>1. Holds(q, Does("failed", doing[q].about, FALSE)) \/ Holds(q, Idle)
      BY <1>2 DEF FailToOpen, ReleaseCoupon, GiveUp
    <2>2. \A p \in Request : doing'[p] = doing[p] \/ doing'[p].op \in {"failed", "idle"}
      BY <2>1, HoldsValue DEF Does, Idle
    <2>3. QED
      BY <1>2, <2>2 DEF FailToOpen, ReleaseCoupon, GiveUp, Alike
  <1>3. ASSUME NEW q \in Request, NEW c \in Checkout, BeginGrant(q, c) PROVE Alike(d)
    <2>1. PICK t : Holds(q, t) /\ t.op = "granting"
      BY <1>3 DEF BeginGrant, Does
    <2>2. QED
      BY <1>3, <2>1, HoldsValue DEF BeginGrant, Alike
  <1>4. ASSUME NEW c \in Checkout, SettleRefund(c) PROVE Alike(d)
    BY <1>4 DEF SettleRefund, Alike, TypeOK
  <1>5. ASSUME NEW c \in Checkout, EndContract(c) PROVE Alike(d)
    BY <1>5 DEF EndContract, Alike
  <1>6. ASSUME NEW c \in Checkout, HearEnd(c) PROVE Alike(d)
    BY <1>6 DEF HearEnd, Alike, TypeOK
  <1>7. ASSUME NEW m \in Member, CloseAccount(m) PROVE Alike(d)
    BY <1>7 DEF CloseAccount, Alike
  <1>8. CASE Tick
    BY <1>8 DEF Tick, Alike
  <1>9. CASE UNCHANGED vars
    BY <1>9 DEF vars, Alike
  <1>10. QED
    BY <1>1, <1>2, <1>3, <1>4, <1>5, <1>6, <1>7, <1>8, <1>9

\* Every step keeps what is known of a payment.
LEMMA PaymentStep ==
    ASSUME TypeOK, SettleInv, [Next]_vars, NEW d \in Checkout
    PROVE  PaymentInv(d)'
  <1> USE DEF database, provider
  <1>0. PaymentInv(d)
    BY DEF SettleInv
  <1>a. Alike(d) => PaymentInv(d)'
    BY <1>0, AlikeKeeps
  <1>1. ASSUME NEW q \in Request, NEW c \in Checkout, Reserve(q, c) PROVE PaymentInv(d)'
    <2>1. \A p \in Request : doing'[p] = IF p = q THEN Does("opening", c, FALSE) ELSE doing[p]
      BY <1>1, HoldsValue DEF Reserve
    <2>2. CASE d = c
      <3>1. ~checkout[d].recorded /\ ~checkout[d].completed /\ session[d].state # "PAID"
        BY <1>1, <1>0, <2>2 DEF Reserve, PaymentInv, TypeOK
      <3>2. /\ checkout'[d].status = "INITIATED"
            /\ checkout'[d].recorded = checkout[d].recorded
            /\ checkout'[d].completed = checkout[d].completed
        BY <1>1, <2>2 DEF Reserve, TypeOK
      <3>3. access' = access /\ refunds' = refunds /\ session' = session /\ refund' = refund
        BY <1>1 DEF Reserve
      <3>4. ~Refunding(d)'
        BY <1>0, <2>1, <3>1, <3>3 DEF PaymentInv, Refunding, Does
      <3>5. QED
        BY <1>0, <2>1, <3>1, <3>2, <3>3, <3>4 DEF PaymentInv, Settled, Unheard, Does
    <2>3. CASE d # c
      BY <1>1, <1>a, <2>1, <2>3 DEF Reserve, Alike, Does, TypeOK
    <2>4. QED
      BY <2>2, <2>3
  <1>2. ASSUME NEW q \in Request, RecordSession(q) PROVE PaymentInv(d)'
    <2> DEFINE c == doing[q].about
    <2>1. \A p \in Request : doing'[p] = IF p = q THEN Idle ELSE doing[p]
      BY <1>2, HoldsValue DEF RecordSession
    <2>2. CASE d = c
      <3>1. /\ checkout'[d].status = "OPEN" /\ checkout'[d].recorded
            /\ checkout'[d].completed = checkout[d].completed
        BY <1>2, <2>2 DEF RecordSession, TypeOK
      <3>2. access' = access /\ refunds' = refunds /\ session' = session /\ refund' = refund
        BY <1>2 DEF RecordSession
      <3>3. Refunding(d)' => Refunding(d)
        BY <2>1, <3>2 DEF Refunding, Idle, Does
      <3>4. QED
        BY <1>0, <2>1, <3>1, <3>2, <3>3 DEF PaymentInv, Settled, Unheard, Idle, Does
    <2>3. CASE d # c
      BY <1>2, <1>a, <2>1, <2>3 DEF RecordSession, Alike, Idle, Does, TypeOK
    <2>4. QED
      BY <2>2, <2>3
  <1>3. ASSUME NEW q \in Request, RecordFailure(q) PROVE PaymentInv(d)'
    <2> DEFINE c == doing[q].about
    <2>1. \A p \in Request : doing'[p] = IF p = q THEN Does("releasing", c, FALSE) ELSE doing[p]
      BY <1>3, HoldsValue DEF RecordFailure
    <2>2. access' = access /\ refunds' = refunds /\ session' = session /\ refund' = refund
      BY <1>3 DEF RecordFailure
    <2>3. CASE checkout' = checkout
      BY <1>a, <2>1, <2>2, <2>3 DEF Alike, Does
    <2>4. CASE d = c /\ checkout[c].status = "INITIATED"
      <3>1. ~checkout[d].completed
        BY <1>0, <2>4 DEF PaymentInv, Settled, Granted, ReviewStates, Rejected
      <3>2. /\ checkout'[d].status = "FAILED" /\ checkout'[d].recorded = checkout[d].recorded
            /\ checkout'[d].completed = checkout[d].completed
        <4>1. checkout'[d] = [checkout[d] EXCEPT !.status = FailedStatus]
          <5>1. checkout' = WithStatus(c, FailedStatus)
            BY <1>3, <2>4 DEF RecordFailure
          <5>2. QED
            BY <2>4, <5>1, StatusValue
        <4>2. QED
          BY <4>1 DEF FailedStatus, TypeOK
      <3>3. Refunding(d)' => Refunding(d)
        BY <2>1, <2>2 DEF Refunding, Does
      <3>4. QED
        BY <1>0, <2>1, <2>2, <3>1, <3>2, <3>3 DEF PaymentInv, Settled, Unheard, Does
    <2>5. CASE d # c /\ checkout[c].status = "INITIATED"
      <3>1. c \in Checkout
        BY <1>3, AboutTyped DEF RecordFailure
      <3>2. checkout'[d] = checkout[d]
        <4>1. WithStatus(c, FailedStatus)[d] = checkout[d]
          BY <2>5, <3>1 DEF WithStatus, TypeOK
        <4>2. checkout' = WithStatus(c, FailedStatus)
          BY <1>3, <2>5 DEF RecordFailure
        <4>3. QED
          BY <4>1, <4>2
      <3>3. QED
        BY <1>a, <2>1, <2>2, <3>2 DEF Alike, Does
    <2>6. QED
      BY <1>3, <2>3, <2>4, <2>5 DEF RecordFailure
  <1>4. ASSUME NEW c \in Checkout, Pay(c) PROVE PaymentInv(d)'
    <2>1. /\ checkout' = checkout /\ access' = access /\ refunds' = refunds /\ refund' = refund
          /\ doing' = doing
      BY <1>4 DEF Pay
    <2>2. CASE d = c
      <3>1. checkout[d].recorded /\ session'[d].state = "PAID"
        BY <1>4, <2>2 DEF Pay, TypeOK
      <3>2. Refunding(d)' => Refunding(d)
        BY <2>1 DEF Refunding
      <3>3. QED
        BY <1>0, <2>1, <3>1, <3>2 DEF PaymentInv, Settled
    <2>3. CASE d # c
      BY <1>4, <1>a, <2>1, <2>3 DEF Pay, Alike, TypeOK
    <2>4. QED
      BY <2>2, <2>3
  <1>5. ASSUME NEW q \in Request, NEW c \in Checkout, BeginHearing(q, c) PROVE PaymentInv(d)'
    <2>1. /\ checkout' = checkout /\ access' = access /\ refunds' = refunds /\ refund' = refund
          /\ session' = session
      BY <1>5 DEF BeginHearing
    <2>2. PICK t : Holds(q, t) /\ t.op = "hearing" /\ t.about = c
      BY <1>5 DEF BeginHearing, Does
    <2>3. \A p \in Request : doing'[p] = IF p = q THEN t ELSE doing[p]
      BY <2>2, HoldsValue
    <2>4. CASE d = c
      <3>1. \A p \in Request : doing[p].op = "hearing" => doing[p].about # d
        BY <1>5, <2>4 DEF BeginHearing
      <3>2. session[d].state = "PAID" /\ ~checkout[d].completed
        BY <1>5, <2>4 DEF BeginHearing
      <3>3. \A p \in Request : doing'[p].op = "hearing" /\ doing'[p].about = d => p = q
        BY <2>3, <3>1
      <3>4. Refunding(d)' => Refunding(d)
        BY <2>1, <2>2, <2>3 DEF Refunding
      <3>5. QED
        BY <1>0, <2>1, <3>2, <3>3, <3>4 DEF PaymentInv, Settled
    <2>5. CASE d # c
      BY <1>a, <2>1, <2>2, <2>3, <2>5 DEF Alike
    <2>6. QED
      BY <2>4, <2>5
  <1>6. ASSUME NEW q \in Request, CommitHearing(q) PROVE PaymentInv(d)'
    <2> DEFINE c == doing[q].about
    <2>1. \A p \in Request : doing'[p] = IF p = q THEN Idle ELSE doing[p]
      BY <1>6, HoldsValue DEF CommitHearing
    <2>2. refunds' = refunds /\ session' = session /\ refund' = refund
      BY <1>6 DEF CommitHearing
    <2>3. c \in Checkout /\ doing[q].op = "hearing"
      BY <1>6, AboutTyped DEF CommitHearing
    <2>4. CASE d = c
      <3>1. /\ checkout[d].recorded /\ access[d] = "NONE" /\ ~Refunding(d)
            /\ \A p \in Request : doing[p].op = "hearing" /\ doing[p].about = d => p = q
        BY <1>0, <2>3, <2>4 DEF PaymentInv
      <3>2. /\ checkout'[d].status = Verdict(d) /\ checkout'[d].completed
            /\ checkout'[d].recorded = checkout[d].recorded
        BY <1>6, <2>3, <2>4 DEF CommitHearing, TypeOK
      <3>3. access'[d] # "NONE" <=> Verdict(d) = "COMPLETED"
        <4>1. CASE Verdict(d) = "COMPLETED"
          BY <1>6, <2>4, <4>1 DEF CommitHearing, AccessAfter, TypeOK
        <4>2. CASE Verdict(d) # "COMPLETED"
          BY <1>6, <2>4, <3>1, <4>2 DEF CommitHearing, AccessAfter
        <4>3. QED
          BY <4>1, <4>2
      <3>4. ~Refunding(d)' /\ d \notin refunds'
        BY <2>1, <2>2, <3>1 DEF Refunding, Idle, Does
      <3>5. \A p \in Request : ~(doing'[p].op = "hearing" /\ doing'[p].about = d)
        BY <2>1, <3>1 DEF Idle, Does
      <3>6. Settled(d)'
        BY VerdictTyped, <3>2, <3>3, <3>4 DEF Settled, Rejected, Granted, ReviewStates
      <3>7. QED
        BY <3>1, <3>2, <3>4, <3>5, <3>6 DEF PaymentInv
    <2>5. CASE d # c
      <3>1. checkout'[d] = checkout[d] /\ access'[d] = access[d]
        BY <1>6, <2>3, <2>5 DEF CommitHearing, AccessAfter, TypeOK
      <3>2. QED
        BY <1>a, <2>1, <2>2, <3>1 DEF Alike, Idle, Does
    <2>6. QED
      BY <2>4, <2>5
  <1>7. ASSUME NEW q \in Request, NEW c \in Checkout, BeginRefund(q, c) PROVE PaymentInv(d)'
    <2>1. \A p \in Request : doing'[p] = IF p = q THEN Does("refunding", c, FALSE) ELSE doing[p]
      BY <1>7, HoldsValue DEF BeginRefund
    <2>2. access' = access /\ refunds' = refunds /\ session' = session /\ refund' = refund
      BY <1>7 DEF BeginRefund
    <2>3. \A e \in Checkout : checkout'[e] = IF e = c THEN [checkout[c] EXCEPT !.status = "REVIEW_REFUNDING"]
                                                    ELSE checkout[e]
      BY <1>7, StatusValue DEF BeginRefund
    <2>4. CASE d = c
      <3>1. checkout[d].completed /\ checkout[d].status \in ReviewStates
        BY <1>7, <2>4 DEF BeginRefund
      <3>2. access[d] = "NONE" /\ d \notin refunds
        BY <1>0, <3>1 DEF PaymentInv, Settled, ReviewStates, Rejected, Granted
      <3>3. /\ checkout'[d].status = "REVIEW_REFUNDING" /\ checkout'[d].completed
            /\ checkout'[d].recorded = checkout[d].recorded
        BY <2>3, <2>4, <3>1 DEF TypeOK
      <3>4. QED
        BY <1>0, <2>1, <2>2, <3>1, <3>2, <3>3
        DEF PaymentInv, Settled, ReviewStates, Rejected, Granted, Does
    <2>5. CASE d # c
      BY <1>a, <2>1, <2>2, <2>3, <2>5 DEF Alike, Does
    <2>6. QED
      BY <2>4, <2>5
  <1>8. ASSUME NEW q \in Request, RefundAtProvider(q) PROVE PaymentInv(d)'
    <2> DEFINE c == doing[q].about
    <2>1. /\ checkout' = checkout /\ access' = access /\ refunds' = refunds /\ session' = session
      BY <1>8 DEF RefundAtProvider
    <2>2. Holds(q, Does("refunded", c, FALSE)) \/ Holds(q, Idle)
      BY <1>8 DEF RefundAtProvider
    <2>3. \A p \in Request :
             \/ doing'[p] = doing[p]
             \/ doing'[p].op = "idle"
             \/ doing'[p].op = "refunded" /\ doing'[p].about = c
      <3>1. CASE Holds(q, Does("refunded", c, FALSE))
        <4>1. \A p \in Request : doing'[p] = IF p = q THEN Does("refunded", c, FALSE) ELSE doing[p]
          BY <3>1, HoldsValue
        <4>2. QED
          BY <4>1 DEF Does
      <3>2. CASE Holds(q, Idle)
        <4>1. \A p \in Request : doing'[p] = IF p = q THEN Idle ELSE doing[p]
          BY <3>2, HoldsValue
        <4>2. QED
          BY <4>1 DEF Does, Idle
      <3>3. QED
        BY <2>2, <3>1, <3>2
    <2>4. c \in Checkout /\ doing[q].op = "refunding"
      BY <1>8, AboutTyped DEF RefundAtProvider
    <2>5. CASE d = c
      <3>1. Refunding(d)
        BY <2>4, <2>5 DEF Refunding
      <3>2. QED
        BY <1>0, <2>1, <2>3, <3>1 DEF PaymentInv, Settled
    <2>6. CASE d # c
      <3>1. refund'[d] = refund[d]
        BY <1>8, <2>4, <2>6 DEF RefundAtProvider, TypeOK
      <3>2. QED
        BY <1>a, <2>1, <2>3, <2>6, <3>1 DEF Alike
    <2>7. QED
      BY <2>5, <2>6
  <1>9. ASSUME NEW q \in Request, CommitRefund(q) PROVE PaymentInv(d)'
    <2> DEFINE c == doing[q].about
    <2>1. \A p \in Request : doing'[p] = IF p = q THEN Idle ELSE doing[p]
      BY <1>9, HoldsValue DEF CommitRefund
    <2>2. access' = access /\ refunds' = refunds \cup {c} /\ session' = session /\ refund' = refund
      BY <1>9 DEF CommitRefund
    <2>3. c \in Checkout /\ doing[q].op = "refunded"
      BY <1>9, AboutTyped DEF CommitRefund
    <2>4. \A e \in Checkout : checkout'[e] = IF e = c THEN [checkout[c] EXCEPT !.status = "REVIEW_REFUNDED"]
                                                    ELSE checkout[e]
      BY <1>9, <2>3, StatusValue DEF CommitRefund
    <2>5. CASE d = c
      <3>1. Refunding(d)
        BY <2>3, <2>5 DEF Refunding
      <3>2. checkout[d].completed /\ access[d] = "NONE"
        BY <1>0, <3>1 DEF PaymentInv
      <3>3. /\ checkout'[d].status = "REVIEW_REFUNDED" /\ checkout'[d].completed
            /\ checkout'[d].recorded = checkout[d].recorded
        BY <2>4, <2>5, <3>2 DEF TypeOK
      <3>4. QED
        BY <1>0, <2>1, <2>2, <2>5, <3>2, <3>3
        DEF PaymentInv, Settled, ReviewStates, Rejected, Granted, Idle, Does
    <2>6. CASE d # c
      BY <1>a, <2>1, <2>2, <2>4, <2>6 DEF Alike, Idle, Does
    <2>7. QED
      BY <2>5, <2>6
  <1>10. ASSUME NEW c \in Checkout, HearRefund(c) PROVE PaymentInv(d)'
    <2>1. /\ access' = access /\ refunds' = refunds \cup {c} /\ session' = session
          /\ refund' = refund /\ doing' = doing
      BY <1>10 DEF HearRefund
    <2>2. CASE d = c
      <3>1. refund[d] # "NONE"
        BY <1>10, <2>2 DEF HearRefund
      <3>2. /\ Refunding(d) /\ checkout[d].completed /\ access[d] = "NONE" /\ checkout[d].recorded
            /\ checkout[d].status \in {"REVIEW_REFUNDING", "REVIEW_REFUNDED", "OPEN"}
        BY <1>0, <3>1 DEF PaymentInv, Refunding
      <3>3. /\ checkout'[d].completed /\ checkout'[d].recorded
            /\ checkout'[d].status \in {"REVIEW_REFUNDED", "OPEN"}
        <4>1. CASE checkout[d].status = "REVIEW_REFUNDING"
          <5>1. checkout' = WithStatus(c, "REVIEW_REFUNDED")
            BY <1>10, <2>2, <4>1 DEF HearRefund, ClosedByRefund, ReviewStates
          <5>2. checkout'[d] = [checkout[d] EXCEPT !.status = "REVIEW_REFUNDED"]
            BY <2>2, <5>1, StatusValue
          <5>3. QED
            BY <3>2, <5>2 DEF TypeOK
        <4>2. CASE checkout[d].status # "REVIEW_REFUNDING"
          BY <1>10, <2>2, <3>2, <4>2 DEF HearRefund, ClosedByRefund, ReviewStates, Rejected
        <4>3. QED
          BY <4>1, <4>2
      <3>4. QED
        BY <1>0, <2>1, <2>2, <3>2, <3>3 DEF PaymentInv, Settled, ReviewStates, Rejected, Granted
    <2>3. CASE d # c
      <3>1. checkout'[d] = checkout[d]
        <4>1. WithStatus(c, "REVIEW_REFUNDED")[d] = checkout[d]
          BY <2>3 DEF WithStatus, TypeOK
        <4>2. checkout' = checkout \/ checkout' = WithStatus(c, "REVIEW_REFUNDED")
          BY <1>10 DEF HearRefund
        <4>3. QED
          BY <4>1, <4>2
      <3>2. QED
        BY <1>a, <2>1, <2>3, <3>1 DEF Alike
    <2>4. QED
      BY <2>2, <2>3
  <1>11. ASSUME NEW q \in Request, CommitGrant(q) PROVE PaymentInv(d)'
    <2> DEFINE c == doing[q].about
    <2>1. \A p \in Request : doing'[p] = IF p = q THEN Idle ELSE doing[p]
      BY <1>11, HoldsValue DEF CommitGrant
    <2>2. refunds' = refunds /\ session' = session /\ refund' = refund
      BY <1>11 DEF CommitGrant
    <2>3. c \in Checkout /\ checkout[c].status \in Rejected
      BY <1>11, AboutTyped DEF CommitGrant, Grantable
    <2>4. /\ access'[c] = "CURRENT" /\ \A e \in Checkout : e # c => access'[e] = access[e]
          /\ \A e \in Checkout : checkout'[e] =
               IF e = c THEN [checkout[c] EXCEPT !.status = "REVIEW_ACCESS_GRANTED"] ELSE checkout[e]
      BY <1>11, <2>3, StatusValue DEF CommitGrant, TypeOK
    <2>5. CASE d = c
      <3>1. checkout[d].completed /\ ~Refunding(d)
        BY <1>0, <2>3, <2>5 DEF PaymentInv, Unheard, Rejected
      <3>2. /\ checkout'[d].status = "REVIEW_ACCESS_GRANTED" /\ checkout'[d].completed
            /\ checkout'[d].recorded = checkout[d].recorded
        BY <2>3, <2>4, <2>5, <3>1 DEF TypeOK
      <3>3. ~Refunding(d)' /\ d \notin refunds'
        BY <2>1, <2>2, <3>1 DEF Refunding, Idle, Does
      <3>4. QED
        BY <1>0, <2>1, <2>2, <2>4, <2>5, <3>1, <3>2, <3>3
        DEF PaymentInv, Settled, ReviewStates, Rejected, Granted, Idle, Does
    <2>6. CASE d # c
      BY <1>a, <2>1, <2>2, <2>4, <2>6 DEF Alike, Idle, Does
    <2>7. QED
      BY <2>5, <2>6
  <1>12. QED
    BY <1>1, <1>2, <1>3, <1>4, <1>5, <1>6, <1>7, <1>8, <1>9, <1>10, <1>11, <1>a, QuietStep DEF Next

\* Payments are settled in every reachable state.
THEOREM SettleInvCorrect == Spec => [](TypeOK /\ SettleInv)
  <1>1. Init => SettleInv
    BY DEF Init, SettleInv, PaymentInv, Settled, Refunding, Unheard, Idle, Does
  <1>2. TypeOK /\ SettleInv /\ [Next]_vars => SettleInv'
    BY PaymentStep DEF SettleInv
  <1>3. QED
    BY <1>1, <1>2, TypeInit, TypeStep, PTL DEF Spec

\* What happened to a payment that was heard is what its checkout says.
THEOREM HeardIsSettledCorrect == Spec => []HeardIsSettled
  <1>1. SettleInv => HeardIsSettled
    BY DEF SettleInv, PaymentInv, Settled, HeardIsSettled
  <1>2. QED
    BY <1>1, SettleInvCorrect, PTL

\* No payment is refunded that gave access, nor gives access a refunded one,
\* however the requests of administrators and the provider's events interleave.
THEOREM GrantedOrRefundedCorrect == Spec => []GrantedOrRefunded
  <1>1. SettleInv => GrantedOrRefunded
    BY DEF SettleInv, PaymentInv, Refunding, GrantedOrRefunded
  <1>2. QED
    BY <1>1, SettleInvCorrect, PTL

-----------------------------------------------------------------------------
(***************************************************************************)
(* The coupon.                                                             *)
(***************************************************************************)

\* Who is counted as late has redeemed the coupon, so that nobody is counted
\* as late twice.
LateRedeemed == \A m \in late : coupon[m].status = "REDEEMED"

\* What a step may do to the uses of the coupon: lose some, reserve one within
\* the limit, or redeem one, which is late unless it was reserved.
LEMMA CouponStep ==
    ASSUME TypeOK, LateRedeemed, [Next]_vars
    PROVE  /\ LateRedeemed'
           /\ \/ Users' \subseteq Users /\ late \subseteq late'
              \/ \E m \in Member :
                   Users' \subseteq Users \cup {m} /\ late' = late /\ Cardinality(Users \ {m}) < MaxRedemptions
              \/ \E m \in Member \ late : Users' \subseteq Users \cup {m} /\ late' = late \cup {m}
  <1> DEFINE Goal ==
        /\ LateRedeemed'
        /\ \/ Users' \subseteq Users /\ late \subseteq late'
           \/ \E m \in Member :
                Users' \subseteq Users \cup {m} /\ late' = late /\ Cardinality(Users \ {m}) < MaxRedemptions
           \/ \E m \in Member \ late : Users' \subseteq Users \cup {m} /\ late' = late \cup {m}
  <1>1. CASE coupon' = coupon /\ late' = late /\ (now' = now \/ now' = now + 1)
    <2>1. Users' \subseteq Users
      BY <1>1 DEF Users, Reserved, TypeOK, Time
    <2>2. QED
      BY <1>1, <2>1 DEF LateRedeemed
  <1>2. ASSUME NEW q \in Request, NEW c \in Checkout, Reserve(q, c) PROVE Goal
    <2> DEFINE m == BuyerOf[c]
    <2>1. CASE c \notin WithCoupon
      BY <1>1, <1>2, <2>1 DEF Reserve
    <2>2. CASE c \in WithCoupon
      <3>1. m \in Member /\ m \notin Users /\ Cardinality(Users \ {m}) < MaxRedemptions
        BY <1>2, <2>2, PurchasesAssumption DEF Reserve, CouponAvailable
      <3>2. late' = late /\ now' = now /\ \A n \in Member \ {m} : coupon'[n] = coupon[n]
        BY <1>2, <2>2 DEF Reserve, TypeOK
      <3>3. Users' \subseteq Users \cup {m}
        BY <3>2 DEF Users, Reserved
      <3>4. m \notin late
        BY <3>1 DEF LateRedeemed, Users
      <3>5. LateRedeemed'
        BY <3>2, <3>4 DEF LateRedeemed, TypeOK
      <3>6. QED
        BY <3>1, <3>2, <3>3, <3>5
    <2>3. QED
      BY <2>1, <2>2
  <1>3. ASSUME NEW q \in Request, ReleaseCoupon(q) PROVE Goal
    <2> DEFINE m == BuyerOf[doing[q].about]
    <2>1. late' = late /\ now' = now
      BY <1>3 DEF ReleaseCoupon
    <2>2. CASE coupon' = coupon
      BY <1>1, <2>1, <2>2
    <2>3. CASE coupon[m].status = "RESERVED"
               /\ coupon' = [coupon EXCEPT ![m].status = "RELEASED", ![m].until = 0]
      <3>1. m \in Member
        BY <1>3, AboutTyped, PurchasesAssumption DEF ReleaseCoupon
      <3>2. coupon'[m].status = "RELEASED" /\ \A n \in Member \ {m} : coupon'[n] = coupon[n]
        BY <2>3, <3>1 DEF TypeOK
      <3>3. Users' \subseteq Users
        BY <2>1, <3>2 DEF Users, Reserved
      <3>4. LateRedeemed'
        BY <2>1, <2>3, <3>2 DEF LateRedeemed, TypeOK
      <3>5. QED
        BY <2>1, <3>3, <3>4
    <2>4. QED
      BY <1>3, <2>2, <2>3 DEF ReleaseCoupon
  <1>4. ASSUME NEW q \in Request, CommitHearing(q) PROVE Goal
    <2> DEFINE m == BuyerOf[doing[q].about]
    <2>1. m \in Member /\ now' = now
      BY <1>4, AboutTyped, PurchasesAssumption DEF CommitHearing
    <2>2. CASE ~doing[q].fact
      BY <1>1, <1>4, <2>1, <2>2 DEF CommitHearing
    <2>3. CASE doing[q].fact
      <3>1. coupon'[m].status = "REDEEMED" /\ \A n \in Member \ {m} : coupon'[n] = coupon[n]
        BY <1>4, <2>1, <2>3 DEF CommitHearing, TypeOK
      <3>2. late' = IF Reserved(m) THEN late ELSE late \cup {m}
        BY <1>4, <2>3 DEF CommitHearing
      <3>3. LateRedeemed'
        BY <3>1, <3>2 DEF LateRedeemed, TypeOK
      <3>4. Users' \subseteq Users \cup {m}
        BY <2>1, <3>1 DEF Users, Reserved
      <3>5. CASE m \in Users
        BY <3>2, <3>3, <3>4, <3>5
      <3>6. CASE m \notin Users
        <4>1. ~Reserved(m) /\ m \notin late
          BY <2>1, <3>6 DEF Users, LateRedeemed
        <4>2. QED
          BY <2>1, <3>2, <3>3, <3>4, <4>1
      <3>7. QED
        BY <3>5, <3>6
    <2>4. QED
      BY <2>2, <2>3
  <1>5. ASSUME NEW q \in Request, NEW c \in Checkout,
               BeginHearing(q, c) \/ BeginRefund(q, c) \/ BeginGrant(q, c)
        PROVE  Goal
    BY <1>1, <1>5 DEF BeginHearing, BeginRefund, BeginGrant, database
  <1>6. ASSUME NEW q \in Request,
               \/ OpenSession(q) \/ FailToOpen(q) \/ RecordSession(q) \/ RecordFailure(q)
               \/ RefundAtProvider(q) \/ CommitRefund(q) \/ CommitGrant(q) \/ GiveUp(q)
        PROVE  Goal
    BY <1>1, <1>6 DEF OpenSession, FailToOpen, RecordSession, RecordFailure,
                      RefundAtProvider, CommitRefund, CommitGrant, GiveUp, database
  <1>7. ASSUME NEW c \in Checkout,
               Pay(c) \/ SettleRefund(c) \/ HearRefund(c) \/ EndContract(c) \/ HearEnd(c)
        PROVE  Goal
    BY <1>1, <1>7 DEF Pay, SettleRefund, HearRefund, EndContract, HearEnd, database
  <1>8. ASSUME NEW m \in Member, CloseAccount(m) PROVE Goal
    BY <1>1, <1>8 DEF CloseAccount
  <1>9. CASE Tick
    BY <1>1, <1>9 DEF Tick, database
  <1>10. CASE UNCHANGED vars
    BY <1>1, <1>10 DEF vars, database
  <1>11. QED
    BY <1>2, <1>3, <1>4, <1>5, <1>6, <1>7, <1>8, <1>9, <1>10 DEF Next

\* Such a step keeps the uses within the limit and those that are late.
LEMMA CouponCount ==
    ASSUME TypeOK, TypeOK', LateRedeemed, OverrunsAreLate, [Next]_vars
    PROVE  OverrunsAreLate'
  <1>1. /\ IsFiniteSet(Users) /\ IsFiniteSet(Users') /\ IsFiniteSet(late) /\ IsFiniteSet(late')
        /\ Cardinality(Users) \in Nat /\ Cardinality(Users') \in Nat
        /\ Cardinality(late) \in Nat /\ Cardinality(late') \in Nat
    <2>1. Users \subseteq Member /\ Users' \subseteq Member /\ late \subseteq Member /\ late' \subseteq Member
      BY DEF Users, TypeOK
    <2>2. QED
      BY <2>1, PurchasesAssumption, FS_Subset, FS_CardinalityType
  <1>2. CASE Users' \subseteq Users /\ late \subseteq late'
    <2>1. Cardinality(Users') <= Cardinality(Users) /\ Cardinality(late) <= Cardinality(late')
      BY <1>1, <1>2, FS_Subset
    <2>2. QED
      BY <1>1, <2>1, PurchasesAssumption DEF OverrunsAreLate
  <1>3. ASSUME NEW m \in Member, Users' \subseteq Users \cup {m}, late' = late,
               Cardinality(Users \ {m}) < MaxRedemptions
        PROVE  OverrunsAreLate'
    <2>1. /\ IsFiniteSet(Users \ {m}) /\ Cardinality(Users \ {m}) \in Nat
      BY <1>1, FS_RemoveElement, FS_CardinalityType
    <2>2. /\ Cardinality((Users \ {m}) \cup {m}) = Cardinality(Users \ {m}) + 1
          /\ IsFiniteSet((Users \ {m}) \cup {m})
      BY <2>1, FS_AddElement
    <2>3. Users' \subseteq (Users \ {m}) \cup {m}
      BY <1>3
    <2>4. Cardinality(Users') <= Cardinality((Users \ {m}) \cup {m})
      BY <2>2, <2>3, FS_Subset
    <2>5. QED
      BY <1>1, <1>3, <2>1, <2>2, <2>4, PurchasesAssumption DEF OverrunsAreLate
  <1>4. ASSUME NEW m \in Member \ late, Users' \subseteq Users \cup {m}, late' = late \cup {m}
        PROVE  OverrunsAreLate'
    <2>1. /\ IsFiniteSet(Users \cup {m})
          /\ Cardinality(Users \cup {m}) <= Cardinality(Users) + 1
          /\ Cardinality(Users \cup {m}) \in Nat
      <3>1. /\ IsFiniteSet(Users \cup {m})
            /\ \/ Cardinality(Users \cup {m}) = Cardinality(Users)
               \/ Cardinality(Users \cup {m}) = Cardinality(Users) + 1
        BY <1>1, FS_AddElement
      <3>2. QED
        BY <1>1, <3>1
    <2>2. Cardinality(Users') <= Cardinality(Users \cup {m})
      BY <1>4, <2>1, FS_Subset
    <2>3. Cardinality(late') = Cardinality(late) + 1
      BY <1>1, <1>4, FS_AddElement
    <2>4. QED
      BY <1>1, <2>1, <2>2, <2>3, PurchasesAssumption DEF OverrunsAreLate
  <1>5. QED
    BY <1>2, <1>3, <1>4, CouponStep

\* The coupon is not used more often than its limit allows, but for the
\* payments heard when their reservation no longer counted.
THEOREM OverrunsAreLateCorrect == Spec => []OverrunsAreLate
  <1>1. Init => LateRedeemed /\ OverrunsAreLate
    <2> SUFFICES ASSUME Init PROVE LateRedeemed /\ OverrunsAreLate
      OBVIOUS
    <2>1. Users = {} /\ late = {}
      BY DEF Init, Users, Reserved
    <2>2. QED
      BY <2>1, FS_EmptySet, PurchasesAssumption DEF LateRedeemed, OverrunsAreLate
  <1>2. TypeOK /\ LateRedeemed /\ OverrunsAreLate /\ [Next]_vars => (LateRedeemed /\ OverrunsAreLate)'
    BY CouponStep, CouponCount, TypeStep
  <1>3. QED
    BY <1>1, <1>2, TypeInit, TypeStep, PTL DEF Spec

-----------------------------------------------------------------------------
(***************************************************************************)
(* The unique index of current subscriptions.                              *)
(***************************************************************************)

\* Who has no access may get some: the index has one row of the member.
LEMMA IndexTakes ==
    ASSUME TypeOK, OneOpenPerUser(access), NEW c \in Checkout, ~Subscribed(BuyerOf[c])
    PROVE  OneOpenPerUser([access EXCEPT ![c] = "CURRENT"])
  <1>1. \A d \in Checkout : BuyerOf[d] = BuyerOf[c] => access[d] # "CURRENT"
    BY DEF Subscribed, CheckoutsOf
  <1>2. \A d \in Checkout : [access EXCEPT ![c] = "CURRENT"][d] = IF d = c THEN "CURRENT" ELSE access[d]
    BY DEF TypeOK
  <1>3. QED
    BY <1>1, <1>2 DEF OneOpenPerUser

\* A member has one current subscription at most.
LEMMA IndexStep == TypeOK /\ OneOpenPerUser(access) /\ [Next]_vars => OneOpenPerUser(access)'
  <1> SUFFICES ASSUME TypeOK, OneOpenPerUser(access), [Next]_vars PROVE OneOpenPerUser(access')
    BY DEF OneOpenPerUser
  <1>1. CASE access' = access
    BY <1>1
  <1>2. ASSUME NEW c \in Checkout, access' = [access EXCEPT ![c] = "ENDED"]
        PROVE  OneOpenPerUser(access')
    BY <1>2 DEF TypeOK, OneOpenPerUser
  <1>3. ASSUME NEW c \in Checkout, access' = [access EXCEPT ![c] = "CURRENT"], ~Subscribed(BuyerOf[c])
        PROVE  OneOpenPerUser(access')
    BY <1>3, IndexTakes
  <1>4. QED
    BY <1>1, <1>2, <1>3, AccessStep

\* No payment that is being heard is refused by the unique index after the
\* checks let it through, however it races with administrators who grant and
\* with other payments of the member: its event never fails for good.
THEOREM HeardIsNeverRefusedCorrect == Spec => []HeardIsNeverRefused
  <1>1. Init => OneOpenPerUser(access)
    BY DEF Init, OneOpenPerUser
  <1>2. ASSUME TypeOK, OneOpenPerUser(access), NEW q \in Request, doing[q].op = "hearing"
        PROVE  OneOpenPerUser(AccessAfter(doing[q].about))
    <2> DEFINE c == doing[q].about
    <2>1. c \in Checkout
      BY <1>2, AboutTyped
    <2>2. CASE Verdict(c) = "COMPLETED"
      <3>1. ~Subscribed(BuyerOf[c])
        BY <2>2 DEF Verdict
      <3>2. QED
        BY <1>2, <2>1, <2>2, <3>1, IndexTakes DEF AccessAfter
    <2>3. CASE Verdict(c) # "COMPLETED"
      BY <1>2, <2>3 DEF AccessAfter
    <2>4. QED
      BY <2>2, <2>3
  <1>3. TypeOK => DOMAIN doing = Request
    BY DEF TypeOK
  <1>4. TypeOK /\ OneOpenPerUser(access) => HeardIsNeverRefused
    BY <1>2, <1>3 DEF HeardIsNeverRefused
  <1>5. TypeOK /\ OneOpenPerUser(access) /\ [Next]_vars => TypeOK' /\ OneOpenPerUser(access)'
    BY TypeStep, IndexStep
  <1>6. QED
    BY <1>1, <1>4, <1>5, TypeInit, PTL DEF Spec
=============================================================================
