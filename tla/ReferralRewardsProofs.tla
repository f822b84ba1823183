------------------------ MODULE ReferralRewardsProofs ------------------------
(***************************************************************************)
(* Proofs about ReferralRewards: types, that a claim is exchanged at most  *)
(* once, and that what was redeemed stays redeemed.                        *)
(***************************************************************************)
EXTENDS ReferralRewards, FiniteSetTheorems, TLAPS

\* A well-formed transaction opened in a session keeps the sessions' type.
LEMMA OpenType ==
    ASSUME TypeOK, NEW s \in Session, NEW t \in TransactionType, Open(s, t)
    PROVE  session' \in [Session -> TransactionType]
  BY DEF TypeOK, TransactionType, Open

\* A transaction's fields are what they should be.
LEMMA TransactionTyped ==
    ASSUME NEW op \in Ops, NEW row \in Referral \cup Claim \cup {None},
           NEW day \in Day \cup {None}, NEW claims \in SUBSET Claim, NEW at \in Day,
           op = "redeeming" => row \in Claim,
           op \in {"qualify", "qualifying", "invalidate", "invalidating"} => row \in Referral
    PROVE  Transaction(op, row, day, claims, at) \in TransactionType
  BY DEF Transaction, TransactionType

\* The first day is one, and so is no transaction a transaction.
LEMMA IdleTyped == 0 \in Day /\ Idle \in TransactionType
  <1>1. 0 \in Day
    BY ConstantsAssumption DEF Day
  <1>2. QED
    BY <1>1, TransactionTyped DEF Idle, Ops

\* The initial state is well typed.
LEMMA TypeInit == Init => TypeOK
  BY IdleTyped, ConstantsAssumption
  DEF Init, TypeOK, TransactionType, ReferralStatus, ClaimStatus, Day

\* Every step keeps the types.
LEMMA TypeStep == TypeOK /\ [Next]_vars => TypeOK'
  <1> SUFFICES ASSUME TypeOK, [Next]_vars PROVE TypeOK'
    OBVIOUS
  <1> USE DEF rows
  <1>a. /\ session \in [Session -> TransactionType]
        /\ \A s \in Session : session[s] \in TransactionType
    BY DEF TypeOK, TransactionType
  <1>b. ASSUME session' \in [Session -> TransactionType],
               UNCHANGED <<rows, latest, paid, today>>
        PROVE  TypeOK'
    BY <1>b DEF TypeOK, TransactionType
  <1>c. \A n : Reached(n) \subseteq Claim /\ Unearned(n) \subseteq Claim
    BY DEF Reached, Unearned, Reward, Grant
  <1>d. today \in Day
    BY DEF TypeOK
  <1>e. ASSUME NEW s \in Session, Close(s) PROVE session' \in [Session -> TransactionType]
    BY <1>e, IdleTyped, OpenType DEF Close
  <1>1. CASE UNCHANGED vars
    BY <1>1 DEF TypeOK, vars
  <1>2. ASSUME NEW r \in Referral, CreatePending(r) PROVE TypeOK'
    BY <1>2 DEF CreatePending, TypeOK, ReferralStatus
  <1>3. ASSUME NEW s \in Session, NEW r \in Referral, BeginQualify(s, r) \/ BeginInvalidate(s, r)
        PROVE  TypeOK'
    <2>1. /\ Transaction("qualify", r, None, {}, 0) \in TransactionType
          /\ Transaction("invalidate", r, None, {}, 0) \in TransactionType
      BY TransactionTyped, IdleTyped DEF Ops
    <2>2. session' \in [Session -> TransactionType]
      BY <1>3, <2>1, OpenType DEF BeginQualify, BeginInvalidate
    <2>3. QED
      BY <1>3, <2>2, <1>b DEF BeginQualify, BeginInvalidate
  <1>4. ASSUME NEW s \in Session, LockQualify(s) PROVE TypeOK'
    <2>1. session[s].row \in Referral
      BY <1>4, <1>a DEF LockQualify, TransactionType
    <2>2. Transaction("qualifying", session[s].row, None, Reached(QualifiedCount + 1), today)
            \in TransactionType
      BY <2>1, <1>c, <1>d, TransactionTyped DEF Ops
    <2>3. session' \in [Session -> TransactionType]
      BY <1>4, <2>2, <1>e, OpenType DEF LockQualify
    <2>4. QED
      BY <1>4, <2>3, <1>b DEF LockQualify
  <1>5. ASSUME NEW s \in Session, CommitQualify(s) PROVE TypeOK'
    <2>1. session[s].at \in Nat
      BY <1>a, ConstantsAssumption DEF TransactionType, Day
    <2>2. expires' \in [Claim -> Nat]
      BY <1>5, <2>1, ConstantsAssumption DEF CommitQualify, TypeOK
    <2>3. status' \in [Claim -> ClaimStatus] /\ referral' \in [Referral -> ReferralStatus]
      BY <1>5 DEF CommitQualify, TypeOK, ClaimStatus, ReferralStatus
    <2>4. session' \in [Session -> TransactionType]
      BY <1>5, <1>e DEF CommitQualify
    <2>5. QED
      BY <1>5, <2>2, <2>3, <2>4 DEF CommitQualify, TypeOK, TransactionType
  <1>6. ASSUME NEW s \in Session, LockInvalidate(s) PROVE TypeOK'
    <2>1. session[s].row \in Referral
      BY <1>6, <1>a DEF LockInvalidate, TransactionType
    <2>2. Transaction("invalidating", session[s].row, None, Unearned(QualifiedCount - 1), today)
            \in TransactionType
      BY <2>1, <1>c, <1>d, TransactionTyped DEF Ops
    <2>3. session' \in [Session -> TransactionType]
      BY <1>6, <2>2, <1>e, OpenType DEF LockInvalidate
    <2>4. QED
      BY <1>6, <2>3, <1>b DEF LockInvalidate
  <1>7. ASSUME NEW s \in Session, CommitInvalidate(s) PROVE TypeOK'
    <2>1. status' \in [Claim -> ClaimStatus] /\ referral' \in [Referral -> ReferralStatus]
      BY <1>7 DEF CommitInvalidate, TypeOK, ClaimStatus, ReferralStatus
    <2>2. session' \in [Session -> TransactionType]
      BY <1>7, <1>e DEF CommitInvalidate
    <2>3. QED
      BY <1>7, <2>1, <2>2 DEF CommitInvalidate, TypeOK, TransactionType
  <1>8. ASSUME NEW s \in Session, RollbackInvalidate(s) \/ RollbackRedeem(s) PROVE TypeOK'
    <2>1. session' \in [Session -> TransactionType]
      BY <1>8, <1>e DEF RollbackInvalidate, RollbackRedeem
    <2>2. QED
      BY <1>8, <2>1, <1>b DEF RollbackInvalidate, RollbackRedeem
  <1>9. ASSUME NEW s \in Session, NEW c \in Claim, NEW d \in Day \cup {None}, BeginRedeem(s, c, d)
        PROVE  TypeOK'
    <2>1. Transaction("redeeming", c, d, {}, today) \in TransactionType
      BY <1>d, TransactionTyped DEF Ops
    <2>2. session' \in [Session -> TransactionType]
      BY <1>9, <2>1, OpenType DEF BeginRedeem
    <2>3. QED
      BY <1>9, <2>2, <1>b DEF BeginRedeem
  <1>10. ASSUME NEW s \in Session, CommitRedeem(s) PROVE TypeOK'
    <2>0. session[s].row \in Claim
      BY <1>10, <1>a DEF CommitRedeem, TransactionType
    <2>1. /\ status' \in [Claim -> ClaimStatus]
          /\ pass' \in [Day -> Claim \cup {"PURCHASE", None}]
          /\ monthly' \subseteq Claim
      BY <1>10, <2>0 DEF CommitRedeem, TypeOK, ClaimStatus
    <2>2. session' \in [Session -> TransactionType]
      BY <1>10, <1>e DEF CommitRedeem
    <2>3. QED
      BY <1>10, <2>1, <2>2 DEF CommitRedeem, TypeOK, TransactionType
  <1>11. ASSUME NEW claims, MarkExpired(claims),
                UNCHANGED <<referral, expires, pass, monthly, latest, paid, today, session>>
         PROVE  TypeOK'
    BY <1>11 DEF MarkExpired, TypeOK, ClaimStatus
  <1>12. CASE CreateVersion \/ ChangeSubscription \/ NextDay
    <2>1. CASE CreateVersion
      BY <2>1, ConstantsAssumption DEF CreateVersion, TypeOK
    <2>2. CASE ChangeSubscription
      BY <2>2, ZenonT(30) DEF ChangeSubscription, TypeOK
    <2>3. CASE NextDay
      BY <2>3, ConstantsAssumption DEF NextDay, TypeOK, Day
    <2>4. QED
      BY <1>12, <2>1, <2>2, <2>3
  <1>13. ASSUME NEW d \in Day, BuyPass(d) PROVE TypeOK'
    BY <1>13 DEF BuyPass, TypeOK
  <1>14. ASSUME NEW c \in Claim, RedeemOverdue(c) PROVE TypeOK'
    BY <1>14, <1>11 DEF RedeemOverdue
  <1>15. CASE ExpireOverdue(Reward) \/ ExpireOverdue(Grant)
    BY <1>15, <1>11 DEF ExpireOverdue
  <1>16. QED
    BY <1>1, <1>2, <1>3, <1>4, <1>5, <1>6, <1>7, <1>8, <1>9, <1>10, <1>12, <1>13, <1>14, <1>15
    DEF Next

\* Whatever requests race, every variable holds a value of its type.
THEOREM TypeCorrect == Spec => []TypeOK
  <1>1. QED
    BY TypeInit, TypeStep, PTL DEF Spec

-----------------------------------------------------------------------------
(***************************************************************************)
(* A claim is exchanged at most once.  The invariant adds what the open    *)
(* transactions rely on between their two steps: locks are exclusive, a    *)
(* claim being redeemed has a row that is not redeemed, and a claim about  *)
(* to be granted or restored is unused.                                    *)
(***************************************************************************)
ReferrerLock ==
    \A s, u \in Session :
        /\ session[s].op \in {"qualifying", "invalidating"}
        /\ session[u].op \in {"qualifying", "invalidating"}
        => s = u
ClaimLock ==
    \A s, u \in Session :
        session[s].op = "redeeming" /\ session[u].op = "redeeming" /\ session[s].row = session[u].row
        => s = u
RedeemingUnused ==
    \A s \in Session :
        session[s].op = "redeeming" => status[session[s].row] \notin {"NONE", "REDEEMED"}
GrantingUnused ==
    \A s \in Session :
        session[s].op = "qualifying" =>
            \A c \in session[s].claims : status[c] \in {"NONE", "INVALIDATED"}
UseInv ==
    TypeOK /\ UsedOnce /\ ReferrerLock /\ ClaimLock /\ RedeemingUnused /\ GrantingUnused

\* Initially nothing is given, used or locked.
LEMMA UseInit == Init => UseInv
  <1> SUFFICES ASSUME Init PROVE UseInv
    OBVIOUS
  <1>1. UsedOnce
    BY ConstantsAssumption DEF Init, UsedOnce, Uses
  <1>2. ReferrerLock /\ ClaimLock /\ RedeemingUnused /\ GrantingUnused
    BY DEF Init, Idle, Transaction, ReferrerLock, ClaimLock, RedeemingUnused, GrantingUnused
  <1>3. QED
    BY <1>1, <1>2, TypeInit DEF UseInv

\* Closing a transaction, or opening one that holds no lock, keeps the locks.
LEMMA LocksKept ==
    ASSUME UseInv, NEW s \in Session, NEW t, Open(s, t),
           t.op \in {"idle", "qualify", "invalidate"}
    PROVE  /\ ReferrerLock' /\ ClaimLock'
           /\ \A u \in Session : session'[u].op \in {"redeeming", "qualifying"} =>
                u # s /\ session'[u] = session[u]
  <1>1. \A u \in Session : session'[u] = IF u = s THEN t ELSE session[u]
    BY DEF Open, UseInv, TypeOK
  <1>2. QED
    BY <1>1 DEF UseInv, ReferrerLock, ClaimLock

\* Steps that write no row keep the uses.
LEMMA UsesKept ==
    ASSUME UsedOnce, UNCHANGED <<status, pass, monthly>>
    PROVE  UsedOnce'
  BY DEF UsedOnce, Uses

\* Steps that change the status of unused claims to another unused status
\* keep the uses.
LEMMA UnusedKept ==
    ASSUME UsedOnce, UNCHANGED <<pass, monthly>>,
           \A c \in Claim : status'[c] # status[c] =>
                status[c] # "REDEEMED" /\ status'[c] # "REDEEMED"
    PROVE  UsedOnce'
  BY DEF UsedOnce, Uses

\* The sessions of a closed transaction, and of the others.
LEMMA CloseOthers ==
    ASSUME UseInv, NEW s \in Session, Close(s)
    PROVE  /\ ReferrerLock' /\ ClaimLock'
           /\ \A u \in Session : session'[u].op \in {"redeeming", "qualifying"} =>
                u # s /\ session'[u] = session[u]
  BY LocksKept DEF Close, Idle, Transaction

\* Every step keeps the invariant.
LEMMA UseStep == UseInv /\ [Next]_vars => UseInv'
  <1> SUFFICES ASSUME UseInv, [Next]_vars PROVE UseInv'
    OBVIOUS
  <1> USE DEF rows
  <1>t. TypeOK /\ TypeOK'
    BY TypeStep DEF UseInv
  <1>s. \A s \in Session : session[s] \in TransactionType
    BY <1>t DEF TypeOK
  <1>a. ASSUME UNCHANGED <<status, pass, monthly, session>> PROVE UseInv'
    BY <1>a, <1>t, UsesKept
    DEF UseInv, ReferrerLock, ClaimLock, RedeemingUnused, GrantingUnused
  <1>b. ASSUME NEW s \in Session, Close(s), UNCHANGED rows PROVE UseInv'
    BY <1>b, <1>t, CloseOthers, UsesKept DEF UseInv, RedeemingUnused, GrantingUnused
  <1>1. CASE UNCHANGED vars
    BY <1>1, <1>a DEF vars
  <1>2. ASSUME NEW r \in Referral, CreatePending(r) PROVE UseInv'
    BY <1>2, <1>a DEF CreatePending
  <1>3. ASSUME NEW s \in Session, NEW r \in Referral, BeginQualify(s, r) \/ BeginInvalidate(s, r)
        PROVE  UseInv'
    <2>1. PICK t : Open(s, t) /\ t.op \in {"qualify", "invalidate"}
      BY <1>3 DEF BeginQualify, BeginInvalidate, Transaction
    <2>2. QED
      BY <1>3, <1>t, <2>1, LocksKept, UsesKept
      DEF UseInv, RedeemingUnused, GrantingUnused, BeginQualify, BeginInvalidate
  <1>4. ASSUME NEW s \in Session, LockQualify(s) PROVE UseInv'
    <2>1. CASE Close(s)
      BY <2>1, <1>4, <1>b DEF LockQualify
    <2>2. ASSUME ~Close(s) PROVE UseInv'
      <3>1. PICK t : /\ Open(s, t) /\ t.op = "qualifying"
                     /\ t.claims = Reached(QualifiedCount + 1)
        BY <1>4, <2>2 DEF LockQualify, Transaction
      <3>2. \A u \in Session : session'[u] = IF u = s THEN t ELSE session[u]
        BY <3>1, <1>t DEF Open, TypeOK
      <3>3. \A c \in t.claims : status[c] \in {"NONE", "INVALIDATED"}
        BY <3>1 DEF Reached, Grantable
      <3>4. ReferrerLock' /\ ClaimLock'
        BY <1>4, <3>1, <3>2 DEF LockQualify, ReferrerFree, UseInv, ReferrerLock, ClaimLock
      <3>5. RedeemingUnused' /\ GrantingUnused'
        BY <1>4, <3>1, <3>2, <3>3 DEF LockQualify, UseInv, RedeemingUnused, GrantingUnused
      <3>6. QED
        BY <1>4, <1>t, <3>4, <3>5, UsesKept DEF LockQualify, UseInv
    <2>3. QED
      BY <2>1, <2>2
  <1>5. ASSUME NEW s \in Session, CommitQualify(s) PROVE UseInv'
    <2>1. \A c \in Claim : status'[c] = IF c \in session[s].claims THEN "AVAILABLE" ELSE status[c]
      BY <1>5, <1>t DEF CommitQualify, TypeOK
    <2>2. \A c \in session[s].claims : status[c] \in {"NONE", "INVALIDATED"}
      BY <1>5 DEF CommitQualify, UseInv, GrantingUnused
    <2>3. UsedOnce'
      BY <1>5, <2>1, <2>2, UnusedKept DEF CommitQualify, UseInv
    <2>4. /\ ReferrerLock' /\ ClaimLock'
          /\ \A u \in Session : session'[u].op \in {"redeeming", "qualifying"} =>
                u # s /\ session'[u] = session[u]
      BY <1>5, CloseOthers DEF CommitQualify
    <2>5. \A u \in Session : session'[u].op # "qualifying"
      BY <1>5, <2>4 DEF CommitQualify, UseInv, ReferrerLock
    <2>6. RedeemingUnused'
      BY <2>1, <2>4, <1>s DEF UseInv, RedeemingUnused, TransactionType
    <2>7. QED
      BY <1>t, <2>3, <2>4, <2>5, <2>6 DEF UseInv, GrantingUnused
  <1>6. ASSUME NEW s \in Session, LockInvalidate(s) PROVE UseInv'
    <2>1. CASE Close(s)
      BY <2>1, <1>6, <1>b DEF LockInvalidate
    <2>2. ASSUME ~Close(s) PROVE UseInv'
      <3>1. PICK t : Open(s, t) /\ t.op = "invalidating"
        BY <1>6, <2>2 DEF LockInvalidate, Transaction
      <3>2. \A u \in Session : session'[u] = IF u = s THEN t ELSE session[u]
        BY <3>1, <1>t DEF Open, TypeOK
      <3>3. ReferrerLock' /\ ClaimLock'
        BY <1>6, <3>1, <3>2 DEF LockInvalidate, ReferrerFree, UseInv, ReferrerLock, ClaimLock
      <3>4. RedeemingUnused' /\ GrantingUnused'
        BY <1>6, <3>1, <3>2 DEF LockInvalidate, UseInv, RedeemingUnused, GrantingUnused
      <3>5. QED
        BY <1>6, <1>t, <3>3, <3>4, UsesKept DEF LockInvalidate, UseInv
    <2>3. QED
      BY <2>1, <2>2
  <1>7. ASSUME NEW s \in Session, CommitInvalidate(s) PROVE UseInv'
    <2>1. \A c \in Claim :
            \/ status'[c] = status[c]
            \/ status'[c] = "INVALIDATED" /\ status[c] # "REDEEMED"
            \/ status'[c] = "EXPIRED" /\ status[c] = "AVAILABLE"
      BY <1>7, <1>t DEF CommitInvalidate, CheckHolds, Overdue, TypeOK
    <2>2. UsedOnce'
      BY <1>7, <2>1, UnusedKept DEF CommitInvalidate, UseInv
    <2>3. /\ ReferrerLock' /\ ClaimLock'
          /\ \A u \in Session : session'[u].op \in {"redeeming", "qualifying"} =>
                u # s /\ session'[u] = session[u]
      BY <1>7, CloseOthers DEF CommitInvalidate
    <2>4. \A u \in Session : session'[u].op # "qualifying"
      BY <1>7, <2>3 DEF CommitInvalidate, UseInv, ReferrerLock
    <2>5. RedeemingUnused'
      BY <2>1, <2>3, <1>s DEF UseInv, RedeemingUnused, TransactionType
    <2>6. QED
      BY <1>t, <2>2, <2>3, <2>4, <2>5 DEF UseInv, GrantingUnused
  <1>8. ASSUME NEW s \in Session, RollbackInvalidate(s) \/ RollbackRedeem(s) PROVE UseInv'
    BY <1>8, <1>b DEF RollbackInvalidate, RollbackRedeem
  <1>9. ASSUME NEW s \in Session, NEW c \in Claim, NEW d \in Day \cup {None}, BeginRedeem(s, c, d)
        PROVE  UseInv'
    <2>1. PICK t : Open(s, t) /\ t.op = "redeeming" /\ t.row = c
      BY <1>9 DEF BeginRedeem, Transaction
    <2>2. \A u \in Session : session'[u] = IF u = s THEN t ELSE session[u]
      BY <2>1, <1>t DEF Open, TypeOK
    <2>3. ReferrerLock' /\ ClaimLock'
      BY <1>9, <2>1, <2>2 DEF BeginRedeem, ClaimFree, UseInv, ReferrerLock, ClaimLock
    <2>4. RedeemingUnused' /\ GrantingUnused'
      BY <1>9, <2>1, <2>2 DEF BeginRedeem, Redeemable, UseInv, RedeemingUnused, GrantingUnused
    <2>5. QED
      BY <1>9, <1>t, <2>3, <2>4, UsesKept DEF BeginRedeem, UseInv
  <1>10. ASSUME NEW s \in Session, CommitRedeem(s) PROVE UseInv'
    <2> DEFINE c == session[s].row
               d == session[s].day
    <2>1. c \in Claim /\ d \in Day \cup {None} /\ None \notin Day /\ None \notin Claim
      BY <1>10, <1>s, ConstantsAssumption DEF CommitRedeem, TransactionType
    <2>2. status[c] \notin {"NONE", "REDEEMED", "INVALIDATED"}
      BY <1>10 DEF CommitRedeem, CheckHolds, UseInv, RedeemingUnused
    <2>3. \A x \in Claim : status'[x] = IF x = c THEN "REDEEMED" ELSE status[x]
      BY <1>10, <1>t DEF CommitRedeem, TypeOK
    <2>4. \A x \in Claim : Uses(x)' = IF x = c THEN {d} ELSE Uses(x)
      <3>1. Uses(c) = {}
        BY <2>1, <2>2 DEF UseInv, UsedOnce
      <3>2. CASE d = None
        BY <1>10, <2>1, <3>1, <3>2 DEF CommitRedeem, Uses
      <3>3. CASE d \in Day
        BY <1>10, <2>1, <3>1, <3>3 DEF CommitRedeem, DayFree, Uses
      <3>4. QED
        BY <2>1, <3>2, <3>3
    <2>5. UsedOnce'
      BY <2>1, <2>3, <2>4 DEF UseInv, UsedOnce
    <2>6. /\ ReferrerLock' /\ ClaimLock'
          /\ \A u \in Session : session'[u].op \in {"redeeming", "qualifying"} =>
                u # s /\ session'[u] = session[u]
      BY <1>10, CloseOthers DEF CommitRedeem
    <2>7. RedeemingUnused'
      BY <1>10, <1>s, <2>3, <2>6 DEF CommitRedeem, UseInv, ClaimLock, RedeemingUnused, TransactionType
    <2>8. GrantingUnused'
      BY <1>s, <2>2, <2>3, <2>6 DEF UseInv, GrantingUnused, TransactionType
    <2>9. QED
      BY <1>t, <2>5, <2>6, <2>7, <2>8 DEF UseInv
  <1>11. ASSUME NEW claims, MarkExpired(claims), \A c \in claims : status[c] = "AVAILABLE",
                UNCHANGED <<pass, monthly, session>>
         PROVE  UseInv'
    <2>1. \A c \in Claim : status'[c] # status[c] => status[c] = "AVAILABLE" /\ status'[c] = "EXPIRED"
      BY <1>11, <1>t DEF MarkExpired, TypeOK
    <2>2. UsedOnce'
      BY <1>11, <2>1, UnusedKept DEF UseInv
    <2>3. RedeemingUnused' /\ GrantingUnused'
      BY <1>11, <1>s, <2>1 DEF UseInv, RedeemingUnused, GrantingUnused, TransactionType
    <2>4. QED
      BY <1>11, <1>t, <2>2, <2>3 DEF UseInv, ReferrerLock, ClaimLock
  <1>12. CASE CreateVersion \/ ChangeSubscription \/ NextDay
    BY <1>12, <1>a DEF CreateVersion, ChangeSubscription, NextDay
  <1>13. ASSUME NEW d \in Day, BuyPass(d) PROVE UseInv'
    <2>1. \A c \in Claim : Uses(c)' = Uses(c)
      BY <1>13, <1>t, ConstantsAssumption DEF BuyPass, Uses, TypeOK
    <2>2. UsedOnce'
      BY <1>13, <2>1 DEF BuyPass, UseInv, UsedOnce
    <2>3. QED
      BY <1>13, <1>t, <2>2
      DEF BuyPass, UseInv, ReferrerLock, ClaimLock, RedeemingUnused, GrantingUnused
  <1>14. ASSUME NEW c \in Claim, RedeemOverdue(c) PROVE UseInv'
    BY <1>14, <1>11 DEF RedeemOverdue, Overdue
  <1>15. ASSUME NEW claims, ExpireOverdue(claims) PROVE UseInv'
    BY <1>15, <1>11 DEF ExpireOverdue, Overdue
  <1>16. QED
    BY <1>1, <1>2, <1>3, <1>4, <1>5, <1>6, <1>7, <1>8, <1>9, <1>10, <1>12, <1>13, <1>14, <1>15
    DEF Next

\* However redemptions, qualifications, invalidations and expiries race, a
\* claim is exchanged for access once if it is redeemed and never if not.
THEOREM UsedOnceCorrect == Spec => []UsedOnce
  <1>1. UseInv => UsedOnce
    BY DEF UseInv
  <1>2. QED
    BY <1>1, UseInit, UseStep, PTL DEF Spec

\* An access that was given is not taken away.
LEMMA UsesGrow ==
    ASSUME UseInv, [Next]_vars
    PROVE  \A c \in Claim : Uses(c) \subseteq Uses(c)'
  <1> USE DEF rows
  <1>1. \A d \in Day : pass[d] \in Claim => pass'[d] = pass[d]
    <2>1. CASE UNCHANGED pass
      BY <2>1
    <2>2. ASSUME NEW s \in Session, CommitRedeem(s) PROVE \A d \in Day : pass[d] \in Claim => pass'[d] = pass[d]
      BY <2>2, ConstantsAssumption DEF CommitRedeem, DayFree, UseInv, TypeOK
    <2>3. ASSUME NEW x \in Day, BuyPass(x) PROVE \A d \in Day : pass[d] \in Claim => pass'[d] = pass[d]
      BY <2>3, ConstantsAssumption DEF BuyPass, UseInv, TypeOK
    <2>4. QED
      BY <2>1, <2>2, <2>3
      DEF Next, vars, CreatePending, BeginQualify, BeginInvalidate, LockQualify, CommitQualify,
          LockInvalidate, CommitInvalidate, RollbackInvalidate, BeginRedeem, RollbackRedeem,
          RedeemOverdue, ExpireOverdue, CreateVersion, ChangeSubscription, NextDay
  <1>2. monthly \subseteq monthly'
    BY DEF Next, vars, CreatePending, BeginQualify, BeginInvalidate, LockQualify, CommitQualify,
          LockInvalidate, CommitInvalidate, RollbackInvalidate, BeginRedeem, CommitRedeem,
          RollbackRedeem, RedeemOverdue, ExpireOverdue, CreateVersion, BuyPass,
          ChangeSubscription, NextDay
  <1>3. QED
    BY <1>1, <1>2 DEF Uses

\* A redeemed claim stays redeemed: no invalidation, expiry or restoration
\* that read it before overwrites the use.
THEOREM RedeemedIsFinalCorrect == Spec => RedeemedIsFinal
  <1> DEFINE Stays == \A c \in Claim : status[c] = "REDEEMED" => status'[c] = "REDEEMED"
  <1>1. ASSUME UseInv, UseInv', [Next]_vars PROVE [Stays]_vars
    <2>1. \A c \in Claim : status[c] = "REDEEMED" => Uses(c) # {}
      BY <1>1 DEF UseInv, UsedOnce
    <2>2. \A c \in Claim : Uses(c)' # {} => status'[c] = "REDEEMED"
      BY <1>1 DEF UseInv, UsedOnce
    <2>3. Stays
      BY <1>1, <2>1, <2>2, UsesGrow
    <2>4. QED
      BY <2>3
  <1>2. QED
    BY <1>1, UseInit, UseStep, PTL DEF Spec, RedeemedIsFinal

-----------------------------------------------------------------------------
(***************************************************************************)
(* What can be exchanged is earned, and what is earned is there.  The      *)
(* invariant says what a qualification and an invalidation still know of   *)
(* the rows when they commit: only they write referrals and hand out or    *)
(* take back claims, and they exclude each other.                          *)
(***************************************************************************)
\* The claims a qualification read are those its count earns, and rewards it
\* leaves out are there or over.
GrantPlan ==
    \A s \in Session : session[s].op = "qualifying" =>
        /\ session[s].row \in Referral /\ referral[session[s].row] = "PENDING"
        /\ session[s].at <= today /\ today <= session[s].at + 1
        /\ \A c \in session[s].claims :
             Required[c] <= QualifiedCount + 1 /\ (status[c] = "INVALIDATED" => expires[c] > session[s].at)
        /\ \A c \in Reward \ session[s].claims : Required[c] <= QualifiedCount + 1 =>
             status[c] # "NONE" /\ (status[c] = "INVALIDATED" => expires[c] <= session[s].at)
\* The claims an invalidation read are those the count it leaves does not earn.
RevokePlan ==
    \A s \in Session : session[s].op = "invalidating" =>
        /\ session[s].row \in Referral /\ referral[session[s].row] = "QUALIFIED"
        /\ \A c \in session[s].claims : Required[c] > QualifiedCount - 1
        /\ \A c \in Claim \ session[s].claims :
             status[c] = "AVAILABLE" /\ expires[c] > today => Required[c] <= QualifiedCount - 1
EarnInv == UseInv /\ UnusedIsEarned /\ EarnedIsThere /\ GrantPlan /\ RevokePlan

QualifiedSet == {r \in Referral : referral[r] = "QUALIFIED"}

\* The count is a number, one more with a referral that becomes qualified and
\* one less with one that stops being so.
LEMMA CountType == QualifiedCount \in Nat
  <1>1. IsFiniteSet(QualifiedSet)
    BY ConstantsAssumption, FS_Subset DEF QualifiedSet
  <1>2. QED
    BY <1>1, FS_CardinalityType DEF QualifiedCount, QualifiedSet

\* When one referral changes its status, the number of qualified ones follows.
LEMMA CountChanges ==
    ASSUME NEW r \in Referral, \A x \in Referral : x # r => referral'[x] = referral[x]
    PROVE  /\ referral[r] # "QUALIFIED" /\ referral'[r] = "QUALIFIED" => QualifiedCount' = QualifiedCount + 1
           /\ referral[r] = "QUALIFIED" /\ referral'[r] # "QUALIFIED" => QualifiedCount' = QualifiedCount - 1
           /\ referral[r] # "QUALIFIED" /\ referral'[r] # "QUALIFIED" => QualifiedCount' = QualifiedCount
  <1>1. IsFiniteSet(QualifiedSet)
    BY ConstantsAssumption, FS_Subset DEF QualifiedSet
  <1>2. QualifiedSet' = IF referral'[r] = "QUALIFIED" THEN QualifiedSet \cup {r} ELSE QualifiedSet \ {r}
    BY DEF QualifiedSet
  <1>3. QualifiedCount = Cardinality(QualifiedSet) /\ QualifiedCount' = Cardinality(QualifiedSet')
    BY DEF QualifiedCount, QualifiedSet
  <1>4. Cardinality(QualifiedSet) \in Nat
    BY <1>1, FS_CardinalityType
  <1>5. r \in QualifiedSet <=> referral[r] = "QUALIFIED"
    BY DEF QualifiedSet
  <1>6. /\ Cardinality(QualifiedSet \cup {r}) =
             IF r \in QualifiedSet THEN Cardinality(QualifiedSet) ELSE Cardinality(QualifiedSet) + 1
        /\ Cardinality(QualifiedSet \ {r}) =
             IF r \in QualifiedSet THEN Cardinality(QualifiedSet) - 1 ELSE Cardinality(QualifiedSet)
    BY <1>1, FS_AddElement, FS_RemoveElement
  <1>7. QED
    BY <1>2, <1>3, <1>4, <1>5, <1>6

\* Initially nothing is earned.
LEMMA EarnInit == Init => EarnInv
  <1> SUFFICES ASSUME Init PROVE EarnInv
    OBVIOUS
  <1>1. QualifiedSet = {}
    BY DEF Init, QualifiedSet
  <1>2. QualifiedCount = 0
    BY <1>1, FS_EmptySet DEF QualifiedCount, QualifiedSet
  <1>3. UnusedIsEarned /\ EarnedIsThere
    BY <1>2, ConstantsAssumption DEF Init, UnusedIsEarned, EarnedIsThere, Reward
  <1>4. GrantPlan /\ RevokePlan
    BY DEF Init, GrantPlan, RevokePlan, Idle, Transaction
  <1>5. QED
    BY <1>3, <1>4, UseInit DEF EarnInv

\* A step that leaves the referrals and deadlines alone, hands out no claim
\* and takes none back, and opens no qualification or invalidation.
Quiet ==
    /\ UNCHANGED <<referral, expires>>
    /\ today' \in Nat /\ today <= today'
    /\ \A c \in Claim : status'[c] # status[c] =>
         status[c] # "NONE" /\ status'[c] \notin {"NONE", "AVAILABLE", "INVALIDATED"}
    /\ \A s \in Session : session'[s].op \in {"qualifying", "invalidating"} =>
         session'[s] = session[s] /\ (session[s].op = "qualifying" => today' <= session[s].at + 1)

\* Such a step keeps the invariant.
LEMMA QuietStep ==
    ASSUME EarnInv, UseInv', Quiet
    PROVE  EarnInv'
  <1>1. QualifiedCount' = QualifiedCount
    BY DEF Quiet, QualifiedCount
  <1>2. /\ QualifiedCount \in Nat /\ today \in Nat
        /\ \A c \in Claim : expires[c] \in Nat /\ Required[c] \in Nat
    BY CountType, ConstantsAssumption DEF EarnInv, UseInv, TypeOK, Day
  <1>3. UnusedIsEarned'
    BY <1>1, <1>2 DEF EarnInv, UnusedIsEarned, Quiet
  <1>4. EarnedIsThere'
    BY <1>1, <1>2 DEF EarnInv, EarnedIsThere, Reward, Quiet
  <1>5. \A s \in Session : session[s].claims \in SUBSET Claim /\ session[s].at \in Nat
    BY ConstantsAssumption DEF EarnInv, UseInv, TypeOK, TransactionType, Day
  <1>6. GrantPlan'
    BY <1>1, <1>2, <1>5 DEF EarnInv, GrantPlan, Reward, Quiet
  <1>7. RevokePlan'
    BY <1>1, <1>2, <1>5 DEF EarnInv, RevokePlan, Quiet
  <1>8. QED
    BY <1>3, <1>4, <1>6, <1>7 DEF EarnInv

\* Every step keeps the invariant.
LEMMA EarnStep == EarnInv /\ [Next]_vars => EarnInv'
  <1> SUFFICES ASSUME EarnInv, [Next]_vars PROVE EarnInv'
    OBVIOUS
  <1> USE DEF rows
  <1>u. UseInv /\ UseInv' /\ TypeOK /\ TypeOK'
    BY UseStep DEF EarnInv, UseInv
  <1>t. today \in Nat /\ today' \in Nat
    BY <1>u, ConstantsAssumption DEF TypeOK, Day
  <1>n. /\ QualifiedCount \in Nat
        /\ \A c \in Claim : expires[c] \in Nat /\ Required[c] \in Nat /\ Validity[c] \in Nat \ {0}
    BY <1>u, CountType, ConstantsAssumption DEF TypeOK
  <1>s. \A s \in Session :
          session[s] \in TransactionType /\ session[s].claims \in SUBSET Claim /\ session[s].at \in Nat
    BY <1>u, ConstantsAssumption DEF TypeOK, TransactionType, Day
  <1>p. \A s \in Session : session[s].op = "qualifying" => today <= session[s].at + 1
    BY DEF EarnInv, GrantPlan
  <1>o. ASSUME NEW s \in Session, NEW t, Open(s, t)
        PROVE  \A u \in Session : session'[u] = IF u = s THEN t ELSE session[u]
    BY <1>o, <1>u DEF Open, TypeOK
  <1>c. ASSUME NEW s \in Session, NEW t, Open(s, t),
               t.op \notin {"qualifying", "invalidating"},
               UNCHANGED <<referral, expires, today>>,
               \A c \in Claim : status'[c] # status[c] =>
                 status[c] # "NONE" /\ status'[c] \notin {"NONE", "AVAILABLE", "INVALIDATED"}
        PROVE  EarnInv'
    BY <1>c, <1>o, <1>p, <1>t, <1>u, QuietStep DEF Quiet
  <1>1. CASE UNCHANGED vars
    BY <1>1, <1>p, <1>t, <1>u, QuietStep DEF Quiet, vars
  <1>2. ASSUME NEW r \in Referral, CreatePending(r) PROVE EarnInv'
    <2>1. QualifiedCount' = QualifiedCount
      <3>1. /\ referral[r] = "NONE" /\ referral'[r] = "PENDING"
            /\ \A x \in Referral : x # r => referral'[x] = referral[x]
        BY <1>2, <1>u DEF CreatePending, TypeOK
      <3>2. QED
        BY <3>1, CountChanges
    <2>2. \A s \in Session : session[s].op \in {"qualifying", "invalidating"} =>
            referral'[session[s].row] = referral[session[s].row]
      BY <1>2, <1>u DEF CreatePending, EarnInv, GrantPlan, RevokePlan, TypeOK
    <2>3. QED
      BY <1>2, <1>u, <2>1, <2>2
      DEF CreatePending, EarnInv, UnusedIsEarned, EarnedIsThere, GrantPlan, RevokePlan
  <1>3. ASSUME NEW s \in Session, NEW r \in Referral, BeginQualify(s, r) \/ BeginInvalidate(s, r)
        PROVE  EarnInv'
    <2>1. PICK t : Open(s, t) /\ t.op \in {"qualify", "invalidate"}
      BY <1>3 DEF BeginQualify, BeginInvalidate, Transaction
    <2>2. QED
      BY <1>3, <2>1, <1>c DEF BeginQualify, BeginInvalidate
  <1>4. ASSUME NEW s \in Session, LockQualify(s) PROVE EarnInv'
    <2>1. CASE Close(s)
      BY <1>4, <2>1, <1>c DEF LockQualify, Close, Idle, Transaction
    <2>2. ASSUME ~Close(s) PROVE EarnInv'
      <3> DEFINE t == Transaction("qualifying", session[s].row, None, Reached(QualifiedCount + 1), today)
      <3>1. Open(s, t) /\ referral[session[s].row] = "PENDING"
        BY <1>4, <2>2 DEF LockQualify
      <3>2. t.op = "qualifying" /\ t.row = session[s].row /\ t.at = today
              /\ t.claims = Reached(QualifiedCount + 1)
        BY DEF Transaction
      <3>3. QualifiedCount' = QualifiedCount
        BY <1>4 DEF LockQualify, QualifiedCount
      <3>4. session[s].row \in Referral
        BY <1>4, <1>s DEF LockQualify, TransactionType
      <3>5. UnusedIsEarned' /\ EarnedIsThere'
        BY <1>4, <3>3 DEF LockQualify, EarnInv, UnusedIsEarned, EarnedIsThere
      <3>6. RevokePlan'
        BY <1>4, <1>o, <3>1, <3>2, <3>3 DEF LockQualify, EarnInv, RevokePlan
      <3>7. /\ \A c \in t.claims : Required[c] <= QualifiedCount + 1 /\ Grantable(c)
            /\ \A c \in Reward \ t.claims : Required[c] <= QualifiedCount + 1 => ~Grantable(c)
        <4>1. \A c \in Reached(QualifiedCount + 1) : Required[c] <= QualifiedCount + 1 /\ Grantable(c)
          BY <1>n DEF Reached, Reward, Grant
        <4>2. \A c \in Reward \ Reached(QualifiedCount + 1) : Required[c] <= QualifiedCount + 1 => ~Grantable(c)
          BY DEF Reached
        <4>3. QED
          BY <3>2, <4>1, <4>2
      <3>8. GrantPlan'
        <4> HIDE DEF t
        <4>1. session'[s] = t /\ \A u \in Session : u # s => session'[u] = session[u]
          BY <1>o, <3>1
        <4>2. UNCHANGED <<referral, status, expires, today>> /\ GrantPlan
          BY <1>4 DEF LockQualify, EarnInv
        <4>3. /\ t.row \in Referral /\ referral[t.row] = "PENDING"
              /\ t.at <= today /\ today <= t.at + 1
          BY <1>t, <3>1, <3>2, <3>4
        <4>4. /\ \A c \in t.claims :
                   Required[c] <= QualifiedCount + 1 /\ (status[c] = "INVALIDATED" => expires[c] > t.at)
              /\ \A c \in Reward \ t.claims : Required[c] <= QualifiedCount + 1 =>
                   status[c] # "NONE" /\ (status[c] = "INVALIDATED" => expires[c] <= t.at)
          BY <1>n, <1>t, <3>2, <3>7 DEF Grantable, Reward
        <4>5. QED
          BY <3>3, <4>1, <4>2, <4>3, <4>4 DEF GrantPlan, Reward
      <3>9. QED
        BY <1>u, <3>5, <3>6, <3>8 DEF EarnInv
    <2>3. QED
      BY <2>1, <2>2
  <1>5. ASSUME NEW s \in Session, CommitQualify(s) PROVE EarnInv'
    <2>1. QualifiedCount' = QualifiedCount + 1
      <3>1. /\ session[s].row \in Referral /\ referral[session[s].row] = "PENDING"
            /\ referral'[session[s].row] = "QUALIFIED"
            /\ \A x \in Referral : x # session[s].row => referral'[x] = referral[x]
        BY <1>5, <1>u DEF CommitQualify, EarnInv, GrantPlan, TypeOK
      <3>2. QED
        BY <3>1, CountChanges
    <2>2. \A c \in Claim :
            /\ status'[c] = IF c \in session[s].claims THEN "AVAILABLE" ELSE status[c]
            /\ c \notin session[s].claims => expires'[c] = expires[c]
      BY <1>5, <1>u DEF CommitQualify, TypeOK
    <2>3. UnusedIsEarned'
      BY <1>5, <1>n, <2>1, <2>2 DEF CommitQualify, EarnInv, UnusedIsEarned, GrantPlan
    <2>4. EarnedIsThere'
      BY <1>5, <1>n, <1>s, <1>t, <2>1, <2>2 DEF CommitQualify, EarnInv, GrantPlan, EarnedIsThere, Reward
    <2>5. \A u \in Session : session'[u].op \notin {"qualifying", "invalidating"}
      BY <1>5, <1>o, <1>u DEF CommitQualify, Close, Idle, Transaction, UseInv, ReferrerLock
    <2>6. QED
      BY <1>u, <2>3, <2>4, <2>5 DEF EarnInv, GrantPlan, RevokePlan
  <1>6. ASSUME NEW s \in Session, LockInvalidate(s) PROVE EarnInv'
    <2>1. CASE Close(s)
      BY <1>6, <2>1, <1>c DEF LockInvalidate, Close, Idle, Transaction
    <2>2. ASSUME ~Close(s) PROVE EarnInv'
      <3> DEFINE t == Transaction("invalidating", session[s].row, None, Unearned(QualifiedCount - 1), today)
      <3>1. Open(s, t) /\ referral[session[s].row] = "QUALIFIED"
        BY <1>6, <2>2 DEF LockInvalidate
      <3>2. t.op = "invalidating" /\ t.row = session[s].row /\ t.claims = Unearned(QualifiedCount - 1)
        BY DEF Transaction
      <3>3. QualifiedCount' = QualifiedCount
        BY <1>6 DEF LockInvalidate, QualifiedCount
      <3>4. session[s].row \in Referral
        BY <1>6, <1>s DEF LockInvalidate, TransactionType
      <3>5. UnusedIsEarned' /\ EarnedIsThere'
        BY <1>6, <3>3 DEF LockInvalidate, EarnInv, UnusedIsEarned, EarnedIsThere
      <3>6. GrantPlan'
        BY <1>6, <1>o, <3>1, <3>2, <3>3 DEF LockInvalidate, EarnInv, GrantPlan
      <3>7. /\ \A c \in t.claims : Required[c] > QualifiedCount - 1
            /\ \A c \in Claim \ t.claims :
                 status[c] = "AVAILABLE" /\ expires[c] > today => Required[c] <= QualifiedCount - 1
        BY <3>2, <1>n, <1>t DEF Unearned
      <3>8. RevokePlan'
        BY <1>6, <1>o, <3>1, <3>2, <3>3, <3>4, <3>7 DEF LockInvalidate, EarnInv, RevokePlan
      <3>9. QED
        BY <1>u, <3>5, <3>6, <3>8 DEF EarnInv
    <2>3. QED
      BY <2>1, <2>2
  <1>7. ASSUME NEW s \in Session, CommitInvalidate(s) PROVE EarnInv'
    <2>1. QualifiedCount' = QualifiedCount - 1
      <3>1. /\ session[s].row \in Referral /\ referral[session[s].row] = "QUALIFIED"
            /\ referral'[session[s].row] = "INVALIDATED"
            /\ \A x \in Referral : x # session[s].row => referral'[x] = referral[x]
        BY <1>7, <1>u DEF CommitInvalidate, EarnInv, RevokePlan, TypeOK
      <3>2. QED
        BY <3>1, CountChanges
    <2>2. \A c \in Claim :
            /\ c \in session[s].claims => status'[c] = "INVALIDATED"
            /\ c \notin session[s].claims => status'[c] \in {status[c], "EXPIRED"}
            /\ status'[c] = "NONE" => status[c] = "NONE"
      BY <1>7, <1>u DEF CommitInvalidate, Overdue, TypeOK
    <2>3. UnusedIsEarned'
      BY <1>7, <1>n, <2>1, <2>2 DEF CommitInvalidate, EarnInv, UnusedIsEarned, RevokePlan
    <2>4. EarnedIsThere'
      BY <1>7, <1>n, <2>1, <2>2 DEF CommitInvalidate, EarnInv, RevokePlan, EarnedIsThere, Reward
    <2>5. \A u \in Session : session'[u].op \notin {"qualifying", "invalidating"}
      BY <1>7, <1>o, <1>u DEF CommitInvalidate, Close, Idle, Transaction, UseInv, ReferrerLock
    <2>6. QED
      BY <1>u, <2>3, <2>4, <2>5 DEF EarnInv, GrantPlan, RevokePlan
  <1>8. ASSUME NEW s \in Session, RollbackInvalidate(s) \/ RollbackRedeem(s) PROVE EarnInv'
    BY <1>8, <1>c DEF RollbackInvalidate, RollbackRedeem, Close, Idle, Transaction
  <1>9. ASSUME NEW s \in Session, NEW c \in Claim, NEW d \in Day \cup {None}, BeginRedeem(s, c, d)
        PROVE  EarnInv'
    <2>1. PICK t : Open(s, t) /\ t.op = "redeeming"
      BY <1>9 DEF BeginRedeem, Transaction
    <2>2. QED
      BY <1>9, <2>1, <1>c DEF BeginRedeem
  <1>10. ASSUME NEW s \in Session, CommitRedeem(s) PROVE EarnInv'
    <2>1. \A c \in Claim : status'[c] # status[c] => status[c] # "NONE" /\ status'[c] = "REDEEMED"
      BY <1>10, <1>u DEF CommitRedeem, TypeOK, UseInv, RedeemingUnused
    <2>2. QED
      BY <1>10, <2>1, <1>c DEF CommitRedeem, Close, Idle, Transaction
  <1>11. ASSUME NEW claims, MarkExpired(claims), \A c \in claims : status[c] = "AVAILABLE",
                UNCHANGED <<referral, expires, today, session>>
         PROVE  EarnInv'
    <2>1. \A c \in Claim : status'[c] # status[c] => status[c] = "AVAILABLE" /\ status'[c] = "EXPIRED"
      BY <1>11, <1>u DEF MarkExpired, TypeOK
    <2>2. QED
      BY <1>11, <2>1, <1>p, <1>t, <1>u, QuietStep DEF Quiet
  <1>12. CASE NextDay
    BY <1>12, <1>s, <1>t, <1>u, QuietStep DEF NextDay, Quiet
  <1>13. CASE CreateVersion \/ ChangeSubscription \/ \E d \in Day : BuyPass(d)
    BY <1>13, <1>p, <1>t, <1>u, QuietStep DEF CreateVersion, ChangeSubscription, BuyPass, Quiet
  <1>14. ASSUME NEW c \in Claim, RedeemOverdue(c) PROVE EarnInv'
    BY <1>14, <1>11 DEF RedeemOverdue, Overdue
  <1>15. ASSUME NEW claims, ExpireOverdue(claims) PROVE EarnInv'
    BY <1>15, <1>11 DEF ExpireOverdue, Overdue
  <1>16. QED
    BY <1>1, <1>2, <1>3, <1>4, <1>5, <1>6, <1>7, <1>8, <1>9, <1>10, <1>12, <1>13, <1>14, <1>15
    DEF Next

\* What the referrer can still exchange is earned by referrals that are
\* qualified now, whatever qualifications and invalidations race.
THEOREM UnusedIsEarnedCorrect == Spec => []UnusedIsEarned
  <1>1. EarnInv => UnusedIsEarned
    BY DEF EarnInv
  <1>2. QED
    BY <1>1, EarnInit, EarnStep, PTL DEF Spec

\* An earned reward is there, used or over: no invalidation takes it away.
THEOREM EarnedIsThereCorrect == Spec => []EarnedIsThere
  <1>1. EarnInv => EarnedIsThere
    BY DEF EarnInv
  <1>2. QED
    BY <1>1, EarnInit, EarnStep, PTL DEF Spec

\* A claim whose days are over is never made available again.
THEOREM ExpiredForGoodCorrect == Spec => ExpiredForGood
  <1> DEFINE Over == \A c \in Claim :
        status[c] \notin {"NONE", "AVAILABLE"} /\ expires[c] < today => status'[c] # "AVAILABLE"
  <1>1. ASSUME EarnInv, [Next]_vars PROVE [Over]_vars
    <2>1. TypeOK /\ \A s \in Session : session[s].at \in Nat
      BY <1>1, ConstantsAssumption DEF EarnInv, UseInv, TypeOK, TransactionType, Day
    <2>2. /\ today \in Nat
          /\ \A c \in Claim : expires[c] \in Nat
      BY <2>1, ConstantsAssumption DEF TypeOK, Day
    <2>3. ASSUME NEW s \in Session, CommitQualify(s) PROVE Over
      BY <1>1, <2>1, <2>2, <2>3 DEF CommitQualify, EarnInv, GrantPlan, UseInv, GrantingUnused, TypeOK
    <2>4. ASSUME NEW s \in Session, CommitInvalidate(s) PROVE Over
      BY <2>1, <2>4 DEF CommitInvalidate, TypeOK
    <2>5. ASSUME NEW s \in Session, CommitRedeem(s) PROVE Over
      BY <2>1, <2>5 DEF CommitRedeem, TypeOK
    <2>6. ASSUME NEW claims, MarkExpired(claims) PROVE Over
      BY <2>1, <2>6 DEF MarkExpired, TypeOK
    <2>7. CASE UNCHANGED status
      BY <2>7
    <2>8. QED
      BY <1>1, <2>3, <2>4, <2>5, <2>6, <2>7
      DEF Next, vars, rows, CreatePending, BeginQualify, BeginInvalidate, LockQualify, LockInvalidate,
          RollbackInvalidate, BeginRedeem, RollbackRedeem, RedeemOverdue, ExpireOverdue,
          CreateVersion, BuyPass, ChangeSubscription, NextDay
  <1>2. QED
    BY <1>1, EarnInit, EarnStep, PTL DEF Spec, ExpiredForGood
=============================================================================
