--------------------------- MODULE ReferralRewards ---------------------------
(***************************************************************************)
(* The rewards of one referrer (apps/api/src/referrals.service.ts and      *)
(* referral-benefits.service.ts): a referred member's confirmed identity   *)
(* qualifies a referral, the number of qualified referrals earns rewards,  *)
(* an administrator may invalidate a referral and with it what is no       *)
(* longer earned, and the referrer exchanges what is earned for access.    *)
(*                                                                         *)
(* A reward of a fixed milestone and a grant of a version of the           *)
(* configurable benefit are both claims.  Every row, unique key and        *)
(* advisory lock is keyed by the referrer or by one of the claims, so that *)
(* referrers do not interact.                                              *)
(*                                                                         *)
(* Transactions run at READ COMMITTED.  Each is two steps: what it reads   *)
(* once its advisory lock is taken, and its writes, which others see when  *)
(* it commits; a CHECK or unique constraint that fails there rolls it      *)
(* back.  A lock is held by the transactions between the two steps.        *)
(***************************************************************************)
EXTENDS Naturals, FiniteSets

CONSTANTS
    Session,        \* API requests in flight
    Referral,       \* members who registered with the referrer's code
    Claim,          \* rewards (one per milestone), grants (one per version and unit)
    VersionOf,      \* Claim -> benefit version of a grant, 0 for a reward
    Granting,       \* versions published with granting enabled
    LastVersion,    \* bound: versions of the benefit
    Kind,           \* Claim -> what it is exchanged for
    Required,       \* Claim -> qualified referrals it takes
    Validity,       \* Claim -> days in which it may be exchanged
    LastDay,        \* bound: days in a behaviour
    None

Kinds == {"DAY_PASS", "MONTHLY_ACCESS", "LIMITED_CONTENT"}
Day   == 0 .. LastDay
Reward == {c \in Claim : VersionOf[c] = 0}
Grant  == {c \in Claim : VersionOf[c] > 0}

ReferralStatus == {"NONE", "PENDING", "QUALIFIED", "INVALIDATED"}
ClaimStatus    == {"NONE", "AVAILABLE", "REDEEMED", "EXPIRED", "INVALIDATED"}

ASSUME ConstantsAssumption ==
    /\ LastVersion \in Nat /\ LastDay \in Nat
    /\ VersionOf \in [Claim -> 0 .. LastVersion]
    /\ Granting \subseteq 1 .. LastVersion
    /\ Kind \in [Claim -> Kinds]
    /\ \A c \in Reward : Kind[c] = "DAY_PASS"
    /\ Required \in [Claim -> Nat \ {0}]
    /\ Validity \in [Claim -> Nat \ {0}]
    /\ IsFiniteSet(Referral)
    /\ None \notin Claim \cup Referral \cup Day
    /\ "PURCHASE" \notin Claim \cup {None}

VARIABLES
    referral,       \* Referral -> ReferralStatus
    status,         \* Claim -> ClaimStatus, "NONE" where there is no row
    expires,        \* Claim -> expiresAt
    pass,           \* Day -> the claim exchanged for a pass, "PURCHASE" or None
    monthly,        \* claims exchanged for a period of access
    latest,         \* the benefit's latest version, 0 before it is created
    paid,           \* does the referrer have a paid subscription
    today,
    session         \* Session -> its open transaction

vars == <<referral, status, expires, pass, monthly, latest, paid, today, session>>
rows == <<referral, status, expires, pass, monthly>>

\* A transaction: what it does, to which row, for which day; the claims it
\* will write and the time it read.
Transaction(op, row, day, claims, at) ==
    [op |-> op, row |-> row, day |-> day, claims |-> claims, at |-> at]
Idle == Transaction("idle", None, None, {}, 0)
Ops  == {"idle", "qualify", "qualifying", "invalidate", "invalidating", "redeeming"}
TransactionType ==
    {t \in [op : Ops, row : Referral \cup Claim \cup {None}, day : Day \cup {None},
            claims : SUBSET Claim, at : Day] :
        /\ t.op = "redeeming" => t.row \in Claim
        /\ t.op \in {"qualify", "qualifying", "invalidate", "invalidating"} => t.row \in Referral}

Init ==
    /\ referral = [r \in Referral |-> "NONE"]
    /\ status = [c \in Claim |-> "NONE"]
    /\ expires = [c \in Claim |-> 0]
    /\ pass = [d \in Day |-> None]
    /\ monthly = {}
    /\ latest = 0
    /\ paid \in BOOLEAN
    /\ today = 0
    /\ session = [s \in Session |-> Idle]

-----------------------------------------------------------------------------
(***************************************************************************)
(* Helpers.                                                                *)
(***************************************************************************)
Open(s, t) == session' = [session EXCEPT ![s] = t]
Close(s)   == Open(s, Idle)

QualifiedCount == Cardinality({r \in Referral : referral[r] = "QUALIFIED"})

\* Faulty variant: nobody waits for the lock "referrals:<referrer>".
ReferrerUnlocked == TRUE

\* The lock "referrals:<referrer>" is free.
ReferrerFree == \A s \in Session : session[s].op \notin {"qualifying", "invalidating"}

\* The lock "referral-reward:<id>" or "referral-benefit-grant:<id>" is free.
ClaimFree(c) == \A s \in Session : session[s].op = "redeeming" => session[s].row # c

\* Faulty variant: an invalidated claim is restored after its deadline, too.
GrantableAtAnyAge(c) == status[c] \in {"NONE", "INVALIDATED"}

\* There is no row yet, or an invalidated one whose deadline is not past.
Grantable(c) == status[c] = "NONE" \/ (status[c] = "INVALIDATED" /\ expires[c] > today)

\* grantReachedMilestones: every reward whose number is reached;
\* recordQualification: the latest version whose number is reached just now.
Reached(n) ==
    {c \in Reward : Required[c] <= n /\ Grantable(c)}
      \cup {c \in Grant : VersionOf[c] = latest /\ latest \in Granting
                            /\ Required[c] = n /\ Grantable(c)}

\* Faulty variant: what takes exactly n is taken back as well.
UnearnedAtNumber(n) ==
    {c \in Claim : status[c] = "AVAILABLE" /\ expires[c] > today /\ Required[c] >= n}

\* What an invalidation that leaves n qualified referrals takes back.
Unearned(n) ==
    {c \in Claim : status[c] = "AVAILABLE" /\ expires[c] > today /\ Required[c] > n}

\* The claims still marked available after their deadline.
Overdue(claims, at) == {c \in claims : status[c] = "AVAILABLE" /\ expires[c] <= at}

\* Faulty variant: the tables have no CHECK on used and invalidated rows.
CheckAlwaysHolds(c, new) == TRUE

\* The CHECK of referral_rewards and referral_benefit_grants: a row is never
\* both used and invalidated.
CheckHolds(c, new) == {status[c], new} # {"REDEEMED", "INVALIDATED"}

MarkExpired(claims) ==
    status' = [c \in Claim |-> IF c \in claims THEN "EXPIRED" ELSE status[c]]

-----------------------------------------------------------------------------
(***************************************************************************)
(* Referrals.                                                              *)
(***************************************************************************)

\* createPending: a member registers with the referrer's code.
CreatePending(r) ==
    /\ referral[r] = "NONE"
    /\ referral' = [referral EXCEPT ![r] = "PENDING"]
    /\ UNCHANGED <<status, expires, pass, monthly, latest, paid, today, session>>

\* qualify reads the referral before it waits for the lock; the member's
\* confirmation may arrive on several paths at once.
BeginQualify(s, r) ==
    /\ session[s] = Idle /\ referral[r] = "PENDING"
    /\ Open(s, Transaction("qualify", r, None, {}, 0))
    /\ UNCHANGED <<rows, latest, paid, today>>

\* Under the lock the referral must still be pending.
LockQualify(s) ==
    /\ session[s].op = "qualify" /\ ReferrerFree
    /\ IF referral[session[s].row] = "PENDING"
       THEN Open(s, Transaction("qualifying", session[s].row, None, Reached(QualifiedCount + 1), today))
       ELSE Close(s)
    /\ UNCHANGED <<rows, latest, paid, today>>

\* The referral, the rewards and the grants are committed together.  A
\* restored claim keeps its deadline.
CommitQualify(s) ==
    LET t == session[s]
    IN  /\ t.op = "qualifying"
        /\ referral' = [referral EXCEPT ![t.row] = "QUALIFIED"]
        /\ status' = [c \in Claim |-> IF c \in t.claims THEN "AVAILABLE" ELSE status[c]]
        /\ expires' = [c \in Claim |->
                         IF c \in t.claims /\ status[c] = "NONE" THEN t.at + Validity[c] ELSE expires[c]]
        /\ Close(s)
        /\ UNCHANGED <<pass, monthly, latest, paid, today>>

\* invalidate finds the referral and waits for the lock.
BeginInvalidate(s, r) ==
    /\ session[s] = Idle /\ referral[r] # "NONE"
    /\ Open(s, Transaction("invalidate", r, None, {}, 0))
    /\ UNCHANGED <<rows, latest, paid, today>>

\* Only a qualified referral can be invalidated.
LockInvalidate(s) ==
    /\ session[s].op = "invalidate" /\ ReferrerFree
    /\ IF referral[session[s].row] = "QUALIFIED"
       THEN Open(s, Transaction("invalidating", session[s].row, None, Unearned(QualifiedCount - 1), today))
       ELSE Close(s)
    /\ UNCHANGED <<rows, latest, paid, today>>

\* Overdue claims expire, unearned ones are invalidated by their ids.
CommitInvalidate(s) ==
    LET t == session[s]
    IN  /\ t.op = "invalidating"
        /\ \A c \in t.claims : CheckHolds(c, "INVALIDATED")
        /\ referral' = [referral EXCEPT ![t.row] = "INVALIDATED"]
        /\ status' = [c \in Claim |->
                        IF c \in t.claims THEN "INVALIDATED"
                        ELSE IF c \in Overdue(Claim, t.at) THEN "EXPIRED"
                        ELSE status[c]]
        /\ Close(s)
        /\ UNCHANGED <<expires, pass, monthly, latest, paid, today>>

\* One of the claims was used meanwhile: nothing is invalidated.
RollbackInvalidate(s) ==
    /\ session[s].op = "invalidating"
    /\ \E c \in session[s].claims : ~CheckHolds(c, "INVALIDATED")
    /\ Close(s)
    /\ UNCHANGED <<rows, latest, paid, today>>

-----------------------------------------------------------------------------
(***************************************************************************)
(* Claims.                                                                 *)
(***************************************************************************)

\* What redeem checks of a claim and the day asked for.
Redeemable(c, d) ==
    /\ status[c] = "AVAILABLE" /\ expires[c] > today
    /\ \/ /\ Kind[c] = "DAY_PASS"
          /\ d \in Day /\ today <= d /\ d <= expires[c] /\ pass[d] = None
       \/ Kind[c] = "MONTHLY_ACCESS" /\ d = None /\ ~paid

\* redeem takes the claim's lock, reads and checks it.
BeginRedeem(s, c, d) ==
    /\ session[s] = Idle /\ ClaimFree(c)
    /\ Redeemable(c, d)
    /\ Open(s, Transaction("redeeming", c, d, {}, today))
    /\ UNCHANGED <<rows, latest, paid, today>>

\* The day was not taken meanwhile (unique key userId, raceDate).
DayFree(t) == t.day # None => pass[t.day] = None

\* The access is created and the claim is marked by its id.
CommitRedeem(s) ==
    LET t == session[s]
    IN  /\ t.op = "redeeming"
        /\ DayFree(t) /\ CheckHolds(t.row, "REDEEMED")
        /\ status' = [status EXCEPT ![t.row] = "REDEEMED"]
        /\ pass' = [d \in Day |-> IF d = t.day THEN t.row ELSE pass[d]]
        /\ monthly' = IF t.day = None THEN monthly \cup {t.row} ELSE monthly
        /\ Close(s)
        /\ UNCHANGED <<referral, expires, latest, paid, today>>

\* The day was taken or the claim invalidated meanwhile.
RollbackRedeem(s) ==
    /\ session[s].op = "redeeming"
    /\ ~DayFree(session[s]) \/ ~CheckHolds(session[s].row, "REDEEMED")
    /\ Close(s)
    /\ UNCHANGED <<rows, latest, paid, today>>

\* An attempt to use an overdue reward marks it; an attempt on a grant is
\* rolled back with the exception.
RedeemOverdue(c) ==
    /\ c \in Overdue(Reward, today) /\ ClaimFree(c)
    /\ MarkExpired({c})
    /\ UNCHANGED <<referral, expires, pass, monthly, latest, paid, today, session>>

\* memberSummary marks the overdue rewards, memberGrants and adminGrants the
\* overdue grants, with one UPDATE each.
ExpireOverdue(claims) ==
    /\ Overdue(claims, today) # {}
    /\ MarkExpired(Overdue(claims, today))
    /\ UNCHANGED <<referral, expires, pass, monthly, latest, paid, today, session>>

-----------------------------------------------------------------------------
(***************************************************************************)
(* The configuration, other purchases and time.                            *)
(***************************************************************************)

\* create and createVersion of the benefit.
CreateVersion ==
    /\ latest < LastVersion
    /\ latest' = latest + 1
    /\ UNCHANGED <<rows, paid, today, session>>

\* createDayPassAccess for a paid day pass.
BuyPass(d) ==
    /\ today <= d /\ pass[d] = None
    /\ pass' = [pass EXCEPT ![d] = "PURCHASE"]
    /\ UNCHANGED <<referral, status, expires, monthly, latest, paid, today, session>>

\* A subscription starts or ends.
ChangeSubscription ==
    /\ paid' = ~paid
    /\ UNCHANGED <<rows, latest, today, session>>

\* Transactions time out within seconds, so that none sees two midnights.
NextDay ==
    /\ today < LastDay
    /\ \A s \in Session : session[s].op \in {"qualifying", "invalidating", "redeeming"} =>
                            session[s].at = today
    /\ today' = today + 1
    /\ UNCHANGED <<rows, latest, paid, session>>

Next ==
    \/ \E r \in Referral : CreatePending(r)
    \/ \E s \in Session, r \in Referral : BeginQualify(s, r) \/ BeginInvalidate(s, r)
    \/ \E s \in Session : LockQualify(s) \/ CommitQualify(s)
    \/ \E s \in Session : LockInvalidate(s) \/ CommitInvalidate(s) \/ RollbackInvalidate(s)
    \/ \E s \in Session, c \in Claim, d \in Day \cup {None} : BeginRedeem(s, c, d)
    \/ \E s \in Session : CommitRedeem(s) \/ RollbackRedeem(s)
    \/ \E c \in Claim : RedeemOverdue(c)
    \/ ExpireOverdue(Reward) \/ ExpireOverdue(Grant)
    \/ CreateVersion \/ ChangeSubscription \/ NextDay
    \/ \E d \in Day : BuyPass(d)

Spec == Init /\ [][Next]_vars

-----------------------------------------------------------------------------
(***************************************************************************)
(* Properties.                                                             *)
(***************************************************************************)

\* Every variable holds a value of its type.
TypeOK ==
    /\ referral \in [Referral -> ReferralStatus]
    /\ status \in [Claim -> ClaimStatus]
    /\ expires \in [Claim -> Nat]
    /\ pass \in [Day -> Claim \cup {"PURCHASE", None}]
    /\ monthly \subseteq Claim
    /\ latest \in 0 .. LastVersion
    /\ paid \in BOOLEAN
    /\ today \in Day
    /\ session \in [Session -> TransactionType]

\* The accesses a claim was exchanged for.
Uses(c) == {d \in Day : pass[d] = c} \cup {m \in {None} : c \in monthly}

\* A claim that was redeemed gave access exactly once; one that was not
\* redeemed gave none, even if it was invalidated while being redeemed.
UsedOnce ==
    \A c \in Claim :
        /\ status[c] = "REDEEMED" <=> Uses(c) # {}
        /\ \A x, y \in Uses(c) : x = y

\* A claim that can still be exchanged is earned: at least as many referrals
\* are qualified as it takes, however qualifications and invalidations race.
UnusedIsEarned ==
    \A c \in Claim :
        status[c] = "AVAILABLE" /\ expires[c] > today => Required[c] <= QualifiedCount

\* A reward that is earned is there: it can be exchanged, or was, or its days
\* are over.  No invalidation that raced with a qualification takes it away.
EarnedIsThere ==
    \A c \in Reward :
        Required[c] <= QualifiedCount =>
            /\ status[c] # "NONE"
            /\ status[c] = "INVALIDATED" => expires[c] <= today

\* A claim that was given and whose days are over can never be exchanged
\* again, not even by being invalidated late and earned anew.
ExpiredForGood ==
    [][\A c \in Claim :
        status[c] \notin {"NONE", "AVAILABLE"} /\ expires[c] < today => status'[c] # "AVAILABLE"]_vars

\* What was redeemed stays redeemed.
RedeemedIsFinal ==
    [][\A c \in Claim : status[c] = "REDEEMED" => status'[c] = "REDEEMED"]_vars
=============================================================================
