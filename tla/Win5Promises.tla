---------------------------- MODULE Win5Promises ----------------------------
(***************************************************************************)
(* What a WIN5 day promises, over the rows that members, accounting and    *)
(* the public read: day passes, refunds and evaluations.  Win5Day is how   *)
(* the code keeps it.                                                      *)
(***************************************************************************)
EXTENDS Naturals, Sequences

CONSTANTS
    Member, Leg,
    Win5Bounds    \* the bounds one behaviour may keep to: revisions of the product,
                  \* previews, changes of a race, results of a leg, imports, members
                  \* who buy, time

VARIABLES
    pass,         \* Member -> row of day_passes with its entitlements
    refund,       \* Member -> the refund at the provider, its event, the payment rows
    win5Saved,    \* the contents of the evaluation draft, by revision
    evaluations   \* rows of win5_evaluation_versions

\* The first publication, the worker and the sale all start passes: a pass has
\* one entitlement from its start on and none before, and one that is refunded
\* was never used.
StartsOnce ==
    \A m \in Member : pass[m].access = IF pass[m].status = "ACTIVE" THEN 1 ELSE 0

\* A refund that the administrator's request and the provider's event both
\* report is booked once, with the pass closed, and only what the provider
\* gave back is booked.
RefundBookedOnce ==
    \A m \in Member :
        /\ refund[m].booked = IF pass[m].status = "REFUNDED" THEN 1 ELSE 0
        /\ refund[m].booked > 0 => refund[m].done

\* A pass that is in use or refunded stays as it is, whatever was read before.
PassesSettle ==
    \A m \in Member : pass[m].status \in {"ACTIVE", "REFUNDED"} => pass'[m] = pass[m]

\* What an evaluation says: the version it is of (0 if there is none), the
\* results it is made of, and what they come to.
UpTo(name) == UNION {1 .. b[name] : b \in Win5Bounds}
EvaluationRow == [version : UpTo("previews"), sources : [Leg -> UpTo("results")],
                  status : {"REVIEW_REQUIRED", "WIN5_ALL_WINNERS_RECOMMENDED", "WIN5_MISSED",
                            "WIN5_PARTIAL"}]

EvaluationLedger ==
    INSTANCE ReviewedLedger WITH Content <- EvaluationRow, saved <- win5Saved, ledger <- evaluations

\* An evaluation takes over one saved revision as it stands, once, although
\* results are corrected and versions published while it is confirmed.
EvaluationsAreReviewed == EvaluationLedger!Spec
=============================================================================
