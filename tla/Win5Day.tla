------------------------------- MODULE Win5Day -------------------------------
(***************************************************************************)
(* The WIN5 product of one day, the day passes that open it, and its       *)
(* evaluation.  Staff save the legs, preview and publish versions          *)
(* (apps/api/src/win5.controller.ts); a pass bought before the first       *)
(* version waits for it or for the day itself (day-pass-access.ts,         *)
(* apps/worker/src/day-pass-activator.ts), and one that waited in vain is  *)
(* refunded (billing-admin-resolution.service.ts, stripe-webhook.service.ts);*)
(* when the legs have results they are imported and confirmed              *)
(* (win5-results.controller.ts).                                           *)
(*                                                                         *)
(* Product transactions take the advisory lock 7262027, imports of results *)
(* 7262028; races, passes and confirmations take neither.  A transaction   *)
(* that others can interleave with has a step that reads and one that      *)
(* writes and commits, both within a unit of time.  Left out: which race a *)
(* leg is, roles, correction policy, switches, audit, and repeated         *)
(* idempotency keys.                                                       *)
(***************************************************************************)
EXTENDS Win5Promises, FiniteSets

CONSTANTS
    Request,          \* API requests in flight
    Worker,           \* the process that starts passes
    Horse,
    DayStart, DayEnd, \* dayPassWindow of the day
    FirstRace,        \* when the first leg starts, as registered
    Limit             \* passes started in one transaction

ASSUME ConstantsAssumption ==
    /\ Worker \notin Request
    /\ DayStart \in Nat /\ FirstRace \in Nat /\ DayEnd \in Nat /\ Limit \in Nat \ {0}
    /\ 0 < DayStart /\ DayStart < FirstRace /\ FirstRace < DayEnd
    /\ IsFiniteSet(Leg) /\ Leg # {} /\ IsFiniteSet(Member)
    /\ Win5Bounds \subseteq [revision : Nat, previews : Nat, changes : Nat, results : Nat,
                             imports : Nat, buyers : SUBSET Member, time : Nat]

VARIABLES
    race,         \* Leg -> startsAt, status, revision
    product,      \* revision (0 before it exists), horses named in each leg
    previews,     \* rows of prediction_product_previews
    versions,     \* rows of prediction_product_versions
    result,       \* Leg -> the winners of race_result_versions
    request,      \* Request and Worker -> what its transaction is about to do
    now, bound

staff == <<product, previews, versions>>
sales == <<pass, refund>>
outcome == <<result, win5Saved, evaluations>>
vars == <<race, staff, sales, outcome, request, now, bound>>

Process == Request \cup {Worker}
Idle == [op |-> "idle"]
Does(q, what) == request' = [request EXCEPT ![q] = what]
NoOne == "NONE"   \* a race without a single winner

Init ==
    /\ race = [l \in Leg |-> [startsAt |-> FirstRace, status |-> "SCHEDULED", revision |-> 1]]
    /\ product = [revision |-> 0, legs |-> [l \in Leg |-> {}]]
    /\ previews = {} /\ versions = <<>>
    /\ pass = [m \in Member |-> [status |-> "NONE", source |-> "PURCHASE", starts |-> 0, access |-> 0]]
    /\ refund = [m \in Member |-> [answer |-> "none", done |-> FALSE, heard |-> FALSE, booked |-> 0]]
    /\ result = [l \in Leg |-> <<>>]
    /\ win5Saved = <<>> /\ evaluations = <<>>
    /\ request = [q \in Process |-> Idle]
    /\ now = 1 /\ bound \in Win5Bounds

-----------------------------------------------------------------------------
(***************************************************************************)
(* The legs' races, edited and given results under other locks.            *)
(***************************************************************************)
ChangeRace(l, start, status) ==
    /\ race[l].revision <= bound.changes + Len(result[l])
    /\ race' = [race EXCEPT ![l] = [startsAt |-> start, status |-> status, revision |-> @.revision + 1]]
    /\ UNCHANGED <<staff, sales, outcome, request, now, bound>>

ConfirmRace(l, winner) ==
    /\ Len(result[l]) < bound.results
    /\ now >= race[l].startsAt
    /\ result' = [result EXCEPT ![l] = Append(@, winner)]
    /\ race' = [race EXCEPT ![l].status = "FINISHED", ![l].revision = @ + 1]
    /\ UNCHANGED <<staff, sales, win5Saved, evaluations, request, now, bound>>

-----------------------------------------------------------------------------
(***************************************************************************)
(* The product.                                                            *)
(***************************************************************************)

\* The advisory lock 7262027.
LockFree == \A q \in Process : request[q].op \notin {"publish", "start"}

\* It is created once for its day, and edited by clients that hold its revision.
SaveProduct ==
    /\ LockFree
    /\ product.revision < bound.revision
    /\ product' = [product EXCEPT !.revision = @ + 1]
    /\ UNCHANGED <<race, previews, versions, sales, outcome, request, now, bound>>

SaveLeg(l, horses) ==
    /\ LockFree
    /\ product.revision \in 1 .. bound.revision - 1
    /\ product' = [revision |-> product.revision + 1, legs |-> [product.legs EXCEPT ![l] = horses]]
    /\ UNCHANGED <<race, previews, versions, sales, outcome, request, now, bound>>

Fingerprint == [product |-> product, race |-> race, latest |-> Len(versions)]

Earliest == CHOOSE t \in {race[l].startsAt : l \in Leg} : \A l \in Leg : t <= race[l].startsAt

Publishable ==
    /\ \A l \in Leg : /\ product.legs[l] # {}
                      /\ race[l].status \notin {"FINISHED", "CANCELLED", "DELAYED"}
    /\ now < Earliest

\* A preview is good for a quarter of an hour, one unit of time.
Preview ==
    /\ LockFree /\ Publishable
    /\ Cardinality(previews) < bound.previews
    /\ previews' = previews \cup
           {[base |-> Fingerprint, legs |-> product.legs, next |-> Len(versions) + 1,
             until |-> now + 1, version |-> 0]}
    /\ UNCHANGED <<race, product, versions, sales, outcome, request, now, bound>>

BeginPublish(q, p) ==
    /\ LockFree /\ request[q] = Idle
    /\ p.version = 0 /\ now < p.until
    /\ p.base = Fingerprint
    /\ p.next = Len(versions) + 1
    /\ Publishable
    /\ Does(q, [op |-> "publish", at |-> now, preview |-> p, legs |-> product.legs])
    /\ UNCHANGED <<race, staff, sales, outcome, now, bound>>

\* Faulty variant: nothing is locked.
LockedNever(m) == FALSE

\* The rows a transaction selected FOR UPDATE are its own until it ends.
Locked(m) == \E q \in Process : request[q].op \in {"start", "activate"} /\ m \in request[q].rows

\* Rows that wait and whose day is not over at `at'.
Pending(at) == {m \in Member : pass[m].status = "PENDING" /\ pass[m].starts = 0 /\ at < DayEnd}

\* The trigger of the versions reads the races again; `at' is when the
\* transaction began.
Insertable(at) == at < Earliest

\* The first version starts the passes that wait for it, once their rows are
\* free; a correction starts none.
InsertVersion(q) ==
    LET at == request[q].at
        rows == IF versions = <<>> THEN Pending(at) ELSE {}
    IN  /\ request[q].op = "publish"
        /\ IF Insertable(at)
           THEN /\ \A m \in rows : ~Locked(m)
                /\ Does(q, [op |-> "start", at |-> at, preview |-> request[q].preview,
                            legs |-> request[q].legs, rows |-> rows, deadline |-> Earliest])
           ELSE Does(q, Idle)
        /\ UNCHANGED <<race, staff, sales, outcome, now, bound>>

Started(rows, at) ==
    [m \in Member |-> IF m \in rows
                      THEN [pass[m] EXCEPT !.status = "ACTIVE", !.starts = at, !.access = @ + 1]
                      ELSE pass[m]]

CommitPublish(q) ==
    LET p == request[q].preview
    IN  /\ request[q].op = "start"
        /\ versions' = Append(versions,
               [legs |-> request[q].legs, publishedAt |-> request[q].at, deadline |-> request[q].deadline])
        /\ previews' = (previews \ {p}) \cup {[p EXCEPT !.version = Len(versions) + 1]}
        /\ pass' = Started(request[q].rows, request[q].at)
        /\ Does(q, Idle)
        /\ UNCHANGED <<race, product, refund, outcome, now, bound>>

-----------------------------------------------------------------------------
(***************************************************************************)
(* The passes.                                                             *)
(***************************************************************************)

\* A pass of a day with a product starts with its first version, on the day
\* itself at once, and otherwise it waits; without a product it starts with
\* the day.  Every seller reads the product first.
BeginBuy(q, m, source) ==
    /\ request[q] = Idle
    /\ m \in bound.buyers
    /\ pass[m].status = "NONE"
    /\ Does(q, [op |-> "buy", at |-> now, member |-> m, source |-> source, starts |->
           IF product.revision = 0 THEN DayStart
           ELSE IF versions # <<>> THEN versions[1].publishedAt
           ELSE IF now >= DayStart THEN now ELSE 0])
    /\ UNCHANGED <<race, staff, sales, outcome, now, bound>>

\* One pass of a member and a day.
CommitBuy(q) ==
    LET m == request[q].member
        starts == request[q].starts
    IN  /\ request[q].op = "buy"
        /\ pass' = IF pass[m].status # "NONE" THEN pass
                   ELSE [pass EXCEPT ![m] =
                            [status |-> IF starts = 0 THEN "PENDING" ELSE "ACTIVE",
                             source |-> request[q].source, starts |-> starts,
                             access |-> IF starts = 0 THEN 0 ELSE 1]]
        /\ Does(q, Idle)
        /\ UNCHANGED <<race, staff, refund, outcome, now, bound>>

\* Faulty variant: yesterday's passes.
DuePast == IF now > DayEnd THEN Pending(now) ELSE {}

\* The passes of today or before.
Due == IF now >= DayStart THEN Pending(now) ELSE {}

\* FOR UPDATE SKIP LOCKED LIMIT.
BeginActivate ==
    LET free == {m \in Due : ~Locked(m)}
    IN  /\ request[Worker] = Idle
        /\ \E rows \in SUBSET free :
              /\ rows # {}
              /\ Cardinality(rows) = IF Cardinality(free) < Limit THEN Cardinality(free) ELSE Limit
              /\ Does(Worker, [op |-> "activate", at |-> now, rows |-> rows])
        /\ UNCHANGED <<race, staff, sales, outcome, now, bound>>

CommitActivate ==
    /\ request[Worker].op = "activate"
    /\ pass' = Started(request[Worker].rows, DayStart)
    /\ Does(Worker, Idle)
    /\ UNCHANGED <<race, staff, refund, outcome, now, bound>>

\* A bought pass that never started, once its day is over.
Refundable(m) ==
    /\ pass[m].source = "PURCHASE"
    /\ pass[m].status \in {"PENDING", "REFUNDING"} /\ pass[m].starts = 0
    /\ DayEnd <= now

\* An administrator reserves the refund,
ReserveRefund(q, m) ==
    /\ request[q] = Idle
    /\ Refundable(m) /\ ~Locked(m)
    /\ pass' = [pass EXCEPT ![m].status = "REFUNDING"]
    /\ Does(q, [op |-> "refund", at |-> now, member |-> m])
    /\ UNCHANGED <<race, staff, refund, outcome, now, bound>>

\* asks the provider for it under the key of the pass: the first answer is
\* given again,
CallRefund(q) ==
    LET m == request[q].member
    IN  /\ request[q].op = "refund"
        /\ \E answer \in IF refund[m].answer = "none" THEN {"succeeded", "pending"}
                         ELSE {refund[m].answer} :
              /\ refund' = [refund EXCEPT ![m].answer = answer, ![m].done = @ \/ answer = "succeeded"]
              /\ Does(q, IF answer = "succeeded" THEN [request[q] EXCEPT !.op = "refunded"] ELSE Idle)
        /\ UNCHANGED <<race, staff, pass, outcome, now, bound>>

\* Faulty variant: no unique index.
UnbookedAlways(m) == TRUE

\* unique providerPaymentId.
Unbooked(m) == refund[m].booked = 0

Book(m) ==
    /\ refund' = [refund EXCEPT ![m].booked = @ + 1]
    /\ pass' = [pass EXCEPT ![m].status = "REFUNDED"]

\* and books it, unless the provider's event was there first.
FinishRefund(q) ==
    LET m == request[q].member
    IN  /\ request[q].op = "refunded"
        /\ ~Locked(m)
        /\ IF pass[m].status = "REFUNDING" /\ pass[m].starts = 0 /\ Unbooked(m)
           THEN Book(m) ELSE UNCHANGED sales
        /\ Does(q, Idle)
        /\ UNCHANGED <<race, staff, outcome, now, bound>>

\* The provider comes to carry out a refund it had answered as pending.
SettleRefund(m) ==
    /\ refund[m].answer = "pending" /\ ~refund[m].done
    /\ refund' = [refund EXCEPT ![m].done = TRUE]
    /\ UNCHANGED <<race, staff, pass, outcome, request, now, bound>>

\* Its event is sent until it is answered; handling it reads the pass by its
\* id, and a refund that is booked is a duplicate.
HearRefund(q, m) ==
    /\ request[q] = Idle
    /\ refund[m].done /\ ~refund[m].heard
    /\ IF Unbooked(m)
       THEN /\ Does(q, [op |-> "hear", at |-> now, member |-> m, row |-> pass[m]])
            /\ UNCHANGED refund
       ELSE /\ refund' = [refund EXCEPT ![m].heard = TRUE]
            /\ UNCHANGED request
    /\ UNCHANGED <<race, staff, pass, outcome, now, bound>>

CommitHear(q) ==
    LET m == request[q].member
        row == request[q].row
    IN  /\ request[q].op = "hear"
        /\ ~Locked(m)
        /\ IF Unbooked(m)
           THEN /\ refund' = [refund EXCEPT ![m].booked = @ + 1, ![m].heard = TRUE]
                /\ pass' = IF row.starts = 0 /\ row.status \in {"PENDING", "REFUNDING"}
                           THEN [pass EXCEPT ![m].status = "REFUNDED"] ELSE pass
           ELSE UNCHANGED sales
        /\ Does(q, Idle)
        /\ UNCHANGED <<race, staff, outcome, now, bound>>

-----------------------------------------------------------------------------
(***************************************************************************)
(* The evaluation.                                                         *)
(***************************************************************************)
Latest(l) == result[l][Len(result[l])]

\* What the latest version comes to by the latest results.
Calculated ==
    LET legs == versions[Len(versions)].legs
        hit == {l \in Leg : Latest(l) \in legs[l]}
    IN  [version |-> Len(versions), sources |-> [l \in Leg |-> Len(result[l])],
         status |-> IF \E l \in Leg : Latest(l) = NoOne THEN "REVIEW_REQUIRED"
                    ELSE IF hit = Leg THEN "WIN5_ALL_WINNERS_RECOMMENDED"
                    ELSE IF hit = {} THEN "WIN5_MISSED" ELSE "WIN5_PARTIAL"]

Calculable == versions # <<>> /\ \A l \in Leg : result[l] # <<>>

\* The draft's row is locked by a confirmation that read it.
DraftFree == \A q \in Request : request[q].op # "confirm"

BeginImport(q) ==
    /\ request[q] = Idle
    /\ \A p \in Request : request[p].op # "import"
    /\ Calculable
    /\ Len(win5Saved) < bound.imports
    /\ Does(q, [op |-> "import", at |-> now, content |-> Calculated])
    /\ UNCHANGED <<race, staff, sales, outcome, now, bound>>

CommitImport(q) ==
    /\ request[q].op = "import"
    /\ DraftFree
    /\ win5Saved' = Append(win5Saved, request[q].content)
    /\ Does(q, Idle)
    /\ UNCHANGED <<race, staff, sales, result, evaluations, now, bound>>

\* Faulty variant: what was imported is not compared.
SourceUnchecked(content) == TRUE

\* sourceHash: the sources are those of the draft.
SourceUnchanged(content) == content = win5Saved[Len(win5Saved)]

\* A confirmation of the standing revision locks the draft and calculates
\* again.
BeginConfirm(q) ==
    /\ request[q] = Idle
    /\ DraftFree
    /\ win5Saved # <<>>
    /\ \A i \in DOMAIN evaluations : evaluations[i].source # Len(win5Saved)
    /\ SourceUnchanged(Calculated)
    /\ Calculated.status # "REVIEW_REQUIRED"
    /\ Does(q, [op |-> "confirm", at |-> now, content |-> Calculated])
    /\ UNCHANGED <<race, staff, sales, outcome, now, bound>>

\* The trigger of the legs compares each source with the latest result.
SourcesLatest(content) == \A l \in Leg : content.sources[l] = Len(result[l])

CommitConfirm(q) ==
    LET content == request[q].content
    IN  /\ request[q].op = "confirm"
        /\ evaluations' = IF SourcesLatest(content)
                          THEN Append(evaluations, [source |-> Len(win5Saved), content |-> content])
                          ELSE evaluations
        /\ Does(q, Idle)
        /\ UNCHANGED <<race, staff, sales, result, win5Saved, now, bound>>

-----------------------------------------------------------------------------
\* A transaction that fails, or whose process dies, leaves nothing.
Abort(q) ==
    /\ request[q] # Idle
    /\ Does(q, Idle)
    /\ UNCHANGED <<race, staff, sales, outcome, now, bound>>

Tick ==
    /\ now < bound.time
    /\ \A q \in Process : request[q] # Idle => request[q].at = now
    /\ now' = now + 1
    /\ UNCHANGED <<race, staff, sales, outcome, request, bound>>

Commit(q) ==
    \/ InsertVersion(q) \/ CommitPublish(q) \/ CommitBuy(q)
    \/ CallRefund(q) \/ FinishRefund(q) \/ CommitHear(q)
    \/ CommitImport(q) \/ CommitConfirm(q)

Next ==
    \/ \E l \in Leg :
        \/ \E start \in {FirstRace, FirstRace - 1}, status \in {"SCHEDULED", "DELAYED"} :
              ChangeRace(l, start, status)
        \/ \E winner \in Horse \cup {NoOne} : ConfirmRace(l, winner)
        \/ \E horses \in (SUBSET Horse) \ {{}} : SaveLeg(l, horses)
    \/ SaveProduct \/ Preview
    \/ \E q \in Request :
        \/ \E p \in previews : BeginPublish(q, p)
        \/ \E m \in Member :
              \/ \E source \in {"PURCHASE", "REFERRAL_REWARD"} : BeginBuy(q, m, source)
              \/ ReserveRefund(q, m) \/ HearRefund(q, m)
        \/ BeginImport(q) \/ BeginConfirm(q)
        \/ Commit(q)
    \/ \E m \in Member : SettleRefund(m)
    \/ BeginActivate \/ CommitActivate
    \/ \E q \in Process : Abort(q)
    \/ Tick

Spec == Init /\ [][Next]_vars

\* Transactions end; the worker polls, does not always find the rows locked by
\* a publication that fails, and does not always die before it commits.
FairSpec ==
    /\ Spec
    /\ \A q \in Process : WF_vars(Commit(q) \/ Abort(q))
    /\ SF_vars(BeginActivate) /\ SF_vars(CommitActivate)

-----------------------------------------------------------------------------
(***************************************************************************)
(* Properties.                                                             *)
(***************************************************************************)

RaceRow == [startsAt : Nat, status : {"SCHEDULED", "DELAYED", "FINISHED"}, revision : Nat]
ProductRow == [revision : Nat, legs : [Leg -> SUBSET Horse]]
Picks == [Leg -> (SUBSET Horse) \ {{}}]
FingerprintRow == [product : ProductRow, race : [Leg -> RaceRow], latest : Nat]
PreviewRow == [base : FingerprintRow, legs : Picks, next : Nat, until : Nat, version : Nat]
VersionRow == [legs : Picks, publishedAt : Nat \ {0}, deadline : Nat]
Source == {"PURCHASE", "REFERRAL_REWARD"}
PassRow == [status : {"NONE", "PENDING", "ACTIVE", "REFUNDING", "REFUNDED"}, source : Source,
            starts : Nat, access : Nat]
RefundRow == [answer : {"none", "pending", "succeeded"}, done : BOOLEAN, heard : BOOLEAN, booked : Nat]
Doing ==
    {Idle}
    \cup [op : {"publish"}, at : Nat \ {0}, preview : PreviewRow, legs : Picks]
    \cup [op : {"start"}, at : Nat \ {0}, preview : PreviewRow, legs : Picks, rows : SUBSET Member,
          deadline : Nat]
    \cup [op : {"buy"}, at : Nat, member : Member, source : Source, starts : Nat]
    \cup [op : {"activate"}, at : Nat, rows : SUBSET Member]
    \cup [op : {"refund", "refunded"}, at : Nat, member : Member]
    \cup [op : {"hear"}, at : Nat, member : Member, row : PassRow]
    \cup [op : {"import", "confirm"}, at : Nat, content : EvaluationRow]

\* Every variable holds a value of its type.
TypeOK ==
    /\ race \in [Leg -> RaceRow]
    /\ product \in ProductRow
    /\ previews \in SUBSET PreviewRow /\ versions \in Seq(VersionRow)
    /\ pass \in [Member -> PassRow]
    /\ refund \in [Member -> RefundRow]
    /\ result \in [Leg -> Seq(Horse \cup {NoOne})]
    /\ win5Saved \in Seq(EvaluationRow)
    /\ evaluations \in Seq([source : Nat \ {0}, content : EvaluationRow])
    /\ request \in [Process -> Doing]
    /\ now \in Nat \ {0} /\ bound \in Win5Bounds

\* A pass that still waits on its day is started that day, though its
\* purchase did not see the publication that did not see it.
PendingStarts ==
    \A m \in Member :
        pass[m].status = "PENDING" /\ now >= DayStart
        ~> pass[m].status # "PENDING" \/ now >= DayEnd

=============================================================================
