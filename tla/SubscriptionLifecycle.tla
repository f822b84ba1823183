------------------------ MODULE SubscriptionLifecycle ------------------------
(***************************************************************************)
(* The life of one monthly subscription after its checkout: the payment    *)
(* provider renews it, fails to collect, and ends it; the application      *)
(* hears of each change from events that arrive late, repeatedly and out   *)
(* of order (apps/api/src/stripe-webhook.service.ts); the member schedules *)
(* a cancellation or takes it back, which is a call of the provider        *)
(* followed by a transaction (billing-subscription-lifecycle.service.ts).  *)
(*                                                                         *)
(* Every event is handled in one transaction under the lock of its id, and *)
(* of its invoice if it has one.  A handler that decides on the row as it  *)
(* read it has two steps, since handlers of other events, and requests,    *)
(* lock the row only when they write it.  A transaction lasts less than    *)
(* one unit of time.  The provider is modelled from how the application    *)
(* uses it: it repeats an event until it is answered, for days, and a      *)
(* period is a month, so that what it says of an invoice is heard before   *)
(* the next is issued.                                                     *)
(***************************************************************************)
EXTENDS Naturals, FiniteSets

CONSTANTS
    Request,       \* the member's API requests in flight
    Period, Grace, \* the length of a period, billingGraceDays
    Bounds         \* the bounds one behaviour may keep to: failures to collect, changes
                   \* of the provider's cancel_at_period_end, time

ASSUME ConstantsAssumption ==
    /\ Period \in Nat \ {0} /\ Grace \in Nat
    /\ Bounds \subseteq [failures : Nat, changes : Nat, time : Nat]

VARIABLES
    contract,   \* at the provider: state, paidUntil, cancel_at_period_end, keys used
    issued,     \* events the provider sent, and sends again
    received,   \* the rows of stripe_webhook_events
    row,        \* the rows of subscriptions and entitlements
    handling,   \* events being handled, with the row as their transaction read it
    request,    \* Request -> what it is doing
    now, bound,
    since,      \* history: when the failure that is not yet made good was heard
    disordered, \* history: a change of the flag was heard after, or with, a later one
    skipped,    \* history: a cancellation that did not call the provider wrote the row
    overlapped, \* history: two requests of the member were in flight at once
    crossed     \* history: the end was heard while a failure was being handled

history == <<since, disordered, skipped, overlapped, crossed>>
vars == <<contract, issued, received, row, handling, request, now, bound, history>>

Open == {"ACTIVE", "PAST_DUE"}

Ended == "CANCELED"
Initial == Period
EventType == {"checkout", "paid", "failed", "updated", "deleted"}
Later(a, b) == IF a > b THEN a ELSE b
Event(type, end, flag) ==
    [type |-> type, number |-> Cardinality({e \in issued : e.type = type}) + 1, end |-> end, flag |-> flag]
Idle == [op |-> "idle", want |-> FALSE, version |-> 0, called |-> FALSE]

\* The first period is paid in the checkout; with a coupon for another amount
\* than the recurring one.
Init ==
    /\ contract = [state |-> "RUNNING", paidUntil |-> Initial, flag |-> FALSE, keys |-> {}]
    /\ \E discounted \in BOOLEAN :
          issued = {[type |-> "checkout", number |-> 1, end |-> Initial, flag |-> FALSE],
                    [type |-> "paid", number |-> 1, end |-> Initial, flag |-> discounted]}
    /\ received = {}
    /\ row = [status |-> "NONE", periodEnd |-> 0, grace |-> 0, flag |-> FALSE, version |-> 0,
              starts |-> 0, ends |-> 0, revoked |-> FALSE]
    /\ handling = {} /\ request = [q \in Request |-> Idle]
    /\ now = 0 /\ bound \in Bounds
    /\ since = 0 /\ disordered = FALSE /\ skipped = FALSE /\ overlapped = FALSE /\ crossed = FALSE

-----------------------------------------------------------------------------
(***************************************************************************)
(* The provider.                                                           *)
(***************************************************************************)
Unheard(types) == {e \in issued \ received : e.type \in types}

\* An invoice for the next period, or another attempt to collect it.
Bill ==
    /\ contract.state = "RUNNING" /\ ~contract.flag
    /\ now >= contract.paidUntil
    /\ \A e \in Unheard({"checkout", "paid", "failed"}) : e.end > contract.paidUntil
    /\ \/ /\ contract' = [contract EXCEPT !.paidUntil = @ + Period]
          /\ issued' = issued \cup {Event("paid", contract.paidUntil + Period, FALSE)}
       \/ /\ Cardinality({e \in issued : e.type = "failed"}) < bound.failures
          /\ issued' = issued \cup {Event("failed", contract.paidUntil + Period, FALSE)}
          /\ UNCHANGED contract
    /\ UNCHANGED <<bound, received, row, handling, request, now, history>>

\* The contract ends with its period, when nothing can be collected, or at
\* once when an operator deletes it.
EndContract ==
    /\ contract.state = "RUNNING"
    /\ contract' = [contract EXCEPT !.state = "DELETED"]
    /\ issued' = issued \cup {Event("deleted", contract.paidUntil, FALSE)}
    /\ UNCHANGED <<bound, received, row, handling, request, now, history>>

-----------------------------------------------------------------------------
(***************************************************************************)
(* Events.                                                                 *)
(***************************************************************************)

Invoices == {"paid", "failed"}

\* The locks of the event's id and of its invoice.
LocksFree(e) ==
    \A h \in handling : h.event # e /\ ~({h.event.type, e.type} \subseteq Invoices /\ h.event.end = e.end)

Known == row.status # "NONE"

\* checkout.session.completed: access for a month from now.
HearCheckout(e) ==
    /\ e.type = "checkout"
    /\ row' = [row EXCEPT !.status = "ACTIVE", !.periodEnd = now + Period,
                          !.starts = now, !.ends = now + Period]
    /\ UNCHANGED since

\* invoice.paid: unless its amount is another, the invoice's period replaces
\* what the row said, whatever that was.
HearPaid(e) ==
    /\ e.type = "paid" /\ Known
    /\ IF e.flag
       THEN UNCHANGED <<row, since>>
       ELSE /\ row' = [row EXCEPT !.status = "ACTIVE", !.periodEnd = e.end, !.grace = 0,
                                  !.version = @ + 1, !.starts = e.end - Period, !.ends = e.end,
                                  !.revoked = FALSE]
            /\ since' = 0

\* Events that are handled without regard to what the row says.  An event is
\* handled once; one of a subscription that is not there yet is refused, and so
\* sent again.
Hear(e) ==
    /\ e \notin received /\ LocksFree(e)
    /\ HearCheckout(e) \/ HearPaid(e)
    /\ received' = received \cup {e}
    /\ UNCHANGED <<bound, contract, issued, handling, request, now, disordered, skipped, overlapped, crossed>>

\* The others read the row first.
BeginHearing(e) ==
    /\ e \notin received /\ LocksFree(e)
    /\ e.type \in {"failed", "updated", "deleted"} /\ Known
    /\ handling' = handling \cup {[event |-> e, row |-> row]}
    /\ UNCHANGED <<bound, contract, issued, received, row, request, now, history>>

\* Faulty variant: every failure starts a grace of its own.
NewGraceEachTime(seen) == Later(now, seen.periodEnd) + Grace

\* A repeated failure does not extend the grace.
GraceEndsAt(seen) ==
    IF seen.status = "PAST_DUE" /\ seen.grace # 0 THEN seen.grace
    ELSE Later(now, seen.periodEnd) + Grace

\* Faulty variant: the grace starts now, in the middle of a paid period.
GraceFromNow(seen) == IF seen.status = "PAST_DUE" /\ seen.grace # 0 THEN seen.grace ELSE now + Grace

AccessEndsAt(seen) == Later(seen.periodEnd, GraceEndsAt(seen))

\* Faulty variant: whatever the status.
CollectableAlways(seen) == TRUE

\* A failure of a contract that ended is rejected.
Collectable(seen) == seen.status # Ended

\* invoice.payment_failed.
HearFailed(e, seen) ==
    /\ e.type = "failed"
    /\ IF Collectable(seen)
       THEN /\ row' = [row EXCEPT !.status = "PAST_DUE", !.grace = GraceEndsAt(seen), !.version = @ + 1,
                                  !.ends = AccessEndsAt(seen), !.revoked = AccessEndsAt(seen) <= now]
            /\ since' = IF seen.status = "PAST_DUE" THEN since ELSE now
       ELSE UNCHANGED <<row, since>>
    /\ UNCHANGED <<disordered, crossed>>

\* customer.subscription.updated carries the flag as it was then.
HearUpdated(e, seen) ==
    /\ e.type = "updated"
    /\ row' = IF seen.flag = e.flag THEN row ELSE [row EXCEPT !.flag = e.flag, !.version = @ + 1]
    /\ disordered' = (\/ disordered
                      \/ \E d \in received : d.type = "updated" /\ d.number > e.number
                      \/ \E h \in handling : h.event.type = "updated" /\ h.event # e)
    /\ UNCHANGED <<since, crossed>>

\* customer.subscription.deleted.
HearDeleted(e, seen) ==
    /\ e.type = "deleted"
    /\ row' = IF seen.status = Ended /\ seen.revoked
              THEN row
              ELSE [row EXCEPT !.status = Ended, !.flag = FALSE, !.grace = 0,
                               !.version = @ + 1, !.revoked = TRUE]
    /\ crossed' = (crossed \/ \E h \in handling : h.event.type = "failed")
    /\ UNCHANGED <<since, disordered>>

\* The handler writes and commits.
CommitHearing(h) ==
    /\ HearFailed(h.event, h.row) \/ HearUpdated(h.event, h.row) \/ HearDeleted(h.event, h.row)
    /\ handling' = handling \ {h}
    /\ received' = received \cup {h.event}
    /\ UNCHANGED <<bound, contract, issued, request, now, skipped, overlapped>>

\* The transaction is rolled back; the provider sends the event again.
Rollback(h) ==
    /\ handling' = handling \ {h}
    /\ UNCHANGED <<bound, contract, issued, received, row, request, now, history>>

-----------------------------------------------------------------------------
(***************************************************************************)
(* The member's requests.                                                  *)
(***************************************************************************)
Does(q, op) == request' = [request EXCEPT ![q].op = op]

\* The row is read outside of a transaction; a cancellation that is already
\* scheduled, or an expired contract's, goes on without a call.
BeginChange(q, want) ==
    /\ request[q] = Idle
    /\ row.status # "NONE"
    /\ want \/ (row.flag /\ row.status \in Open)
    /\ request' = [request EXCEPT ![q] = [op |-> IF row.flag = want THEN "committing" ELSE "calling",
                                          want |-> want, version |-> row.version, called |-> row.flag # want]]
    /\ overlapped' = (overlapped \/ \E p \in Request : request[p] # Idle)
    /\ UNCHANGED <<bound, contract, issued, received, row, handling, now, since, disordered, skipped, crossed>>

\* Faulty variant: one key for all changes of a contract.
KeyOfContract(q) == <<request[q].want, 0>>

\* The idempotency key: the wish and the row's updatedAt.
Key(q) == <<request[q].want, request[q].version>>

\* subscriptions.update; the provider answers a known key as it did before,
\* and knows no contract it deleted.
CallProvider(q) ==
    LET want == request[q].want
        changes == Key(q) \notin contract.keys /\ contract.flag # want
    IN  /\ request[q].op = "calling"
        /\ contract.state = "RUNNING"
        /\ changes => Cardinality({e \in issued : e.type = "updated"}) < bound.changes
        /\ contract' = [contract EXCEPT !.keys = @ \cup {Key(q)},
                                        !.flag = IF changes THEN want ELSE @]
        /\ issued' = IF changes THEN issued \cup {Event("updated", contract.paidUntil, want)} ELSE issued
        /\ Does(q, "committing")
        /\ UNCHANGED <<bound, received, row, handling, now, history>>

\* The transaction checks the row again; a cancellation leaves updatedAt alone.
\* One step: between its read and its write an event can change only the flag
\* that it writes, or end the contract, whose status it does not write.
CommitChange(q) ==
    LET want == request[q].want
    IN  /\ request[q].op = "committing"
        /\ row' = IF row.flag = want \/ row.status \notin Open THEN row
                  ELSE [row EXCEPT !.flag = want, !.version = IF want THEN @ ELSE @ + 1]
        /\ request' = [request EXCEPT ![q] = Idle]
        /\ skipped' = (skipped \/ (row' # row /\ ~request[q].called))
        /\ UNCHANGED <<bound, contract, issued, received, handling, now, since, disordered, overlapped, crossed>>

\* The call fails, or the request dies before or after it.
GiveUp(q) ==
    /\ request[q] # Idle
    /\ request' = [request EXCEPT ![q] = Idle]
    /\ UNCHANGED <<bound, contract, issued, received, row, handling, now, history>>

Tick ==
    /\ now < bound.time /\ handling = {}
    /\ now' = now + 1
    /\ UNCHANGED <<bound, contract, issued, received, row, handling, request, history>>

Next ==
    \/ Bill \/ EndContract
    \/ \E e \in issued : Hear(e) \/ BeginHearing(e)
    \/ \E h \in handling : CommitHearing(h) \/ Rollback(h)
    \/ \E q \in Request :
        (\E want \in BOOLEAN : BeginChange(q, want)) \/ CallProvider(q) \/ CommitChange(q) \/ GiveUp(q)
    \/ Tick

Spec == Init /\ [][Next]_vars

-----------------------------------------------------------------------------
(***************************************************************************)
(* Properties.                                                             *)
(***************************************************************************)

EventRow == [type : EventType, number : Nat, end : Nat, flag : BOOLEAN]
Row == [status : {"NONE", "CANCELED"} \cup Open, periodEnd : Nat, grace : Nat, flag : BOOLEAN,
        version : Nat, starts : Nat, ends : Nat, revoked : BOOLEAN]

\* Every variable holds a value of its type, and an event is handled once at a
\* time, before it is received.
TypeOK ==
    /\ contract \in [state : {"RUNNING", "DELETED"}, paidUntil : Nat, flag : BOOLEAN,
                     keys : SUBSET (BOOLEAN \X Nat)]
    /\ issued \subseteq EventRow /\ IsFiniteSet(issued) /\ received \subseteq issued
    /\ handling \subseteq [event : issued \ received, row : Row]
    /\ \A h, g \in handling : h.event = g.event => h = g
    /\ row \in Row
    /\ request \in [Request -> [op : {"idle", "calling", "committing"}, want : BOOLEAN,
                                version : Nat, called : BOOLEAN]]
    /\ bound \in Bounds /\ now \in 0 .. bound.time /\ since \in Nat /\ disordered \in BOOLEAN
    /\ skipped \in BOOLEAN /\ overlapped \in BOOLEAN /\ crossed \in BOOLEAN

HasAccess == row.status # "NONE" /\ row.starts <= now /\ now < row.ends /\ ~row.revoked

\* What was paid and heard is served: a member whose contract runs and whose
\* last payment is heard has access until its period ends, although failures
\* of the same invoice are heard after it, in any order.
PaidIsServed ==
    /\ contract.state = "RUNNING" /\ row.status # "NONE"
    /\ Unheard({"paid"}) = {} /\ now < contract.paidUntil
    => HasAccess

\* A contract that is not paid is served for one grace only, from the end of
\* the period or from the first failure, however often and late it is told of
\* more of them.
GraceOnce == HasAccess => now < Later(row.periodEnd, since) + Grace

AtRest ==
    /\ contract.state = "RUNNING" /\ row.status # "NONE"
    /\ Unheard({"updated"}) = {}
    /\ handling = {} /\ \A q \in Request : request[q] = Idle

\* Once nothing is in flight the member is shown what the provider will do,
\* cancel or go on: API.md:59 and :60 have the row written after the provider's
\* answer, and DECISIONS.md:480 has the flag synchronized from its events.
\* Flags heard in another order than they changed, and requests that overlapped,
\* are excused.
FlagAgrees == AtRest /\ ~disordered /\ ~overlapped => row.flag = contract.flag

\* The same, but for cancellations that wrote the row without a call: requests
\* that died between the call and the transaction, and changes repeated after
\* they were taken back, included.
FlagAgreesWhenCalled == AtRest /\ ~disordered /\ ~overlapped /\ ~skipped => row.flag = contract.flag

\* An ended contract stays ended, and its access revoked: DECISIONS.md:480 has
\* customer.subscription.deleted end the contract and its access.
EndedStaysEnded ==
    [][row.status = Ended => row'.status = Ended /\ row'.revoked]_vars

PaymentHeard == \E e \in received' \ received : e.type = "paid"

\* Whatever opens an ended contract again, it is a payment: a failure to collect
\* is rejected, as that of a contract that ended.
OnlyPaymentsReopen ==
    [][row.status = Ended => row'.status = Ended \/ PaymentHeard]_vars

\* The same once no failure was being handled when the end was written: then
\* neither a failure, nor a change of the flag, nor the commit of a request
\* opens the contract again, however late, nor gives its access back.
OnlyPaymentsReopenUncrossed ==
    [][row.status = Ended /\ ~crossed => (row'.status = Ended /\ row'.revoked) \/ PaymentHeard]_vars
=============================================================================
