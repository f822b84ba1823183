-------------------- MODULE SubscriptionLifecycleProofs --------------------
(***************************************************************************)
(* Theorems about SubscriptionLifecycle, for periods and graces of any     *)
(* length, any requests and any number of failures, changes and events.    *)
(***************************************************************************)
EXTENDS SubscriptionLifecycle, FiniteSetTheorems, TLAPS

-----------------------------------------------------------------------------
(***************************************************************************)
(* Rows.                                                                   *)
(***************************************************************************)

\* The later of two times.
LEMMA LaterIs ==
    ASSUME NEW a \in Nat, NEW b \in Nat
    PROVE  Later(a, b) \in Nat /\ Later(a, b) >= a /\ Later(a, b) >= b /\ Later(a, b) \in {a, b}
  BY DEF Later

Statuses == {"NONE", "CANCELED"} \cup Open

\* A row of typed columns.
LEMMA RowOf ==
    ASSUME NEW status \in Statuses, NEW periodEnd \in Nat, NEW grace \in Nat,
           NEW flag \in BOOLEAN, NEW version \in Nat, NEW starts \in Nat, NEW ends \in Nat,
           NEW revoked \in BOOLEAN
    PROVE  [status |-> status, periodEnd |-> periodEnd, grace |-> grace, flag |-> flag,
            version |-> version, starts |-> starts, ends |-> ends, revoked |-> revoked] \in Row
  BY DEF Row, Statuses

\* What a checkout makes of a row.
CheckedOut(new, r, t, end) ==
    /\ new \in Row /\ new.status = "ACTIVE" /\ new.periodEnd = end
    /\ new.starts = t /\ new.ends = end /\ (new.revoked <=> r.revoked)

LEMMA CheckoutRow ==
    ASSUME NEW r \in Row, NEW t \in Nat, NEW end \in Nat, NEW new,
           new = [r EXCEPT !.status = "ACTIVE", !.periodEnd = end, !.starts = t, !.ends = end]
    PROVE  CheckedOut(new, r, t, end)
  BY DEF Row, Open, CheckedOut

\* What a payment makes of a row.
PaidFor(new, t, end) ==
    /\ new \in Row /\ new.status = "ACTIVE" /\ new.periodEnd = end /\ new.grace = 0
    /\ new.starts = t /\ new.ends = end /\ ~new.revoked

LEMMA PaidRow ==
    ASSUME NEW r \in Row, NEW end \in Nat, NEW t \in Nat, NEW new,
           new = [r EXCEPT !.status = "ACTIVE", !.periodEnd = end, !.grace = 0,
                           !.version = r.version + 1, !.starts = t, !.ends = end,
                           !.revoked = FALSE]
    PROVE  PaidFor(new, t, end)
  <1>1. /\ r.version \in Nat /\ r.flag \in BOOLEAN
    BY DEF Row
  <1>2. PICK v \in Nat : v = r.version + 1
    BY <1>1
  <1>3. new = [r EXCEPT !.status = "ACTIVE", !.periodEnd = end, !.grace = 0, !.version = v,
                        !.starts = t, !.ends = end, !.revoked = FALSE]
    BY <1>2
  <1>4. new = [status |-> "ACTIVE", periodEnd |-> end, grace |-> 0, flag |-> r.flag,
               version |-> v, starts |-> t, ends |-> end, revoked |-> FALSE]
    BY <1>3 DEF Row
  <1>5. "ACTIVE" \in Statuses /\ 0 \in Nat /\ TRUE \in BOOLEAN /\ FALSE \in BOOLEAN
    BY DEF Statuses, Open
  <1>6. [status |-> "ACTIVE", periodEnd |-> end, grace |-> 0, flag |-> r.flag,
         version |-> v, starts |-> t, ends |-> end, revoked |-> FALSE] \in Row
    BY <1>1, <1>2, <1>5, RowOf, Zenon
  <1>7. new \in Row
    BY <1>4, <1>6, Zenon
  <1> QED
    BY <1>4, <1>7 DEF PaidFor

\* What a failure to collect makes of a row.
FailedTo(new, r, grace, end, over) ==
    /\ new \in Row /\ new.status = "PAST_DUE" /\ new.grace = grace /\ new.ends = end
    /\ (new.revoked <=> over)
    /\ new.periodEnd = r.periodEnd /\ new.starts = r.starts

LEMMA FailedRow ==
    ASSUME NEW r \in Row, NEW grace \in Nat, NEW end \in Nat, NEW over \in BOOLEAN, NEW new,
           new = [r EXCEPT !.status = "PAST_DUE", !.grace = grace, !.version = r.version + 1,
                           !.ends = end, !.revoked = over]
    PROVE  FailedTo(new, r, grace, end, over)
  <1>1. /\ r.version \in Nat /\ r.flag \in BOOLEAN /\ r.periodEnd \in Nat /\ r.starts \in Nat
    BY DEF Row
  <1>2. PICK v \in Nat : v = r.version + 1
    BY <1>1
  <1>3. new = [r EXCEPT !.status = "PAST_DUE", !.grace = grace, !.version = v, !.ends = end,
                        !.revoked = over]
    BY <1>2
  <1>4. new = [status |-> "PAST_DUE", periodEnd |-> r.periodEnd, grace |-> grace,
               flag |-> r.flag, version |-> v, starts |-> r.starts, ends |-> end,
               revoked |-> over]
    BY <1>3 DEF Row
  <1>5. "PAST_DUE" \in Statuses /\ 0 \in Nat /\ TRUE \in BOOLEAN /\ FALSE \in BOOLEAN
    BY DEF Statuses, Open
  <1>6. [status |-> "PAST_DUE", periodEnd |-> r.periodEnd, grace |-> grace,
         flag |-> r.flag, version |-> v, starts |-> r.starts, ends |-> end,
         revoked |-> over] \in Row
    BY <1>1, <1>2, <1>5, RowOf, Zenon
  <1>7. new \in Row
    BY <1>4, <1>6, Zenon
  <1> QED
    BY <1>4, <1>7 DEF FailedTo

\* A change of the flag leaves the rest of the row, but for its version, as it is.
SameButFlag(new, old) ==
    /\ new \in Row /\ new.status = old.status /\ new.periodEnd = old.periodEnd
    /\ new.grace = old.grace /\ new.starts = old.starts /\ new.ends = old.ends
    /\ (new.revoked <=> old.revoked)

LEMMA FlagRow ==
    ASSUME NEW r \in Row, NEW flag \in BOOLEAN, NEW version \in Nat, NEW new,
           new = [r EXCEPT !.flag = flag, !.version = version]
    PROVE  SameButFlag(new, r)
  BY DEF Row, SameButFlag

\* What the end of a contract makes of a row.
LEMMA DeletedRow ==
    ASSUME NEW r \in Row, NEW new,
           new = [r EXCEPT !.status = Ended, !.flag = FALSE, !.grace = 0,
                           !.version = r.version + 1, !.revoked = TRUE]
    PROVE  /\ new \in Row /\ new.status = Ended /\ ~new.flag /\ new.grace = 0
           /\ new.version = r.version + 1 /\ new.revoked
           /\ new.periodEnd = r.periodEnd /\ new.starts = r.starts /\ new.ends = r.ends
  <1>1. /\ r.version \in Nat /\ r.ends \in Nat /\ r.periodEnd \in Nat /\ r.starts \in Nat
    BY DEF Row
  <1>2. PICK v \in Nat : v = r.version + 1
    BY <1>1
  <1>3. new = [r EXCEPT !.status = Ended, !.flag = FALSE, !.grace = 0, !.version = v,
                        !.revoked = TRUE]
    BY <1>2
  <1>4. new = [status |-> Ended, periodEnd |-> r.periodEnd, grace |-> 0, flag |-> FALSE,
               version |-> v, starts |-> r.starts, ends |-> r.ends, revoked |-> TRUE]
    BY <1>3 DEF Row
  <1>5. Ended \in Statuses /\ 0 \in Nat /\ TRUE \in BOOLEAN /\ FALSE \in BOOLEAN
    BY DEF Statuses, Ended
  <1>6. [status |-> Ended, periodEnd |-> r.periodEnd, grace |-> 0, flag |-> FALSE,
         version |-> v, starts |-> r.starts, ends |-> r.ends, revoked |-> TRUE] \in Row
    BY <1>1, <1>2, <1>5, RowOf, Zenon
  <1>7. new \in Row
    BY <1>4, <1>6, Zenon
  <1> QED
    BY <1>2, <1>4, <1>7

-----------------------------------------------------------------------------
(***************************************************************************)
(* Type correctness.                                                       *)
(***************************************************************************)

Handling == [event : issued \ received, row : Row]
RequestRow == [op : {"idle", "calling", "committing"}, want : BOOLEAN, version : Nat, called : BOOLEAN]
ContractRow == [state : {"RUNNING", "DELETED"}, paidUntil : Nat, flag : BOOLEAN,
                keys : SUBSET (BOOLEAN \X Nat)]

\* The parts of TypeOK: events, requests, and time with what history keeps.
EventsTyped ==
    /\ issued \subseteq EventRow /\ IsFiniteSet(issued) /\ received \subseteq issued
    /\ handling \subseteq Handling
    /\ \A h, g \in handling : h.event = g.event => h = g
RequestsTyped == request \in [Request -> RequestRow]
ClockTyped ==
    /\ bound \in Bounds /\ now \in 0 .. bound.time /\ since \in Nat
    /\ disordered \in BOOLEAN /\ skipped \in BOOLEAN /\ overlapped \in BOOLEAN
    /\ crossed \in BOOLEAN

LEMMA Parts ==
    /\ TypeOK <=> /\ contract \in ContractRow /\ EventsTyped /\ row \in Row
                  /\ RequestsTyped /\ ClockTyped
    /\ TypeOK' <=> /\ contract' \in ContractRow /\ EventsTyped' /\ row' \in Row
                   /\ RequestsTyped' /\ ClockTyped'
  BY DEF TypeOK, ContractRow, EventsTyped, RequestsTyped, RequestRow, ClockTyped, Handling

\* An event the provider makes up is numbered after those of its type.
LEMMA EventTyped ==
    ASSUME TypeOK, NEW type \in EventType, NEW end \in Nat, NEW flag \in BOOLEAN
    PROVE  /\ Event(type, end, flag) \in EventRow
           /\ Event(type, end, flag).type = type /\ Event(type, end, flag).end = end
           /\ (Event(type, end, flag).flag <=> flag)
  <1> DEFINE same == {e \in issued : e.type = type}
  <1>1. IsFiniteSet(issued) /\ same \subseteq issued
    BY DEF TypeOK
  <1>2. Cardinality(same) \in Nat
    BY <1>1, FS_Subset, FS_CardinalityType
  <1> HIDE DEF same
  <1>3. PICK n \in Nat : n = Cardinality(same) + 1
    BY <1>2
  <1>4. Event(type, end, flag) = [type |-> type, number |-> n, end |-> end, flag |-> flag]
    BY <1>3 DEF Event, same
  <1> QED
    BY <1>4 DEF EventRow

\* Times to come are times.
LEMMA TimesTyped ==
    ASSUME TypeOK
    PROVE  /\ now \in Nat /\ now + Period \in Nat /\ contract.paidUntil \in Nat
           /\ contract.paidUntil + Period \in Nat /\ Period \in Nat /\ Period > 0 /\ Grace \in Nat
           /\ since \in Nat /\ bound.time \in Nat
  BY ConstantsAssumption DEF TypeOK

\* What the provider sends is one event more, and handlers go on.
LEMMA OneMoreIsTyped ==
    ASSUME TypeOK, NEW e \in EventRow, issued' = issued \cup {e}, UNCHANGED <<received, handling>>
    PROVE  EventsTyped'
  <1>1. IsFiniteSet(issued')
    BY FS_AddElement DEF TypeOK
  <1>2. handling \subseteq Handling'
    BY DEF TypeOK, Handling
  <1> QED
    BY <1>1, <1>2 DEF TypeOK, EventsTyped

\* What is heard is no longer to be handled.
LEMMA HeardIsTyped ==
    ASSUME TypeOK, NEW e \in issued, received' = received \cup {e}, UNCHANGED issued,
           handling' \subseteq handling, \A h \in handling' : h.event # e
    PROVE  EventsTyped'
  <1>1. \A h \in handling' : h \in Handling'
    <2>1. SUFFICES ASSUME NEW h \in handling' PROVE h \in Handling'
      OBVIOUS
    <2>2. h \in [event : issued \ received, row : Row] /\ h.event # e
      BY DEF TypeOK
    <2>3. PICK x \in issued \ received, r \in Row : h = [event |-> x, row |-> r]
      BY <2>2
    <2>4. x \in issued' \ received'
      BY <2>2, <2>3
    <2> QED
      BY <2>3, <2>4 DEF Handling
  <1> QED
    BY <1>1 DEF TypeOK, EventsTyped

\* What the row becomes when an event is heard or a request commits: a row of
\* typed columns.
LEMMA HeardRows ==
    ASSUME TypeOK, NEW e \in issued, HearCheckout(e) \/ HearPaid(e),
           e.type = "paid" => e.end >= Period
    PROVE  row' \in Row /\ since' \in Nat
  <1>1. row \in Row /\ e.end \in Nat
    BY DEF TypeOK, EventRow
  <1>2. CASE HearCheckout(e)
    <2>1. PICK end \in Nat : end = now + Period
      BY TimesTyped
    <2>2. row' = [row EXCEPT !.status = "ACTIVE", !.periodEnd = end, !.starts = now, !.ends = end]
      BY <1>2, <2>1 DEF HearCheckout
    <2>3. row' \in Row
      BY <1>1, <2>2, TimesTyped, CheckoutRow DEF CheckedOut
    <2> QED
      BY <1>2, <2>3, TimesTyped DEF HearCheckout
  <1>3. CASE HearPaid(e) /\ e.flag
    BY <1>1, <1>3, TimesTyped DEF HearPaid
  <1>4. CASE HearPaid(e) /\ ~e.flag
    <2>1. PICK t \in Nat : t = e.end - Period
      BY <1>1, <1>4, TimesTyped DEF HearPaid
    <2>2. row' = [row EXCEPT !.status = "ACTIVE", !.periodEnd = e.end, !.grace = 0,
                             !.version = row.version + 1, !.starts = t, !.ends = e.end,
                             !.revoked = FALSE]
      BY <1>4, <2>1 DEF HearPaid
    <2>3. row' \in Row
      BY <1>1, <2>2, PaidRow DEF PaidFor
    <2> QED
      BY <1>4, <2>3 DEF HearPaid
  <1> QED
    BY <1>2, <1>3, <1>4

\* The ends of the grace and of the access a failure writes.
LEMMA GraceTyped ==
    ASSUME TypeOK, NEW seen \in Row
    PROVE  /\ GraceEndsAt(seen) \in Nat /\ AccessEndsAt(seen) \in Nat
           /\ AccessEndsAt(seen) >= seen.periodEnd
  <1>1. seen.grace \in Nat /\ seen.periodEnd \in Nat
    BY DEF Row
  <1>2. Later(now, seen.periodEnd) \in Nat
    BY <1>1, TimesTyped, LaterIs
  <1>3. GraceEndsAt(seen) \in Nat
    BY <1>1, <1>2, TimesTyped DEF GraceEndsAt
  <1> QED
    BY <1>1, <1>3, LaterIs DEF AccessEndsAt

\* What a failure makes of the row.
LEMMA FailedWrites ==
    ASSUME TypeOK, NEW e, NEW seen \in Row, HearFailed(e, seen), Collectable(seen)
    PROVE  FailedTo(row', row, GraceEndsAt(seen), AccessEndsAt(seen), AccessEndsAt(seen) <= now)
  <1>1. PICK grace \in Nat, end \in Nat : grace = GraceEndsAt(seen) /\ end = AccessEndsAt(seen)
    BY GraceTyped
  <1>2. PICK over \in BOOLEAN : over <=> end <= now
    OBVIOUS
  <1>3. (end <= now) = over
    BY <1>2
  <1>4. row' = [row EXCEPT !.status = "PAST_DUE", !.grace = grace, !.version = row.version + 1,
                           !.ends = end, !.revoked = (end <= now)]
    BY <1>1 DEF HearFailed
  <1>5. row' = [row EXCEPT !.status = "PAST_DUE", !.grace = grace, !.version = row.version + 1,
                           !.ends = end, !.revoked = over]
    BY <1>3, <1>4
  <1>6. row \in Row
    BY DEF TypeOK
  <1>7. FailedTo(row', row, grace, end, over)
    BY <1>5, <1>6, FailedRow
  <1> QED
    BY <1>1, <1>2, <1>7 DEF FailedTo

\* What the end of the contract makes of the row.
LEMMA DeletedWrites ==
    ASSUME TypeOK, NEW e, NEW seen \in Row, HearDeleted(e, seen)
    PROVE  /\ row' \in Row /\ row'.periodEnd = row.periodEnd /\ row'.starts = row.starts
           /\ row'.ends = row.ends
           /\ \/ row' = row /\ seen.status = Ended
              \/ row'.status = Ended /\ row'.grace = 0 /\ row'.revoked
  <1>1. row \in Row
    BY DEF TypeOK
  <1>2. CASE seen.status = Ended /\ seen.revoked
    BY <1>1, <1>2 DEF HearDeleted
  <1>3. CASE ~(seen.status = Ended /\ seen.revoked)
    <2>1. row' = [row EXCEPT !.status = Ended, !.flag = FALSE, !.grace = 0,
                             !.version = row.version + 1, !.revoked = TRUE]
      BY <1>3 DEF HearDeleted
    <2> QED
      BY <1>1, <2>1, DeletedRow
  <1> QED
    BY <1>2, <1>3

\* So does an event that carries it.
LEMMA UpdatedWrites ==
    ASSUME TypeOK, NEW e \in EventRow, NEW seen \in Row, HearUpdated(e, seen)
    PROVE  SameButFlag(row', row)
  <1>1. row \in Row /\ row.version \in Nat /\ e.flag \in BOOLEAN
    BY DEF TypeOK, Row, EventRow
  <1>2. PICK v \in Nat : v = row.version + 1
    BY <1>1
  <1>3. CASE row' = row
    BY <1>1, <1>3 DEF SameButFlag
  <1>4. CASE row' = [row EXCEPT !.flag = e.flag, !.version = v]
    BY <1>1, <1>4, FlagRow
  <1> QED
    BY <1>2, <1>3, <1>4 DEF HearUpdated

\* So does a request that commits it.
LEMMA CommittedWrites ==
    ASSUME TypeOK, NEW q \in Request, CommitChange(q)
    PROVE  SameButFlag(row', row)
  <1>1. row \in Row /\ row.version \in Nat /\ request[q].want \in BOOLEAN
    BY DEF TypeOK, Row
  <1>2. PICK want \in BOOLEAN : want = request[q].want
    BY <1>1
  <1>3. PICK v \in Nat : v = IF want THEN row.version ELSE row.version + 1
    BY <1>1
  <1>4. row' = row \/ row' = [row EXCEPT !.flag = want, !.version = v]
    BY <1>2, <1>3 DEF CommitChange
  <1>5. CASE row' = row
    BY <1>1, <1>5 DEF SameButFlag
  <1>6. CASE row' = [row EXCEPT !.flag = want, !.version = v]
    BY <1>1, <1>6, FlagRow
  <1> QED
    BY <1>4, <1>5, <1>6

\* Periods are paid in full.
FullPeriods ==
    /\ contract.paidUntil >= Period
    /\ \A e \in issued : e.type = "paid" => e.end >= Period

\* The provider bills and ends a contract.
LEMMA BillTyped ==
    ASSUME TypeOK, FullPeriods, Bill \/ EndContract
    PROVE  TypeOK' /\ FullPeriods'
  <1>1. PICK end \in Nat : end = contract.paidUntil + Period
    BY TimesTyped
  <1>2. end >= Period /\ contract \in ContractRow
    BY <1>1, TimesTyped, Parts
  <1>3. PICK type \in EventType, until \in Nat :
            /\ issued' = issued \cup {Event(type, until, FALSE)}
            /\ type = "paid" => until >= Period
    BY <1>1, <1>2, TimesTyped DEF Bill, EndContract, EventType
  <1>4. PICK e \in EventRow : e = Event(type, until, FALSE)
    BY EventTyped
  <1>5. e.type = type /\ e.end = until
    BY <1>4, EventTyped
  <1>6. /\ issued' = issued \cup {e}
        /\ UNCHANGED <<bound, received, row, handling, request, now, history>>
    BY <1>3, <1>4 DEF Bill, EndContract
  <1>7. EventsTyped'
    BY <1>6, OneMoreIsTyped
  <1>8. contract' \in ContractRow /\ contract'.paidUntil >= Period
    <2>1. CASE contract' = [contract EXCEPT !.paidUntil = end]
      BY <1>2, <2>1 DEF ContractRow
    <2>2. CASE contract' = contract
      BY <1>2, <2>2 DEF FullPeriods
    <2>3. CASE contract' = [contract EXCEPT !.state = "DELETED"]
      BY <1>2, <2>3 DEF ContractRow, FullPeriods
    <2> QED
      BY <1>1, <2>1, <2>2, <2>3 DEF Bill, EndContract
  <1>9. row' \in Row /\ RequestsTyped' /\ ClockTyped'
    BY <1>6, Parts DEF RequestsTyped, ClockTyped, history
  <1>10. \A x \in issued' : x.type = "paid" => x.end >= Period
    BY <1>3, <1>5, <1>6 DEF FullPeriods
  <1> QED
    BY <1>7, <1>8, <1>9, <1>10, Parts DEF FullPeriods

\* An event is heard in one step.
LEMMA HearTyped ==
    ASSUME TypeOK, FullPeriods, NEW e \in issued, Hear(e)
    PROVE  TypeOK' /\ FullPeriods'
  <1>1. \A h \in handling : h.event # e
    BY DEF Hear, LocksFree
  <1>2. EventsTyped'
    BY <1>1, HeardIsTyped DEF Hear
  <1>3. row' \in Row /\ since' \in Nat
    BY HeardRows DEF Hear, FullPeriods
  <1>4. RequestsTyped' /\ ClockTyped' /\ contract' \in ContractRow
    BY <1>3, Parts DEF Hear, RequestsTyped, ClockTyped
  <1>5. FullPeriods'
    BY DEF Hear, FullPeriods
  <1> QED
    BY <1>2, <1>3, <1>4, <1>5, Parts

\* A handler reads the row.
LEMMA BeginTyped ==
    ASSUME TypeOK, FullPeriods, NEW e \in issued, BeginHearing(e)
    PROVE  TypeOK' /\ FullPeriods'
  <1>1. PICK new : new = [event |-> e, row |-> row]
    OBVIOUS
  <1>2. new \in Handling /\ new.event = e /\ Handling' = Handling
    BY <1>1 DEF BeginHearing, Handling, TypeOK
  <1>3. handling' = handling \cup {new} /\ \A h \in handling : h.event # new.event
    BY <1>1, <1>2 DEF BeginHearing, LocksFree
  <1>4. EventsTyped'
    BY <1>2, <1>3, Parts DEF BeginHearing, EventsTyped
  <1>5. contract' \in ContractRow /\ row' \in Row /\ RequestsTyped' /\ ClockTyped'
    BY Parts DEF BeginHearing, RequestsTyped, ClockTyped, history
  <1>6. FullPeriods'
    BY DEF BeginHearing, FullPeriods
  <1> QED
    BY <1>4, <1>5, <1>6, Parts

\* What is known of a handler.
LEMMA HandlerTyped ==
    ASSUME TypeOK, NEW h \in handling
    PROVE  /\ h.event \in issued /\ h.event \notin received /\ h.event \in EventRow /\ h.row \in Row
           /\ \A g \in handling \ {h} : g.event # h.event
  BY DEF TypeOK

\* A handler commits, or is rolled back.
LEMMA CommitTyped ==
    ASSUME TypeOK, FullPeriods, NEW h \in handling, CommitHearing(h) \/ Rollback(h)
    PROVE  TypeOK' /\ FullPeriods'
  <1>1. CASE Rollback(h)
    <2>1. EventsTyped'
      BY <1>1, Parts DEF Rollback, EventsTyped, Handling
    <2>2. contract' \in ContractRow /\ row' \in Row /\ RequestsTyped' /\ ClockTyped'
      BY <1>1, Parts DEF Rollback, RequestsTyped, ClockTyped, history
    <2> QED
      BY <1>1, <2>1, <2>2, Parts DEF Rollback, FullPeriods
  <1>2. CASE CommitHearing(h)
    <2>1. EventsTyped'
      BY <1>2, HandlerTyped, HeardIsTyped DEF CommitHearing
    <2>2. row' \in Row /\ since' \in Nat /\ disordered' \in BOOLEAN /\ crossed' \in BOOLEAN
      <3>1. CASE HearFailed(h.event, h.row)
        <4>1. CASE Collectable(h.row)
          BY <3>1, <4>1, HandlerTyped, TimesTyped, FailedWrites, Parts
             DEF FailedTo, HearFailed, ClockTyped
        <4>2. CASE ~Collectable(h.row)
          BY <3>1, <4>2, Parts DEF HearFailed, ClockTyped
        <4> QED
          BY <4>1, <4>2
      <3>2. CASE HearUpdated(h.event, h.row)
        BY <3>2, HandlerTyped, UpdatedWrites, Parts DEF SameButFlag, HearUpdated, ClockTyped
      <3>3. CASE HearDeleted(h.event, h.row)
        BY <3>3, HandlerTyped, DeletedWrites, Parts DEF HearDeleted, ClockTyped
      <3> QED
        BY <1>2, <3>1, <3>2, <3>3 DEF CommitHearing
    <2>3. contract' \in ContractRow /\ RequestsTyped' /\ ClockTyped'
      BY <1>2, <2>2, Parts DEF CommitHearing, RequestsTyped, ClockTyped
    <2> QED
      BY <1>2, <2>1, <2>2, <2>3, Parts DEF CommitHearing, FullPeriods
  <1> QED
    BY <1>1, <1>2

\* A request begins, is given up, or commits: it changes no event.
LEMMA RequestTyped ==
    ASSUME TypeOK, FullPeriods, NEW q \in Request,
           (\E want \in BOOLEAN : BeginChange(q, want)) \/ CommitChange(q) \/ GiveUp(q)
    PROVE  TypeOK' /\ FullPeriods'
  <1>1. UNCHANGED <<bound, contract, issued, received, handling, now, since, disordered, crossed>>
    BY DEF BeginChange, CommitChange, GiveUp, history
  <1>2. row.version \in Nat /\ row.flag \in BOOLEAN /\ Idle \in RequestRow
    BY DEF TypeOK, Row, Idle, RequestRow
  <1>3. RequestsTyped'
    <2>1. CASE \E want \in BOOLEAN : BeginChange(q, want)
      <3>1. PICK want \in BOOLEAN : BeginChange(q, want)
        BY <2>1
      <3>2. PICK new : new = [op |-> IF row.flag = want THEN "committing" ELSE "calling",
                              want |-> want, version |-> row.version, called |-> row.flag # want]
        OBVIOUS
      <3>3. new \in RequestRow /\ request' = [request EXCEPT ![q] = new]
        BY <1>2, <3>1, <3>2 DEF BeginChange, RequestRow
      <3> QED
        BY <3>3, Parts DEF RequestsTyped
    <2>2. CASE CommitChange(q) \/ GiveUp(q)
      BY <1>2, <2>2, Parts DEF CommitChange, GiveUp, RequestsTyped
    <2> QED
      BY <2>1, <2>2
  <1>4. row' \in Row /\ skipped' \in BOOLEAN
    <2>1. CASE CommitChange(q)
      BY <2>1, CommittedWrites DEF CommitChange, SameButFlag, TypeOK
    <2>2. CASE ~CommitChange(q)
      BY <2>2, Parts DEF BeginChange, GiveUp, history, ClockTyped
    <2> QED
      BY <2>1, <2>2
  <1>5. contract' \in ContractRow /\ EventsTyped' /\ ClockTyped'
    <2>1. overlapped' \in BOOLEAN
      <3>1. CASE \E want \in BOOLEAN : BeginChange(q, want)
        BY <3>1 DEF BeginChange
      <3>2. CASE CommitChange(q) \/ GiveUp(q)
        BY <3>2, Parts DEF CommitChange, GiveUp, history, ClockTyped
      <3> QED
        BY <3>1, <3>2
    <2> QED
      BY <1>1, <1>4, <2>1, Parts DEF EventsTyped, Handling, ClockTyped
  <1> QED
    BY <1>1, <1>3, <1>4, <1>5, Parts DEF FullPeriods

\* A request calls the provider: what it changes is the flag and the keys of
\* the contract, and the event of it.
LEMMA CallChanges ==
    ASSUME TypeOK, NEW q \in Request, CallProvider(q)
    PROVE  /\ contract' \in ContractRow
           /\ contract'.state = contract.state /\ contract'.paidUntil = contract.paidUntil
           /\ \/ UNCHANGED issued
              \/ \E e \in EventRow : e.type = "updated" /\ issued' = issued \cup {e}
           /\ UNCHANGED <<bound, received, row, handling, now, history>>
  <1>1. PICK want \in BOOLEAN : want = request[q].want
    BY DEF TypeOK
  <1>2. PICK key \in BOOLEAN \X Nat : key = Key(q)
    BY DEF TypeOK, Key
  <1>3. PICK changes \in BOOLEAN : changes <=> Key(q) \notin contract.keys /\ contract.flag # want
    OBVIOUS
  <1>4. PICK keys \in SUBSET (BOOLEAN \X Nat) : keys = contract.keys \cup {key}
    BY DEF TypeOK
  <1>5. PICK flag \in BOOLEAN : flag = IF changes THEN want ELSE contract.flag
    BY DEF TypeOK
  <1>6. contract' = [contract EXCEPT !.keys = keys, !.flag = flag]
    BY <1>1, <1>2, <1>3, <1>4, <1>5 DEF CallProvider
  <1>7. issued' = IF changes THEN issued \cup {Event("updated", contract.paidUntil, want)} ELSE issued
    BY <1>1, <1>3 DEF CallProvider
  <1>8. /\ contract' \in ContractRow
        /\ contract'.state = contract.state /\ contract'.paidUntil = contract.paidUntil
    BY <1>6, Parts DEF ContractRow
  <1>9. PICK end \in Nat : end = contract.paidUntil
    BY TimesTyped
  <1>10. "updated" \in EventType
    BY DEF EventType
  <1>11. /\ Event("updated", end, want) \in EventRow
         /\ Event("updated", end, want).type = "updated"
    BY <1>10, EventTyped
  <1> QED
    BY <1>7, <1>8, <1>9, <1>11 DEF CallProvider

LEMMA CallTyped ==
    ASSUME TypeOK, FullPeriods, NEW q \in Request, CallProvider(q)
    PROVE  TypeOK' /\ FullPeriods'
  <1>1. EventsTyped'
    <2>1. CASE UNCHANGED issued
      BY <2>1, CallChanges, Parts DEF EventsTyped, Handling
    <2>2. CASE \E e \in EventRow : e.type = "updated" /\ issued' = issued \cup {e}
      BY <2>2, CallChanges, OneMoreIsTyped
    <2> QED
      BY <2>1, <2>2, CallChanges
  <1>2. RequestsTyped'
    <2>1. PICK new : new = [request[q] EXCEPT !.op = "committing"]
      OBVIOUS
    <2>2. new \in RequestRow
      BY <2>1, Parts DEF RequestsTyped, RequestRow
    <2>3. request' = [request EXCEPT ![q] = new]
      BY <2>1, Parts DEF CallProvider, Does, RequestsTyped
    <2> QED
      BY <2>2, <2>3, Parts DEF RequestsTyped
  <1>3. contract' \in ContractRow /\ row' \in Row /\ ClockTyped'
    BY CallChanges, Parts DEF ClockTyped, history
  <1>4. FullPeriods'
    BY CallChanges DEF FullPeriods
  <1> QED
    BY <1>1, <1>2, <1>3, <1>4, Parts

LEMMA InitTyped == Init => TypeOK /\ FullPeriods
  <1>1. SUFFICES ASSUME Init PROVE TypeOK /\ FullPeriods
    OBVIOUS
  <1>2. PICK first \in EventRow, paid \in EventRow :
            issued = {first, paid} /\ first.end = Period /\ paid.end = Period
    <2>1. PICK discounted \in BOOLEAN :
              issued = {[type |-> "checkout", number |-> 1, end |-> Period, flag |-> FALSE],
                        [type |-> "paid", number |-> 1, end |-> Period, flag |-> discounted]}
      BY <1>1 DEF Init, Initial
    <2>2. PICK first : first = [type |-> "checkout", number |-> 1, end |-> Period, flag |-> FALSE]
      OBVIOUS
    <2>3. PICK paid : paid = [type |-> "paid", number |-> 1, end |-> Period, flag |-> discounted]
      OBVIOUS
    <2>4. first \in EventRow /\ first.end = Period
      BY <2>2, ConstantsAssumption DEF EventRow, EventType
    <2>5. paid \in EventRow /\ paid.end = Period
      BY <2>3, ConstantsAssumption DEF EventRow, EventType
    <2> QED
      BY <2>1, <2>2, <2>3, <2>4, <2>5
  <1>3. IsFiniteSet(issued)
    <2>1. IsFiniteSet({first}) /\ issued = {first} \cup {paid}
      BY <1>2, FS_Singleton
    <2> QED
      BY <2>1, FS_AddElement
  <1>4. EventsTyped
    BY <1>1, <1>2, <1>3 DEF Init, EventsTyped
  <1>5. contract \in ContractRow /\ row \in Row
    BY <1>1, ConstantsAssumption DEF Init, Initial, ContractRow, Row
  <1>6. RequestsTyped
    <2>1. Idle \in RequestRow
      BY DEF Idle, RequestRow
    <2> QED
      BY <1>1, <2>1 DEF Init, RequestsTyped
  <1>8. ClockTyped
    <2>1. bound \in Bounds /\ bound.time \in Nat
      BY <1>1, ConstantsAssumption DEF Init
    <2>2. 0 \in 0 .. bound.time /\ 0 \in Nat
      BY <2>1
    <2>3. now = 0 /\ since = 0 /\ disordered = FALSE /\ skipped = FALSE
          /\ overlapped = FALSE /\ crossed = FALSE
      BY <1>1 DEF Init
    <2> QED
      BY <2>1, <2>2, <2>3 DEF ClockTyped
  <1>7. FullPeriods
    BY <1>1, <1>2, ConstantsAssumption DEF Init, Initial, FullPeriods
  <1> QED
    BY <1>4, <1>5, <1>6, <1>7, <1>8, Parts

LEMMA TypePreserved ==
    TypeOK /\ FullPeriods /\ [Next]_vars => TypeOK' /\ FullPeriods'
  <1>1. SUFFICES ASSUME TypeOK, FullPeriods, [Next]_vars PROVE TypeOK' /\ FullPeriods'
    OBVIOUS
  <1>2. CASE Tick \/ UNCHANGED vars
    <2>1. UNCHANGED <<bound, contract, issued, received, row, handling, request, history>>
      BY <1>2 DEF Tick, vars
    <2>2. EventsTyped' /\ RequestsTyped'
      BY <1>1, <2>1, Parts DEF EventsTyped, Handling, RequestsTyped
    <2>3. now' \in 0 .. bound.time
      BY <1>1, <1>2, TimesTyped DEF TypeOK, Tick, vars
    <2>4. ClockTyped'
      BY <1>1, <2>1, <2>3, Parts DEF ClockTyped, history
    <2>5. contract' \in ContractRow /\ row' \in Row /\ FullPeriods'
      BY <1>1, <2>1, Parts DEF FullPeriods
    <2> QED
      BY <1>1, <2>2, <2>4, <2>5, Parts
  <1> QED
    BY <1>1, <1>2, BillTyped, HearTyped, BeginTyped, CommitTyped, RequestTyped, CallTyped
       DEF Next

\* Every variable keeps its type.
THEOREM TypeCorrect == Spec => []TypeOK
  <1>1. TypeOK /\ FullPeriods /\ [Next]_vars => (TypeOK /\ FullPeriods)'
    BY TypePreserved
  <1> QED
    BY <1>1, InitTyped, PTL DEF Spec

-----------------------------------------------------------------------------
(***************************************************************************)
(* What the provider may still say.                                        *)
(***************************************************************************)

Bills == {"checkout", "paid", "failed"}

\* What is not yet heard of payments is about the last paid period or the next,
\* and all of it about one invoice.
BillsInv ==
    /\ contract.paidUntil <= now + Period
    /\ \A e \in issued : e.type = "paid" =>
          e.end <= contract.paidUntil /\ (e.flag => e.end = Period)
    /\ \A e \in issued : e.type = "deleted" => contract.state = "DELETED"
    /\ \A e, f \in issued : e.type = "checkout" /\ f.type = "checkout" => e = f
    /\ \A e \in Unheard(Bills) : e.end \in {contract.paidUntil, contract.paidUntil + Period}
    /\ \A e \in Unheard({"checkout", "paid"}) : e.end = contract.paidUntil
    /\ \A e, f \in Unheard(Bills) : e.end = f.end

\* The row is there once the checkout is heard, and nothing is handled before.
KnownInv ==
    /\ Known => Unheard({"checkout"}) = {} /\ row.periodEnd > 0
    /\ ~Known => ~row.revoked /\ handling = {} /\ row.ends = 0
    /\ \A h \in handling : h.event.type \in {"failed", "updated", "deleted"}

\* Failures of one invoice are handled one at a time.
SeparateInv ==
    \A h, g \in handling :
        h.event.type = "failed" /\ g.event.type = "failed" /\ h.event.end = g.event.end => h = g

LEMMA UnheardIs ==
    ASSUME NEW types, NEW e
    PROVE  e \in Unheard(types) <=> e \in issued /\ e \notin received /\ e.type \in types
  BY DEF Unheard

LEMMA UnheardWillBe ==
    ASSUME NEW types, NEW e
    PROVE  e \in Unheard(types)' <=> e \in issued' /\ e \notin received' /\ e.type \in types
  BY DEF Unheard

\* Steps that send no bill.
NoNewBill ==
    /\ contract'.state = contract.state /\ contract'.paidUntil = contract.paidUntil
    /\ now' \in Nat /\ now' >= now /\ received \subseteq received'
    /\ \/ UNCHANGED issued
       \/ \E e \in EventRow : e.type = "updated" /\ issued' = issued \cup {e}

LEMMA OthersSendNoBill ==
    ASSUME TypeOK, [Next]_vars, ~Bill, ~EndContract
    PROVE  NoNewBill
  <1>0. now \in Nat
    BY TimesTyped
  <1>1. ASSUME NEW e \in issued, Hear(e) \/ BeginHearing(e) PROVE NoNewBill
    BY <1>0, <1>1 DEF Hear, BeginHearing, NoNewBill
  <1>2. ASSUME NEW h \in handling, CommitHearing(h) \/ Rollback(h) PROVE NoNewBill
    BY <1>0, <1>2 DEF CommitHearing, Rollback, NoNewBill
  <1>3. ASSUME NEW q \in Request,
               (\E want \in BOOLEAN : BeginChange(q, want)) \/ CommitChange(q) \/ GiveUp(q)
        PROVE  NoNewBill
    BY <1>0, <1>3 DEF BeginChange, CommitChange, GiveUp, NoNewBill
  <1>4. ASSUME NEW q \in Request, CallProvider(q) PROVE NoNewBill
    BY <1>0, <1>4, CallChanges DEF NoNewBill
  <1>5. CASE Tick \/ UNCHANGED vars
    BY <1>0, <1>5 DEF Tick, vars, NoNewBill
  <1> QED
    BY <1>1, <1>2, <1>3, <1>4, <1>5 DEF Next

\* Without a new bill, less is left to be heard.
LEMMA LessUnheard ==
    ASSUME NoNewBill, NEW types \in SUBSET Bills
    PROVE  Unheard(types)' \subseteq Unheard(types)
  <1>1. "updated" \notin types
    BY DEF Bills
  <1> QED
    BY <1>1 DEF NoNewBill, Unheard

LEMMA BillsKept ==
    ASSUME TypeOK, BillsInv, NoNewBill
    PROVE  BillsInv'
  <1>1. /\ Unheard(Bills)' \subseteq Unheard(Bills)
        /\ Unheard({"checkout", "paid"})' \subseteq Unheard({"checkout", "paid"})
        /\ Unheard({"paid"})' \subseteq Unheard({"paid"})
    BY LessUnheard DEF Bills
  <1>2. \A e \in issued' : e \in issued \/ e.type = "updated"
    BY DEF NoNewBill
  <1>3. contract'.paidUntil <= now' + Period
    BY TimesTyped DEF NoNewBill, BillsInv
  <1>4. /\ \A e \in issued' : e.type = "paid" =>
              e.end <= contract'.paidUntil /\ (e.flag => e.end = Period)
        /\ \A e \in issued' : e.type = "deleted" => contract'.state = "DELETED"
        /\ \A e, f \in issued' : e.type = "checkout" /\ f.type = "checkout" => e = f
    BY <1>2 DEF NoNewBill, BillsInv
  <1>5. /\ \A e \in Unheard(Bills)' : e.end \in {contract'.paidUntil, contract'.paidUntil + Period}
        /\ \A e \in Unheard({"checkout", "paid"})' : e.end = contract'.paidUntil
        /\ \A e, f \in Unheard(Bills)' : e.end = f.end
    BY <1>1 DEF NoNewBill, BillsInv
  <1> QED
    BY <1>3, <1>4, <1>5 DEF BillsInv

\* What one more event leaves to be heard.
LEMMA OneMoreUnheard ==
    ASSUME NEW e, issued' = issued \cup {e}, UNCHANGED received, NEW types
    PROVE  /\ Unheard(types)' \subseteq Unheard(types) \cup {e}
           /\ e.type \notin types => Unheard(types)' \subseteq Unheard(types)
  BY DEF Unheard

\* A bill: what it does to the contract, the event of it, and what it leaves alone.
Billed(e, end) ==
    /\ contract.state = "RUNNING" /\ contract'.state = "RUNNING"
    /\ end = contract.paidUntil + Period /\ now >= contract.paidUntil
    /\ \A x \in Unheard(Bills) : x.end > contract.paidUntil
    /\ issued' = issued \cup {e} /\ e.end = end /\ ~e.flag
    /\ \/ e.type = "paid" /\ contract'.paidUntil = end
       \/ e.type = "failed" /\ contract'.paidUntil = contract.paidUntil
    /\ UNCHANGED <<bound, received, row, handling, request, now, history>>

LEMMA BillIs ==
    ASSUME TypeOK, Bill
    PROVE  \E e \in EventRow, end \in Nat : Billed(e, end)
  <1>1. PICK end \in Nat : end = contract.paidUntil + Period
    BY TimesTyped
  <1>2. contract \in ContractRow
    BY Parts
  <1>3. PICK type \in {"paid", "failed"} :
            /\ issued' = issued \cup {Event(type, end, FALSE)}
            /\ \/ type = "paid" /\ contract' = [contract EXCEPT !.paidUntil = end]
               \/ type = "failed" /\ contract' = contract
    BY <1>1 DEF Bill
  <1>4. type \in EventType /\ FALSE \in BOOLEAN
    BY DEF EventType
  <1>5. PICK e \in EventRow : e = Event(type, end, FALSE)
    BY <1>4, EventTyped
  <1>6. e.type = type /\ e.end = end /\ ~e.flag
    BY <1>4, <1>5, EventTyped
  <1>7. \/ e.type = "paid" /\ contract'.paidUntil = end /\ contract'.state = contract.state
        \/ e.type = "failed" /\ contract'.paidUntil = contract.paidUntil /\ contract' = contract
    BY <1>2, <1>3, <1>6 DEF ContractRow
  <1>8. /\ contract.state = "RUNNING" /\ now >= contract.paidUntil
        /\ \A x \in Unheard(Bills) : x.end > contract.paidUntil
        /\ UNCHANGED <<bound, received, row, handling, request, now, history>>
    BY DEF Bill, Bills
  <1> QED
    BY <1>1, <1>3, <1>5, <1>6, <1>7, <1>8 DEF Billed

LEMMA BilledKept ==
    ASSUME TypeOK, BillsInv, Bill
    PROVE  BillsInv'
  <1>1. PICK e \in EventRow, end \in Nat : Billed(e, end)
    BY BillIs
  <1>2. end > contract.paidUntil /\ contract.paidUntil \in Nat /\ now \in Nat /\ end <= now + Period
    BY <1>1, TimesTyped DEF Billed
  <1>3. \A x \in Unheard(Bills)' : x.end = end
    <2>1. \A x \in Unheard(Bills) : x.end = end
      BY <1>1, <1>2 DEF Billed, BillsInv
    <2>2. Unheard(Bills)' \subseteq Unheard(Bills) \cup {e}
      BY <1>1, OneMoreUnheard DEF Billed
    <2> QED
      BY <1>1, <2>1, <2>2 DEF Billed
  <1>4. \A x \in issued' : x \in issued \/ x = e
    BY <1>1 DEF Billed
  <1>5. contract'.paidUntil <= now' + Period
    BY <1>1, <1>2, TimesTyped DEF Billed, BillsInv
  <1>6. \A x \in issued' : x.type = "paid" =>
            x.end <= contract'.paidUntil /\ (x.flag => x.end = Period)
    <2>1. SUFFICES ASSUME NEW x \in issued', x.type = "paid"
                   PROVE  x.end <= contract'.paidUntil /\ (x.flag => x.end = Period)
      OBVIOUS
    <2>2. CASE x \in issued
      <3>1. x.end \in Nat /\ x.end <= contract.paidUntil /\ (x.flag => x.end = Period)
        BY <2>1, <2>2 DEF BillsInv, TypeOK, EventRow
      <3> QED
        BY <1>1, <1>2, <3>1 DEF Billed
    <2>3. CASE x = e
      BY <1>1, <1>2, <2>1, <2>3 DEF Billed
    <2> QED
      BY <1>4, <2>2, <2>3
  <1>7. /\ \A x \in issued' : x.type = "deleted" => contract'.state = "DELETED"
        /\ \A x, y \in issued' : x.type = "checkout" /\ y.type = "checkout" => x = y
    BY <1>1, <1>4 DEF Billed, BillsInv
  <1>8. \A x \in Unheard({"checkout", "paid"})' : x.end = contract'.paidUntil
    <2>1. CASE e.type = "paid"
      <3>1. Unheard({"checkout", "paid"})' \subseteq Unheard(Bills)'
        BY DEF Unheard, Bills
      <3> QED
        BY <1>1, <1>3, <2>1, <3>1 DEF Billed
    <2>2. CASE e.type = "failed"
      BY <1>1, <2>2, OneMoreUnheard DEF Billed, BillsInv
    <2> QED
      BY <1>1, <2>1, <2>2 DEF Billed
  <1>9. /\ \A x \in Unheard(Bills)' : x.end \in {contract'.paidUntil, contract'.paidUntil + Period}
        /\ \A x, y \in Unheard(Bills)' : x.end = y.end
    BY <1>1, <1>3 DEF Billed
  <1>10. contract'.state # "DELETED"
    BY <1>1 DEF Billed
  <1> QED
    BY <1>5, <1>6, <1>7, <1>8, <1>9, <1>10 DEF BillsInv

LEMMA EndIs ==
    ASSUME TypeOK, EndContract
    PROVE  \E e \in EventRow :
               /\ e.type = "deleted" /\ issued' = issued \cup {e}
               /\ contract.state = "RUNNING" /\ contract'.state = "DELETED"
               /\ contract'.paidUntil = contract.paidUntil
               /\ UNCHANGED <<bound, received, row, handling, request, now, history>>
  <1>1. contract.paidUntil \in Nat /\ "deleted" \in EventType /\ FALSE \in BOOLEAN
    BY TimesTyped DEF EventType
  <1>2. PICK e \in EventRow : e = Event("deleted", contract.paidUntil, FALSE)
    BY <1>1, EventTyped
  <1>3. e.type = "deleted"
    BY <1>1, <1>2, EventTyped
  <1>4. contract' = [contract EXCEPT !.state = "DELETED"] /\ contract \in ContractRow
    BY Parts DEF EndContract
  <1>5. contract'.state = "DELETED" /\ contract'.paidUntil = contract.paidUntil
    BY <1>4 DEF ContractRow
  <1> QED
    BY <1>2, <1>3, <1>5 DEF EndContract

LEMMA EndedKept ==
    ASSUME TypeOK, BillsInv, EndContract
    PROVE  BillsInv'
  <1>1. PICK e \in EventRow :
            /\ e.type = "deleted" /\ issued' = issued \cup {e}
            /\ contract'.state = "DELETED" /\ contract'.paidUntil = contract.paidUntil
            /\ UNCHANGED <<received, now>>
    BY EndIs
  <1>2. /\ Unheard(Bills)' \subseteq Unheard(Bills)
        /\ Unheard({"checkout", "paid"})' \subseteq Unheard({"checkout", "paid"})
        /\ Unheard({"paid"})' \subseteq Unheard({"paid"})
    BY <1>1, OneMoreUnheard DEF Bills
  <1>4. \A x \in issued' : x \in issued \/ x.type = "deleted"
    BY <1>1
  <1>5. /\ contract'.paidUntil <= now' + Period
        /\ \A x \in issued' : x.type = "paid" =>
              x.end <= contract'.paidUntil /\ (x.flag => x.end = Period)
        /\ \A x, y \in issued' : x.type = "checkout" /\ y.type = "checkout" => x = y
    BY <1>1, <1>4 DEF BillsInv
  <1>6. /\ \A x \in Unheard(Bills)' : x.end \in {contract'.paidUntil, contract'.paidUntil + Period}
        /\ \A x \in Unheard({"checkout", "paid"})' : x.end = contract'.paidUntil
        /\ \A x, y \in Unheard(Bills)' : x.end = y.end
    BY <1>1, <1>2 DEF BillsInv
  <1> QED
    BY <1>1, <1>2, <1>5, <1>6 DEF BillsInv

-----------------------------------------------------------------------------
(***************************************************************************)
(* What is written to the row.                                             *)
(***************************************************************************)

\* A checkout opens the row, once.
LEMMA CheckoutWrites ==
    ASSUME TypeOK, BillsInv, KnownInv, NEW e \in issued, Hear(e), HearCheckout(e)
    PROVE  /\ ~Known /\ row' \in Row /\ row'.status = "ACTIVE" /\ row'.periodEnd = now + Period
           /\ row'.starts = now /\ row'.ends = now + Period /\ ~row'.revoked
           /\ since' = since /\ handling' = {} /\ Unheard({"checkout"})' = {}
  <1>1. e \in Unheard({"checkout"})
    BY DEF Hear, HearCheckout, Unheard
  <1>2. ~Known /\ handling = {} /\ ~row.revoked /\ row \in Row
    BY <1>1 DEF KnownInv, TypeOK
  <1>3. PICK end \in Nat : end = now + Period
    BY TimesTyped
  <1>4. row' = [row EXCEPT !.status = "ACTIVE", !.periodEnd = end, !.starts = now, !.ends = end]
    BY <1>3 DEF HearCheckout
  <1>5. CheckedOut(row', row, now, end)
    BY <1>2, <1>4, TimesTyped, CheckoutRow
  <1>6. Unheard({"checkout"})' = {}
    BY <1>1 DEF Hear, HearCheckout, Unheard, BillsInv
  <1> QED
    BY <1>2, <1>3, <1>5, <1>6 DEF Hear, HearCheckout, CheckedOut

\* A payment of the recurring amount serves its period, and no failure of its
\* invoice is being handled.
LEMMA PaidWrites ==
    ASSUME TypeOK, FullPeriods, BillsInv, NEW e \in issued, Hear(e), HearPaid(e), ~e.flag
    PROVE  /\ Known /\ row' \in Row /\ row'.status = "ACTIVE" /\ row'.periodEnd = e.end
           /\ row'.grace = 0 /\ row'.starts = e.end - Period /\ row'.ends = e.end /\ ~row'.revoked
           /\ since' = 0 /\ handling' = handling /\ e.end = contract.paidUntil
           /\ \A h \in handling : h.event.type # "failed"
  <1>1. e \in Unheard({"checkout", "paid"}) /\ e \in Unheard(Bills)
    BY DEF Hear, HearPaid, Unheard, Bills
  <1>2. e.end = contract.paidUntil /\ e.end \in Nat /\ e.end >= Period /\ row \in Row
    BY <1>1, TimesTyped DEF BillsInv, FullPeriods, TypeOK
  <1>3. PICK t \in Nat : t = e.end - Period
    BY <1>2, TimesTyped
  <1>4. row' = [row EXCEPT !.status = "ACTIVE", !.periodEnd = e.end, !.grace = 0,
                           !.version = row.version + 1, !.starts = t, !.ends = e.end,
                           !.revoked = FALSE]
    BY <1>3 DEF HearPaid
  <1>5. PaidFor(row', t, e.end)
    BY <1>2, <1>4, PaidRow
  <1>6. ASSUME NEW h \in handling, h.event.type = "failed" PROVE FALSE
    <2>1. h.event \in Unheard(Bills)
      BY <1>6, HandlerTyped DEF Unheard, Bills
    <2>2. h.event.end = e.end
      BY <1>1, <2>1 DEF BillsInv
    <2> QED
      BY <1>6, <2>2 DEF Hear, HearPaid, LocksFree, Invoices
  <1> QED
    BY <1>2, <1>3, <1>5, <1>6 DEF Hear, HearPaid, PaidFor

\* A payment of another amount, which is the first, leaves the row alone.
LEMMA OtherAmountWrites ==
    ASSUME NEW e \in issued, Hear(e), HearPaid(e), e.flag
    PROVE  Known /\ row' = row /\ since' = since /\ handling' = handling
  BY DEF Hear, HearPaid

\* Steps that leave the row, but for the flag, alone.
RowKept ==
    /\ SameButFlag(row', row) /\ since' = since /\ (crossed' <=> crossed)
    /\ \A h \in handling' :
          \/ h \in handling
          \/ h.row = row /\ Known /\ h.event.type \in {"failed", "updated", "deleted"}

LEMMA StepIs ==
    ASSUME TypeOK, [Next]_vars
    PROVE  \/ \E e \in issued : Hear(e)
           \/ \E h \in handling : /\ CommitHearing(h)
                                  /\ HearFailed(h.event, h.row) \/ HearDeleted(h.event, h.row)
           \/ RowKept
  <1>0. SameButFlag(row, row)
    BY DEF TypeOK, SameButFlag
  <1>1. CASE \/ Bill \/ EndContract \/ Tick \/ UNCHANGED vars
             \/ \E q \in Request : (\E want \in BOOLEAN : BeginChange(q, want)) \/ GiveUp(q)
    BY <1>0, <1>1 DEF Bill, EndContract, Tick, vars, history, BeginChange, GiveUp, RowKept
  <1>2. ASSUME NEW q \in Request, CallProvider(q) PROVE RowKept
    BY <1>0, <1>2 DEF CallProvider, history, RowKept
  <1>3. ASSUME NEW q \in Request, CommitChange(q) PROVE RowKept
    BY <1>3, CommittedWrites DEF CommitChange, RowKept
  <1>4. ASSUME NEW e \in issued, BeginHearing(e) PROVE RowKept
    <2>1. PICK new : new = [event |-> e, row |-> row]
      OBVIOUS
    <2>2. new.row = row /\ Known /\ new.event.type \in {"failed", "updated", "deleted"}
      BY <1>4, <2>1 DEF BeginHearing
    <2>3. handling' = handling \cup {new} /\ UNCHANGED <<row, history>>
      BY <1>4, <2>1 DEF BeginHearing
    <2> QED
      BY <1>0, <2>2, <2>3 DEF RowKept, history
  <1>5. ASSUME NEW h \in handling, Rollback(h) PROVE RowKept
    BY <1>0, <1>5 DEF Rollback, history, RowKept
  <1>6. ASSUME NEW h \in handling, CommitHearing(h), HearUpdated(h.event, h.row) PROVE RowKept
    BY <1>6, HandlerTyped, UpdatedWrites DEF CommitHearing, HearUpdated, RowKept
  <1>7. ASSUME NEW h \in handling, CommitHearing(h)
        PROVE  \/ HearFailed(h.event, h.row) \/ HearUpdated(h.event, h.row)
               \/ HearDeleted(h.event, h.row)
    BY <1>7 DEF CommitHearing
  <1> QED
    BY <1>1, <1>2, <1>3, <1>4, <1>5, <1>6, <1>7 DEF Next

\* A checkout that is heard stays heard.
LEMMA CheckoutStaysHeard ==
    ASSUME TypeOK, [Next]_vars
    PROVE  Unheard({"checkout"})' \subseteq Unheard({"checkout"})
  <1>1. CASE Bill
    BY <1>1, BillIs, OneMoreUnheard DEF Billed
  <1>2. CASE EndContract
    BY <1>2, EndIs, OneMoreUnheard
  <1>3. CASE ~Bill /\ ~EndContract
    BY <1>3, OthersSendNoBill, LessUnheard DEF Bills
  <1> QED
    BY <1>1, <1>2, <1>3

LEMMA KnownKept ==
    ASSUME TypeOK, FullPeriods, BillsInv, KnownInv, [Next]_vars
    PROVE  KnownInv'
  <1>1. ASSUME NEW e \in issued, Hear(e), HearCheckout(e) PROVE KnownInv'
    <2>1. now + Period > 0
      BY TimesTyped
    <2> QED
      BY <1>1, <2>1, CheckoutWrites DEF KnownInv, Known
  <1>2. ASSUME NEW e \in issued, Hear(e), HearPaid(e), ~e.flag PROVE KnownInv'
    <2>1. e.end > 0
      BY <1>2, TimesTyped, PaidWrites DEF FullPeriods
    <2> QED
      BY <1>2, <2>1, PaidWrites, CheckoutStaysHeard DEF KnownInv, Known
  <1>3. ASSUME NEW e \in issued, Hear(e), HearPaid(e), e.flag PROVE KnownInv'
    BY <1>3, OtherAmountWrites, CheckoutStaysHeard DEF KnownInv, Known
  <1>4. ASSUME NEW h \in handling, CommitHearing(h), HearFailed(h.event, h.row) PROVE KnownInv'
    <2>1. Known
      BY DEF KnownInv
    <2>2. row'.status # "NONE" /\ row'.periodEnd = row.periodEnd
      BY <1>4, <2>1, HandlerTyped, FailedWrites DEF FailedTo, HearFailed, Known
    <2> QED
      BY <1>4, <2>1, <2>2, CheckoutStaysHeard DEF KnownInv, Known, CommitHearing
  <1>5. ASSUME NEW h \in handling, CommitHearing(h), HearDeleted(h.event, h.row) PROVE KnownInv'
    <2>1. Known
      BY DEF KnownInv
    <2>2. row'.status # "NONE" /\ row'.periodEnd = row.periodEnd
      BY <1>5, <2>1, HandlerTyped, DeletedWrites DEF Known, Ended
    <2> QED
      BY <1>5, <2>1, <2>2, CheckoutStaysHeard DEF KnownInv, Known, CommitHearing
  <1>6. CASE RowKept
    BY <1>6, CheckoutStaysHeard DEF RowKept, SameButFlag, KnownInv, Known
  <1> QED
    BY <1>1, <1>2, <1>3, <1>4, <1>5, <1>6, StepIs DEF Hear

LEMMA SeparateKept == SeparateInv /\ [Next]_vars => SeparateInv'
  <1>1. SUFFICES ASSUME SeparateInv, [Next]_vars PROVE SeparateInv'
    OBVIOUS
  <1>2. CASE handling' \subseteq handling
    BY <1>1, <1>2 DEF SeparateInv
  <1>3. ASSUME NEW e \in issued, BeginHearing(e) PROVE SeparateInv'
    <2>1. PICK new : new = [event |-> e, row |-> row]
      OBVIOUS
    <2>2. new.event = e /\ handling' = handling \cup {new}
      BY <1>3, <2>1 DEF BeginHearing
    <2>3. ASSUME NEW h \in handling, h.event.type = "failed", e.type = "failed" PROVE h.event.end # e.end
      BY <1>3, <2>3 DEF BeginHearing, LocksFree, Invoices
    <2> QED
      BY <1>1, <2>2, <2>3 DEF SeparateInv
  <1>4. handling' \subseteq handling \/ \E e \in issued : BeginHearing(e)
    BY <1>1 DEF Next, vars, Bill, EndContract, Hear, CommitHearing, Rollback, BeginChange,
                CallProvider, CommitChange, GiveUp, Tick
  <1> QED
    BY <1>2, <1>3, <1>4

\* What the proofs below rest on.
HeardInv == TypeOK /\ FullPeriods /\ BillsInv /\ KnownInv /\ SeparateInv

LEMMA HeardInvKept == HeardInv /\ [Next]_vars => HeardInv'
  <1>1. SUFFICES ASSUME TypeOK, FullPeriods, BillsInv, KnownInv, SeparateInv, [Next]_vars
               PROVE  HeardInv'
    BY DEF HeardInv
  <1>2. BillsInv'
    BY <1>1, BilledKept, EndedKept, OthersSendNoBill, BillsKept
  <1> QED
    BY <1>1, <1>2, TypePreserved, KnownKept, SeparateKept DEF HeardInv

LEMMA HeardInvInit == Init => HeardInv
  <1>1. SUFFICES ASSUME Init PROVE HeardInv
    OBVIOUS
  <1>2. TypeOK /\ FullPeriods
    BY <1>1, InitTyped
  <1>3. PICK discounted \in BOOLEAN :
            issued = {[type |-> "checkout", number |-> 1, end |-> Period, flag |-> FALSE],
                      [type |-> "paid", number |-> 1, end |-> Period, flag |-> discounted]}
    BY <1>1 DEF Init, Initial
  <1>4. PICK first : first = [type |-> "checkout", number |-> 1, end |-> Period, flag |-> FALSE]
    OBVIOUS
  <1>5. PICK paid : paid = [type |-> "paid", number |-> 1, end |-> Period, flag |-> discounted]
    OBVIOUS
  <1>6. /\ issued = {first, paid} /\ first.type = "checkout" /\ paid.type = "paid"
        /\ first.end = Period /\ paid.end = Period
    BY <1>3, <1>4, <1>5
  <1>7. /\ contract.paidUntil = Period /\ contract.state = "RUNNING" /\ now = 0
    BY <1>1 DEF Init, Initial
  <1>8. BillsInv
    <2>1. contract.paidUntil <= now + Period
      BY <1>7, ConstantsAssumption
    <2>2. \A e \in issued : e.end = Period
      BY <1>6
    <2>3. \A types : \A e \in Unheard(types) : e.end = Period
      BY <2>2 DEF Unheard
    <2>4. \A e \in issued : e.end <= contract.paidUntil
      BY <1>7, <2>2, ConstantsAssumption
    <2> QED
      BY <1>6, <1>7, <2>1, <2>2, <2>3, <2>4 DEF BillsInv
  <1>9. KnownInv /\ SeparateInv
    BY <1>1 DEF Init, KnownInv, Known, SeparateInv
  <1> QED
    BY <1>2, <1>8, <1>9 DEF HeardInv

-----------------------------------------------------------------------------
(***************************************************************************)
(* One grace.                                                              *)
(***************************************************************************)

\* The end of the one grace a contract has from the end of its period or from
\* the first failure.
LastGrace == Later(row.periodEnd, since) + Grace

\* No access is written beyond it, nor will be by a failure being handled.
GraceInv ==
    /\ row.ends <= LastGrace
    /\ row.status = "PAST_DUE" => row.grace # 0 /\ row.grace <= LastGrace
    /\ \A h \in handling : h.event.type = "failed" =>
          /\ h.row.periodEnd = row.periodEnd
          /\ h.row.status = "PAST_DUE" => h.row.grace # 0 /\ h.row.grace <= LastGrace

\* Failures are handled one at a time: what is not heard of is one invoice.
LEMMA OneFailure ==
    ASSUME TypeOK, BillsInv, NEW h \in handling, NEW g \in handling,
           h.event.type = "failed", g.event.type = "failed"
    PROVE  h.event.end = g.event.end
  BY HandlerTyped, UnheardIs DEF BillsInv, Bills

\* A failure writes a grace that ends in time.
LEMMA FailedGrace ==
    ASSUME HeardInv, GraceInv, NEW h \in handling, CommitHearing(h), HearFailed(h.event, h.row),
           Collectable(h.row)
    PROVE  /\ row'.ends <= LastGrace' /\ row'.status = "PAST_DUE"
           /\ row'.grace # 0 /\ row'.grace <= LastGrace'
           /\ LastGrace' >= 0
  <1>1. /\ TypeOK /\ h.row \in Row /\ row \in Row /\ row.periodEnd > 0
        /\ h.row.periodEnd = row.periodEnd
        /\ h.row.status = "PAST_DUE" => h.row.grace # 0 /\ h.row.grace <= LastGrace
    BY HandlerTyped DEF HeardInv, KnownInv, GraceInv, HearFailed, TypeOK
  <1>2. /\ row'.status = "PAST_DUE" /\ row'.grace = GraceEndsAt(h.row)
        /\ row'.ends = AccessEndsAt(h.row) /\ row'.periodEnd = row.periodEnd
    BY <1>1, FailedWrites DEF FailedTo
  <1>3. since' = IF h.row.status = "PAST_DUE" THEN since ELSE now
    BY DEF HearFailed
  <1>4. PICK pe \in Nat, s \in Nat, n \in Nat :
            /\ pe = row.periodEnd /\ s = since /\ n = now /\ pe > 0
    BY <1>1, TimesTyped DEF Row
  <1>5. h.row.grace \in Nat /\ Grace \in Nat
    BY <1>1, TimesTyped DEF Row
  <1>6. CASE h.row.status = "PAST_DUE"
    <2>1. GraceEndsAt(h.row) = h.row.grace /\ LastGrace' = Later(pe, s) + Grace
      BY <1>1, <1>2, <1>3, <1>4, <1>6 DEF GraceEndsAt, LastGrace
    <2>2. h.row.grace # 0 /\ h.row.grace <= Later(pe, s) + Grace
      BY <1>1, <1>4, <1>6 DEF LastGrace
    <2>3. AccessEndsAt(h.row) = Later(pe, h.row.grace)
      BY <1>1, <1>4, <2>1 DEF AccessEndsAt
    <2>4. Later(pe, h.row.grace) <= Later(pe, s) + Grace /\ Later(pe, s) \in Nat
      BY <1>4, <1>5, <2>2 DEF Later
    <2> QED
      BY <1>2, <1>5, <2>1, <2>2, <2>3, <2>4
  <1>7. CASE h.row.status # "PAST_DUE"
    <2>1. GraceEndsAt(h.row) = Later(n, pe) + Grace /\ LastGrace' = Later(pe, n) + Grace
      BY <1>1, <1>2, <1>3, <1>4, <1>7 DEF GraceEndsAt, LastGrace
    <2>2. AccessEndsAt(h.row) = Later(pe, Later(n, pe) + Grace)
      BY <1>1, <1>4, <2>1 DEF AccessEndsAt
    <2>3. /\ Later(pe, Later(n, pe) + Grace) <= Later(pe, n) + Grace
          /\ Later(n, pe) + Grace # 0 /\ Later(n, pe) + Grace <= Later(pe, n) + Grace
          /\ Later(pe, n) + Grace >= 0
      BY <1>4, <1>5 DEF Later
    <2> QED
      BY <1>2, <2>1, <2>2, <2>3
  <1> QED
    BY <1>6, <1>7

LEMMA GraceKept == HeardInv /\ GraceInv /\ [Next]_vars => GraceInv'
  <1>1. SUFFICES ASSUME HeardInv, GraceInv, [Next]_vars PROVE GraceInv'
    OBVIOUS
  <1>2. TypeOK /\ FullPeriods /\ BillsInv /\ KnownInv /\ SeparateInv
    BY <1>1 DEF HeardInv
  <1>3. /\ now \in Nat /\ Period \in Nat /\ Grace \in Nat /\ since \in Nat
        /\ now + Period \in Nat
    BY <1>2, TimesTyped
  <1>4. ASSUME NEW e \in issued, Hear(e), HearCheckout(e) PROVE GraceInv'
    <2>1. /\ row'.ends = now + Period /\ row'.periodEnd = now + Period
          /\ row'.status = "ACTIVE" /\ since' = since /\ handling' = {}
      BY <1>2, <1>4, CheckoutWrites
    <2>2. now + Period <= Later(now + Period, since) + Grace
      BY <1>3 DEF Later
    <2> QED
      BY <2>1, <2>2 DEF GraceInv, LastGrace
  <1>5. ASSUME NEW e \in issued, Hear(e), HearPaid(e), ~e.flag PROVE GraceInv'
    <2>1. /\ row'.ends = e.end /\ row'.periodEnd = e.end /\ row'.status = "ACTIVE" /\ since' = 0
          /\ handling' = handling /\ \A h \in handling : h.event.type # "failed"
      BY <1>2, <1>5, PaidWrites
    <2>2. e.end \in Nat
      BY <1>2 DEF TypeOK, EventRow
    <2>3. e.end <= Later(e.end, 0) + Grace
      BY <1>3, <2>2 DEF Later
    <2> QED
      BY <2>1, <2>3 DEF GraceInv, LastGrace
  <1>6. ASSUME NEW e \in issued, Hear(e), HearPaid(e), e.flag PROVE GraceInv'
    BY <1>1, <1>6, OtherAmountWrites DEF GraceInv, LastGrace
  <1>7. ASSUME NEW h \in handling, CommitHearing(h), HearFailed(h.event, h.row) PROVE GraceInv'
    <2>1. CASE Collectable(h.row)
      <3>1. \A g \in handling' : g.event.type # "failed"
        <4>1. SUFFICES ASSUME NEW g \in handling', g.event.type = "failed" PROVE FALSE
          OBVIOUS
        <4>2. g \in handling /\ g # h
          BY <1>7 DEF CommitHearing
        <4>3. g.event.end = h.event.end
          BY <1>2, <1>7, <4>1, <4>2, OneFailure DEF HearFailed
        <4> QED
          BY <1>2, <1>7, <4>1, <4>2, <4>3 DEF SeparateInv, HearFailed
      <3> QED
        BY <1>1, <1>7, <2>1, <3>1, FailedGrace DEF GraceInv
    <2>2. CASE ~Collectable(h.row)
      BY <1>1, <1>7, <2>2 DEF HearFailed, CommitHearing, GraceInv, LastGrace
    <2> QED
      BY <2>1, <2>2
  <1>8. ASSUME NEW h \in handling, CommitHearing(h), HearDeleted(h.event, h.row) PROVE GraceInv'
    <2>1. /\ row'.periodEnd = row.periodEnd /\ row'.ends = row.ends /\ since' = since
          /\ row' = row \/ row'.status = Ended
      BY <1>2, <1>8, HandlerTyped, DeletedWrites DEF HearDeleted
    <2> QED
      BY <1>1, <1>8, <2>1 DEF GraceInv, LastGrace, CommitHearing, Ended
  <1>9. CASE RowKept
    <2>1. LastGrace' = LastGrace
      BY <1>9 DEF RowKept, SameButFlag, LastGrace
    <2> QED
      BY <1>1, <1>9, <2>1 DEF RowKept, SameButFlag, GraceInv
  <1> QED
    BY <1>1, <1>2, <1>4, <1>5, <1>6, <1>7, <1>8, <1>9, StepIs DEF Hear

LEMMA GraceInvAlways == Spec => [](HeardInv /\ GraceInv)
  <1>1. Init => GraceInv
    <2>1. ASSUME Init PROVE /\ row.ends = 0 /\ row.periodEnd = 0 /\ since = 0
                            /\ row.status = "NONE" /\ handling = {}
      BY <2>1 DEF Init
    <2> QED
      BY <2>1, ConstantsAssumption DEF GraceInv, LastGrace, Later
  <1> QED
    BY <1>1, HeardInvInit, HeardInvKept, GraceKept, PTL DEF Spec

\* However often and late an unpaid contract is told of failures, it is served
\* for one grace only.  What is not heard is about one invoice, so failures are
\* handled one after another, and each keeps the end the first one wrote.
THEOREM GraceOnceCorrect == Spec => []GraceOnce
  <1>1. HeardInv /\ GraceInv => GraceOnce
    <2>1. SUFFICES ASSUME HeardInv, GraceInv, HasAccess PROVE now < LastGrace
      BY DEF GraceOnce, LastGrace
    <2>2. /\ row.ends \in Nat /\ now \in Nat /\ row.periodEnd \in Nat /\ since \in Nat
          /\ Grace \in Nat
      BY <2>1, TimesTyped DEF HeardInv, TypeOK, Row
    <2>3. LastGrace \in Nat
      <3>1. Later(row.periodEnd, since) \in Nat
        BY <2>2, LaterIs
      <3> QED
        BY <2>2, <3>1 DEF LastGrace
    <2> QED
      BY <2>1, <2>2, <2>3 DEF HasAccess, GraceInv
  <1> QED
    BY <1>1, GraceInvAlways, PTL

-----------------------------------------------------------------------------
(***************************************************************************)
(* Paid is served.                                                         *)
(***************************************************************************)

\* The row of a contract that runs has started, and covers the paid period as
\* soon as its payment is heard; the first one is covered by the checkout.
ServedInv ==
    contract.state = "RUNNING" /\ Known =>
        /\ row.starts <= now
        /\ Unheard({"paid"}) = {} \/ contract.paidUntil = Period =>
              /\ row.ends >= contract.paidUntil /\ row.periodEnd >= contract.paidUntil
              /\ row.revoked => now >= contract.paidUntil

\* What there is to serve: nothing more, unless a payment is to be heard of.
NothingToServe ==
    contract'.state = "RUNNING" =>
        /\ contract.state = "RUNNING"
        /\ \/ /\ contract'.paidUntil = contract.paidUntil
              /\ Unheard({"paid"})' = {} => Unheard({"paid"}) = {}
           \/ Unheard({"paid"})' # {} /\ contract'.paidUntil # Period

LEMMA OthersServe ==
    ASSUME HeardInv, [Next]_vars, \A e \in issued : ~Hear(e)
    PROVE  NothingToServe /\ now' \in Nat /\ now' >= now
  <1>1. TypeOK /\ FullPeriods /\ BillsInv /\ received \subseteq issued
    BY DEF HeardInv, TypeOK
  <1>2. /\ contract.paidUntil \in Nat /\ contract.paidUntil >= Period /\ Period > 0 /\ now \in Nat
    BY <1>1, TimesTyped DEF FullPeriods
  <1>3. CASE Bill
    <2>1. PICK e \in EventRow, end \in Nat : Billed(e, end)
      BY <1>1, <1>3, BillIs
    <2>2. CASE e.type = "paid"
      <3>1. e \notin issued
        <4>1. e.end = contract.paidUntil + Period /\ end \in Nat
          BY <2>1 DEF Billed
        <4>2. ~(e.end <= contract.paidUntil)
          BY <1>2, <4>1, ConstantsAssumption
        <4> QED
          BY <1>1, <2>2, <4>2 DEF BillsInv
      <3>2. e \in Unheard({"paid"})' /\ contract'.paidUntil # Period
        BY <1>1, <1>2, <2>1, <2>2, <3>1, UnheardWillBe DEF Billed
      <3> QED
        BY <1>2, <2>1, <3>2 DEF Billed, NothingToServe
    <2>3. CASE e.type = "failed"
      <3>1. Unheard({"paid"}) \subseteq Unheard({"paid"})'
        BY <2>1 DEF Billed, Unheard
      <3> QED
        BY <1>2, <2>1, <2>3, <3>1 DEF Billed, NothingToServe
    <2> QED
      BY <2>1, <2>2, <2>3 DEF Billed
  <1>4. CASE EndContract
    BY <1>1, <1>2, <1>4, EndIs DEF NothingToServe
  <1>5. CASE ~Bill /\ ~EndContract
    <2>1. NoNewBill
      BY <1>1, <1>5, OthersSendNoBill
    <2>2. \A e \in received' : e \in received \/ e.type \in {"failed", "updated", "deleted"}
      <3>1. ASSUME NEW h \in handling, CommitHearing(h)
            PROVE  \A e \in received' : e \in received \/ e.type \in {"failed", "updated", "deleted"}
        BY <3>1 DEF CommitHearing, HearFailed, HearUpdated, HearDeleted
      <3>2. CASE UNCHANGED received
        BY <3>2
      <3> QED
        BY <1>5, <3>1, <3>2 DEF Next, vars, BeginHearing, Rollback, BeginChange, CallProvider,
                                CommitChange, GiveUp, Tick
    <2>3. issued \subseteq issued'
      BY <2>1 DEF NoNewBill
    <2>4. Unheard({"paid"}) \subseteq Unheard({"paid"})'
      BY <2>2, <2>3 DEF Unheard
    <2> QED
      BY <2>1, <2>4 DEF NoNewBill, NothingToServe
  <1> QED
    BY <1>3, <1>4, <1>5

LEMMA ServedKept == HeardInv /\ GraceInv /\ ServedInv /\ [Next]_vars => ServedInv'
  <1>1. SUFFICES ASSUME HeardInv, GraceInv, ServedInv, [Next]_vars,
                        contract'.state = "RUNNING", Known'
                 PROVE  /\ row'.starts <= now'
                        /\ Unheard({"paid"})' = {} \/ contract'.paidUntil = Period =>
                              /\ row'.ends >= contract'.paidUntil
                              /\ row'.periodEnd >= contract'.paidUntil
                              /\ row'.revoked => now' >= contract'.paidUntil
    BY DEF ServedInv
  <1>2. TypeOK /\ FullPeriods /\ BillsInv /\ KnownInv /\ row \in Row
    BY <1>1 DEF HeardInv, TypeOK
  <1>3. /\ now \in Nat /\ Period \in Nat /\ contract.paidUntil \in Nat
        /\ contract.paidUntil <= now + Period /\ contract.paidUntil >= Period
        /\ row.starts \in Nat /\ row.ends \in Nat /\ row.periodEnd \in Nat
    BY <1>2, TimesTyped DEF BillsInv, FullPeriods, Row
  <1>4. ASSUME NEW e \in issued, Hear(e), HearCheckout(e)
        PROVE  row'.starts <= now' /\ row'.ends >= contract'.paidUntil
               /\ row'.periodEnd >= contract'.paidUntil /\ ~row'.revoked
    BY <1>2, <1>3, <1>4, CheckoutWrites DEF Hear
  <1>5. ASSUME NEW e \in issued, Hear(e), HearPaid(e), ~e.flag
        PROVE  row'.starts <= now' /\ row'.ends >= contract'.paidUntil
               /\ row'.periodEnd >= contract'.paidUntil /\ ~row'.revoked
    BY <1>2, <1>3, <1>5, PaidWrites DEF Hear
  <1>6. CASE \E e \in issued : Hear(e) /\ HearPaid(e) /\ e.flag
    <2>1. PICK e \in issued : Hear(e) /\ HearPaid(e) /\ e.flag
      BY <1>6
    <2>2. e.end = contract.paidUntil /\ e.end = Period
      BY <1>2, <2>1, UnheardIs DEF Hear, HearPaid, BillsInv
    <2>3. Known /\ row' = row /\ contract' = contract /\ now' = now
      BY <2>1, OtherAmountWrites DEF Hear
    <2> QED
      BY <1>1, <2>2, <2>3 DEF ServedInv
  <1>7. CASE \A e \in issued : ~Hear(e)
    <2>1. /\ contract.state = "RUNNING" /\ now' \in Nat /\ now' >= now
          /\ \/ /\ contract'.paidUntil = contract.paidUntil
                /\ Unheard({"paid"})' = {} => Unheard({"paid"}) = {}
             \/ Unheard({"paid"})' # {} /\ contract'.paidUntil # Period
      BY <1>1, <1>7, OthersServe DEF NothingToServe
    <2>2. CASE RowKept
      <3>1. Known
        BY <1>1, <2>2 DEF RowKept, SameButFlag, Known
      <3>2. /\ row'.starts = row.starts /\ row'.ends = row.ends /\ row'.periodEnd = row.periodEnd
            /\ row'.revoked <=> row.revoked
        BY <2>2 DEF RowKept, SameButFlag
      <3> QED
        BY <1>1, <1>3, <2>1, <3>1, <3>2 DEF ServedInv
    <2>3. ASSUME NEW h \in handling, CommitHearing(h), HearFailed(h.event, h.row), Collectable(h.row)
          PROVE  /\ row'.starts = row.starts /\ row'.periodEnd = row.periodEnd
                 /\ row'.ends \in Nat /\ row'.ends >= row.periodEnd
                 /\ row'.revoked <=> row'.ends <= now
                 /\ now' = now
      <3>1. h.row \in Row /\ h.row.periodEnd = row.periodEnd
        BY <1>1, <1>2, <2>3, HandlerTyped DEF GraceInv, HearFailed
      <3>2. FailedTo(row', row, GraceEndsAt(h.row), AccessEndsAt(h.row), AccessEndsAt(h.row) <= now)
        BY <1>2, <2>3, <3>1, FailedWrites
      <3>3. AccessEndsAt(h.row) \in Nat /\ AccessEndsAt(h.row) >= row.periodEnd
        BY <1>2, <3>1, GraceTyped
      <3> QED
        BY <2>3, <3>2, <3>3 DEF FailedTo, CommitHearing
    <2>4. ASSUME NEW h \in handling, CommitHearing(h), HearFailed(h.event, h.row), ~Collectable(h.row)
          PROVE  row' = row /\ now' = now
      BY <2>4 DEF HearFailed, CommitHearing
    <2>5. ASSUME NEW h \in handling, CommitHearing(h), HearDeleted(h.event, h.row) PROVE FALSE
      BY <1>2, <2>1, <2>5, HandlerTyped DEF HearDeleted, BillsInv
    <2>6. CASE \E h \in handling : /\ CommitHearing(h)
                                   /\ HearFailed(h.event, h.row) \/ HearDeleted(h.event, h.row)
      <3>1. Known
        BY <1>2, <2>6 DEF KnownInv
      <3>2. \/ row' = row
            \/ /\ row'.starts = row.starts /\ row'.periodEnd = row.periodEnd
               /\ row'.ends \in Nat /\ row'.ends >= row.periodEnd
               /\ row'.revoked <=> row'.ends <= now
        BY <2>3, <2>4, <2>5, <2>6
      <3>3. now' = now
        BY <2>6 DEF CommitHearing
      <3> QED
        BY <1>1, <1>3, <2>1, <3>1, <3>2, <3>3 DEF ServedInv
    <2> QED
      BY <1>1, <1>2, <1>7, <2>2, <2>6, StepIs
  <1> QED
    BY <1>1, <1>2, <1>4, <1>5, <1>6, <1>7 DEF Hear

\* What is paid and heard is served, whatever is heard after it.
THEOREM PaidIsServedCorrect == Spec => []PaidIsServed
  <1>1. Init => ServedInv
    BY DEF Init, ServedInv, Known
  <1>2. HeardInv /\ GraceInv /\ ServedInv => PaidIsServed
    <2>1. SUFFICES ASSUME HeardInv, ServedInv, contract.state = "RUNNING", Known,
                          Unheard({"paid"}) = {}, now < contract.paidUntil
                   PROVE  HasAccess
      BY DEF PaidIsServed, Known
    <2>2. now \in Nat /\ contract.paidUntil \in Nat /\ row.ends \in Nat
      BY <2>1, TimesTyped DEF HeardInv, TypeOK, Row
    <2> QED
      BY <2>1, <2>2 DEF ServedInv, HasAccess, Known
  <1>3. Spec => []ServedInv
    BY <1>1, GraceInvAlways, ServedKept, PTL DEF Spec
  <1> QED
    BY <1>2, <1>3, GraceInvAlways, PTL

-----------------------------------------------------------------------------
(***************************************************************************)
(* The end is the end.                                                     *)
(***************************************************************************)

\* An end that is heard revokes the row of a deleted contract, and no failure
\* being handled saw it open, unless it crossed one.
EndedInv ==
    row.status = Ended /\ ~crossed =>
        /\ row.revoked /\ contract.state = "DELETED"
        /\ \A h \in handling : h.event.type = "failed" => h.row.status = Ended

\* A contract that is deleted stays so.
LEMMA DeletedStays ==
    ASSUME TypeOK, [Next]_vars, contract.state = "DELETED"
    PROVE  contract'.state = "DELETED"
  <1>1. ~Bill /\ ~EndContract
    BY DEF Bill, EndContract
  <1> QED
    BY <1>1, OthersSendNoBill DEF NoNewBill

\* What a step makes of an ended contract.
EndedStaysOrPaid ==
    row.status = Ended /\ ~crossed => (row'.status = Ended /\ row'.revoked) \/ PaymentHeard

LEMMA EndedStep ==
    ASSUME HeardInv, EndedInv, [Next]_vars
    PROVE  /\ EndedInv'
           /\ EndedStaysOrPaid
  <1>1. TypeOK /\ FullPeriods /\ BillsInv /\ KnownInv
    BY DEF HeardInv
  <1>2. ASSUME NEW e \in issued, Hear(e)
        PROVE  /\ row.status = Ended => row' = row \/ PaymentHeard
               /\ \/ row' = row /\ handling' = handling /\ (crossed' <=> crossed)
                  \/ row'.status # Ended
    <2>1. CASE HearCheckout(e)
      BY <1>1, <1>2, <2>1, CheckoutWrites DEF Known, Ended
    <2>2. CASE HearPaid(e) /\ e.flag
      BY <1>2, <2>2, OtherAmountWrites DEF Hear
    <2>3. CASE HearPaid(e) /\ ~e.flag
      <3>1. row'.status = "ACTIVE"
        BY <1>1, <1>2, <2>3, PaidWrites
      <3>2. PaymentHeard
        BY <1>2, <2>3 DEF Hear, HearPaid, PaymentHeard
      <3> QED
        BY <3>1, <3>2 DEF Ended
    <2> QED
      BY <1>2, <2>1, <2>2, <2>3 DEF Hear
  <1>3. CASE \E e \in issued : Hear(e)
    BY <1>1, <1>2, <1>3, DeletedStays DEF EndedInv, EndedStaysOrPaid
  <1>4. CASE RowKept
    BY <1>1, <1>4, DeletedStays DEF RowKept, SameButFlag, EndedInv, EndedStaysOrPaid
  <1>5. ASSUME NEW h \in handling, CommitHearing(h), HearFailed(h.event, h.row)
        PROVE  /\ EndedInv'
               /\ EndedStaysOrPaid
    <2>1. CASE Collectable(h.row)
      <3>1. row'.status = "PAST_DUE"
        BY <1>1, <1>5, <2>1, HandlerTyped, FailedWrites DEF FailedTo
      <3>2. ~(row.status = Ended /\ ~crossed)
        BY <1>5, <2>1 DEF EndedInv, HearFailed, Collectable
      <3> QED
        BY <3>1, <3>2 DEF EndedInv, Ended, EndedStaysOrPaid
    <2>2. CASE ~Collectable(h.row)
      BY <1>1, <1>5, <2>2, DeletedStays DEF HearFailed, CommitHearing, EndedInv, EndedStaysOrPaid
    <2> QED
      BY <2>1, <2>2
  <1>6. ASSUME NEW h \in handling, CommitHearing(h), HearDeleted(h.event, h.row)
        PROVE  /\ EndedInv'
               /\ EndedStaysOrPaid
    <2>1. contract.state = "DELETED"
      BY <1>1, <1>6, HandlerTyped DEF HearDeleted, BillsInv
    <2>2. ~crossed' => ~crossed /\ \A g \in handling' : g.event.type # "failed"
      BY <1>6 DEF HearDeleted, CommitHearing
    <2>3. row' = row \/ (row'.status = Ended /\ row'.revoked)
      <3>1. h.row \in Row
        BY <1>1, HandlerTyped
      <3> QED
        BY <1>1, <1>6, <3>1, DeletedWrites
    <2> QED
      BY <1>1, <2>1, <2>2, <2>3, DeletedStays DEF EndedInv, EndedStaysOrPaid
  <1> QED
    BY <1>1, <1>3, <1>4, <1>5, <1>6, StepIs

\* Once no failure was being handled when the end was written, nothing but a
\* payment opens the contract again or gives its access back.
THEOREM OnlyPaymentsReopenUncrossedCorrect == Spec => OnlyPaymentsReopenUncrossed
  <1>1. Init => EndedInv
    BY DEF Init, EndedInv, Ended
  <1>2. HeardInv /\ EndedInv /\ [Next]_vars => EndedInv' /\ [EndedStaysOrPaid]_vars
    BY EndedStep
  <1> QED
    BY <1>1, <1>2, HeardInvInit, HeardInvKept, PTL
       DEF Spec, OnlyPaymentsReopenUncrossed, EndedStaysOrPaid

-----------------------------------------------------------------------------
(***************************************************************************)
(* The flag agrees.                                                        *)
(***************************************************************************)

Updates == {e \in issued : e.type = "updated"}

\* An event of the flag after which the provider sent no other.
Latest(e) == e \in Updates /\ \A f \in Updates : f.number <= e.number

\* The latest event says what the provider's flag is.
NumbersInv ==
    \A e \in Updates : e.number <= Cardinality(Updates) /\ (Latest(e) => e.flag = contract.flag)

\* A key of the row as it is now belongs to a change that is not undone: the
\* row's version moves on whenever its flag is taken back.
KeysInv ==
    /\ \A k \in contract.keys : k[2] <= row.version
    /\ \A q \in Request : request[q].version <= row.version
    /\ <<FALSE, row.version>> \in contract.keys => row.flag /\ ~contract.flag
    /\ <<TRUE, row.version>> \in contract.keys => row.flag \/ contract.flag

\* A change about to be called for meets a key it has used only if the provider
\* still has the flag so; once called for, the provider has.
CalledInv ==
    \A q \in Request :
        /\ request[q].op = "calling" =>
              /\ \A k \in contract.keys : k[2] <= request[q].version
              /\ request[q].version = row.version => row.flag # request[q].want
              /\ Key(q) \in contract.keys => contract.flag = request[q].want
        /\ request[q].op = "committing" /\ request[q].called => contract.flag = request[q].want

\* The row has the provider's flag when nothing is to be heard of it, and the
\* handler of the latest event does not take it for granted wrongly.
AgreesInv ==
    contract.state = "RUNNING" /\ ~disordered /\ ~skipped /\ ~overlapped =>
        /\ Unheard({"updated"}) = {} => row.flag = contract.flag
        /\ \A h \in handling :
              Latest(h.event) /\ h.row.flag = contract.flag => row.flag = contract.flag

\* Requests that do not overlap are in flight one at a time.
AloneInv == \A p, q \in Request : request[p] # Idle /\ request[q] # Idle => p = q

FlagInv == NumbersInv /\ (~overlapped => AloneInv /\ KeysInv /\ CalledInv) /\ AgreesInv

LEMMA OverlapStays ==
    ASSUME [Next]_vars, ~overlapped'
    PROVE  ~overlapped
  BY DEF Next, vars, history, Bill, EndContract, Hear, BeginHearing, CommitHearing, Rollback,
         BeginChange, CallProvider, CommitChange, GiveUp, Tick

\* How a step may leave the row: with its flag, at the same version or a later
\* one, or with any flag at a later version.
RowCalm == row'.flag = row.flag /\ row'.version \in Nat /\ row'.version >= row.version
RowBumped == row'.flag \in BOOLEAN /\ row'.version \in Nat /\ row'.version > row.version

LEMMA FlagTyped ==
    ASSUME TypeOK
    PROVE  /\ row \in Row /\ row.flag \in BOOLEAN /\ row.version \in Nat
           /\ contract \in ContractRow /\ contract.flag \in BOOLEAN
           /\ contract.keys \subseteq BOOLEAN \X Nat
           /\ \A q \in Request : request[q] \in RequestRow
           /\ \A e \in issued : e \in EventRow
  BY DEF TypeOK, Row, ContractRow, RequestRow

\* Payments and failures leave the flag as it is.
LEMMA HearCalm ==
    ASSUME TypeOK, NEW e \in issued, Hear(e)
    PROVE  RowCalm
  <1>1. row \in Row /\ row.version \in Nat
    BY FlagTyped
  <1>2. CASE HearCheckout(e)
    <2>1. PICK end : end = now + Period
      OBVIOUS
    <2>2. row' = [row EXCEPT !.status = "ACTIVE", !.periodEnd = end, !.starts = now, !.ends = end]
      BY <1>2, <2>1 DEF HearCheckout
    <2>3. row'.flag = row.flag /\ row'.version = row.version
      BY <1>1, <2>2 DEF Row
    <2> QED
      BY <1>1, <2>3 DEF RowCalm
  <1>3. CASE HearPaid(e) /\ e.flag
    BY <1>1, <1>3 DEF HearPaid, RowCalm
  <1>4. CASE HearPaid(e) /\ ~e.flag
    <2>1. PICK t : t = e.end - Period
      OBVIOUS
    <2>2. PICK v \in Nat : v = row.version + 1
      BY <1>1
    <2>3. row' = [row EXCEPT !.status = "ACTIVE", !.periodEnd = e.end, !.grace = 0,
                             !.version = v, !.starts = t, !.ends = e.end, !.revoked = FALSE]
      BY <1>4, <2>1, <2>2 DEF HearPaid
    <2>4. row' = [status |-> "ACTIVE", periodEnd |-> e.end, grace |-> 0, flag |-> row.flag,
                  version |-> v, starts |-> t, ends |-> e.end, revoked |-> FALSE]
      BY <1>1, <2>3 DEF Row
    <2>5. row'.flag = row.flag /\ row'.version = v
      BY <2>4
    <2> QED
      BY <1>1, <2>2, <2>5 DEF RowCalm
  <1> QED
    BY <1>2, <1>3, <1>4 DEF Hear

LEMMA FailedCalm ==
    ASSUME TypeOK, NEW e, NEW seen, HearFailed(e, seen)
    PROVE  RowCalm
  <1>1. row \in Row /\ row.version \in Nat
    BY FlagTyped
  <1>2. CASE Collectable(seen)
    <2>1. PICK grace, end, over :
              grace = GraceEndsAt(seen) /\ end = AccessEndsAt(seen) /\ over = (end <= now)
      OBVIOUS
    <2>2. PICK v \in Nat : v = row.version + 1
      BY <1>1
    <2>3. row' = [row EXCEPT !.status = "PAST_DUE", !.grace = grace, !.version = v, !.ends = end,
                             !.revoked = over]
      BY <1>2, <2>1, <2>2 DEF HearFailed
    <2>4. row' = [status |-> "PAST_DUE", periodEnd |-> row.periodEnd, grace |-> grace,
                  flag |-> row.flag, version |-> v, starts |-> row.starts, ends |-> end,
                  revoked |-> over]
      BY <1>1, <2>3 DEF Row
    <2>5. row'.flag = row.flag /\ row'.version = v
      BY <2>4
    <2> QED
      BY <1>1, <2>2, <2>5 DEF RowCalm
  <1>3. CASE ~Collectable(seen)
    BY <1>1, <1>3 DEF HearFailed, RowCalm
  <1> QED
    BY <1>2, <1>3

\* The end of the contract takes the flag back, in a later version.
LEMMA DeletedBumps ==
    ASSUME TypeOK, NEW e, NEW seen \in Row, HearDeleted(e, seen)
    PROVE  RowCalm \/ RowBumped
  <1>1. row \in Row /\ row.version \in Nat
    BY FlagTyped
  <1>2. CASE row' = row
    BY <1>1, <1>2 DEF RowCalm
  <1>3. CASE row' = [row EXCEPT !.status = Ended, !.flag = FALSE, !.grace = 0,
                                !.version = row.version + 1, !.revoked = TRUE]
    <2>1. row' \in Row /\ row'.version = row.version + 1
      BY <1>1, <1>3, DeletedRow
    <2> QED
      BY <1>1, <2>1 DEF RowBumped, Row
  <1> QED
    BY <1>2, <1>3 DEF HearDeleted

\* An event of the flag writes it, in a later version, unless it was read so.
LEMMA UpdatedSets ==
    ASSUME TypeOK, NEW e \in EventRow, NEW seen, HearUpdated(e, seen)
    PROVE  \/ row' = row /\ seen.flag = e.flag
           \/ RowBumped /\ row'.flag = e.flag
  <1>1. row \in Row /\ row.version \in Nat /\ e.flag \in BOOLEAN
    BY FlagTyped DEF EventRow
  <1>2. PICK v \in Nat : v = row.version + 1
    BY <1>1
  <1>3. CASE seen.flag # e.flag
    <2>1. row' = [row EXCEPT !.flag = e.flag, !.version = v]
      BY <1>2, <1>3 DEF HearUpdated
    <2>2. row'.flag = e.flag /\ row'.version = v
      BY <1>1, <2>1 DEF Row
    <2> QED
      BY <1>1, <1>2, <2>2 DEF RowBumped
  <1> QED
    BY <1>3 DEF HearUpdated

\* A request writes its wish, and a wish to go on in a later version.
LEMMA CommitSets ==
    ASSUME TypeOK, NEW q \in Request, CommitChange(q)
    PROVE  \/ row' = row
           \/ /\ row'.flag = request[q].want
              /\ RowBumped \/ (row'.flag = TRUE /\ row'.version = row.version)
  <1>1. row \in Row /\ row.version \in Nat /\ request[q].want \in BOOLEAN
    BY FlagTyped DEF RequestRow
  <1>2. PICK want \in BOOLEAN : want = request[q].want
    BY <1>1
  <1>3. PICK v \in Nat : v = IF want THEN row.version ELSE row.version + 1
    BY <1>1
  <1>4. CASE row' = [row EXCEPT !.flag = want, !.version = v]
    <2>1. row'.flag = want /\ row'.version = v
      BY <1>1, <1>4 DEF Row
    <2> QED
      BY <1>1, <1>2, <1>3, <2>1 DEF RowBumped
  <1>5. row' = row \/ row' = [row EXCEPT !.flag = want, !.version = v]
    BY <1>2, <1>3 DEF CommitChange
  <1> QED
    BY <1>4, <1>5

\* Steps that do not call the provider.
ChangesKept ==
    /\ contract'.flag = contract.flag /\ contract'.keys = contract.keys
    /\ contract'.state = "RUNNING" => contract.state = "RUNNING"
    /\ Updates' = Updates

LEMMA OthersKeepChanges ==
    ASSUME TypeOK, [Next]_vars, \A q \in Request : ~CallProvider(q)
    PROVE  ChangesKept
  <1>1. contract \in ContractRow
    BY FlagTyped
  <1>2. CASE Bill
    <2>1. PICK e \in EventRow, end \in Nat : Billed(e, end)
      BY <1>2, BillIs
    <2>2. Updates' = Updates
      BY <2>1 DEF Billed, Updates
    <2>3. contract'.flag = contract.flag /\ contract'.keys = contract.keys
      <3>1. PICK end2 : end2 = contract.paidUntil + Period
        OBVIOUS
      <3>2. contract' = contract \/ contract' = [contract EXCEPT !.paidUntil = end2]
        BY <1>2, <3>1 DEF Bill
      <3> QED
        BY <1>1, <3>2 DEF ContractRow
    <2> QED
      BY <1>2, <2>2, <2>3 DEF Bill, ChangesKept
  <1>3. CASE EndContract
    <2>1. Updates' = Updates
      BY <1>3, EndIs DEF Updates
    <2>2. contract' = [contract EXCEPT !.state = "DELETED"]
      BY <1>3 DEF EndContract
    <2> QED
      BY <1>1, <1>3, <2>1, <2>2 DEF EndContract, ContractRow, ChangesKept
  <1>4. CASE UNCHANGED <<contract, issued>>
    BY <1>4 DEF ChangesKept, Updates
  <1> QED
    BY <1>2, <1>3, <1>4 DEF Next, vars, Hear, BeginHearing, CommitHearing, Rollback, BeginChange,
                            CommitChange, GiveUp, Tick

\* A call that changes the flag.
Changes(q) == Key(q) \notin contract.keys /\ contract.flag # request[q].want

\* What a call leaves behind.
Called(q) ==
    /\ request[q].op = "calling" /\ contract.state = "RUNNING"
    /\ contract'.keys = contract.keys \cup {Key(q)}
    /\ request'[q].op = "committing" /\ request'[q].want = request[q].want
    /\ request'[q].version = request[q].version
    /\ \A p \in Request \ {q} : request'[p] = request[p]
    /\ \/ /\ ~Changes(q) /\ contract'.flag = contract.flag
          /\ Updates' = Updates /\ issued' = issued
       \/ Changes(q) /\ contract'.flag = request[q].want /\ \E e \in EventRow :
             /\ e.type = "updated" /\ e.number = Cardinality(Updates) + 1
             /\ e.flag = request[q].want
             /\ Updates' = Updates \cup {e} /\ issued' = issued \cup {e}
    /\ UNCHANGED <<received, row, handling, history>>

LEMMA CallIs ==
    ASSUME TypeOK, NEW q \in Request, CallProvider(q)
    PROVE  Called(q)
  <1>1. PICK want \in BOOLEAN : want = request[q].want
    BY FlagTyped DEF RequestRow
  <1>2. PICK keys : keys = contract.keys \cup {Key(q)}
    OBVIOUS
  <1>3. PICK flag : flag = IF Changes(q) THEN want ELSE contract.flag
    OBVIOUS
  <1>4. contract' = [contract EXCEPT !.keys = keys, !.flag = flag]
    BY <1>1, <1>2, <1>3 DEF CallProvider, Changes
  <1>5. contract'.keys = keys /\ contract'.flag = flag
    BY <1>4, FlagTyped DEF ContractRow
  <1>6. /\ request'[q].op = "committing" /\ request'[q].want = request[q].want
        /\ request'[q].version = request[q].version
        /\ \A p \in Request \ {q} : request'[p] = request[p]
    <2>1. PICK new : new = [request[q] EXCEPT !.op = "committing"]
      OBVIOUS
    <2>2. new.op = "committing" /\ new.want = request[q].want /\ new.version = request[q].version
      BY <2>1, FlagTyped DEF RequestRow
    <2>3. request' = [request EXCEPT ![q] = new] /\ request \in [Request -> RequestRow]
      BY <2>1, Parts DEF CallProvider, Does, RequestsTyped
    <2> QED
      BY <2>2, <2>3
  <1>7. CASE ~Changes(q)
    <2>1. issued' = issued
      BY <1>7 DEF CallProvider, Changes
    <2>2. Updates' = Updates
      BY <2>1 DEF Updates
    <2>3. contract'.flag = contract.flag
      BY <1>3, <1>5, <1>7
    <2> QED
      BY <1>1, <1>2, <1>5, <1>6, <1>7, <2>1, <2>2, <2>3 DEF Called, CallProvider
  <1>8. CASE Changes(q)
    <2>1. issued' = issued \cup {Event("updated", contract.paidUntil, want)}
      BY <1>1, <1>8 DEF CallProvider, Changes
    <2>2. PICK n : n = Cardinality(Updates) + 1
      OBVIOUS
    <2>3. PICK e : e = Event("updated", contract.paidUntil, want)
      OBVIOUS
    <2>4. e = [type |-> "updated", number |-> n, end |-> contract.paidUntil, flag |-> want]
      BY <2>2, <2>3 DEF Event, Updates
    <2>5. e.type = "updated" /\ e.number = n /\ e.flag = want
      BY <2>4
    <2>6. e \in EventRow
      BY <2>3, TimesTyped, EventTyped DEF EventType
    <2>7. Updates' = Updates \cup {e}
      BY <2>1, <2>3, <2>5 DEF Updates
    <2>8. contract'.flag = request[q].want
      BY <1>1, <1>3, <1>5, <1>8
    <2> QED
      BY <1>1, <1>2, <1>5, <1>6, <1>8, <2>1, <2>2, <2>3, <2>5, <2>6, <2>7, <2>8
         DEF Called, CallProvider
  <1> QED
    BY <1>7, <1>8

LEMMA UpdatesCounted ==
    ASSUME TypeOK
    PROVE  /\ Cardinality(Updates) \in Nat /\ IsFiniteSet(Updates)
           /\ \A e \in Updates : e.number \in Nat
  <1>1. IsFiniteSet(issued) /\ Updates \subseteq issued
    BY DEF TypeOK, Updates
  <1>2. IsFiniteSet(Updates)
    BY <1>1, FS_Subset
  <1> QED
    BY <1>1, <1>2, FS_CardinalityType, FlagTyped DEF EventRow

LEMMA NumbersKept ==
    ASSUME TypeOK, NumbersInv, [Next]_vars
    PROVE  NumbersInv'
  <1>1. CASE ChangesKept
    BY <1>1 DEF ChangesKept, NumbersInv, Latest
  <1>2. ASSUME NEW q \in Request, Called(q), ~Changes(q)
        PROVE  NumbersInv'
    BY <1>2 DEF Called, NumbersInv, Latest
  <1>3. ASSUME NEW q \in Request, Called(q), Changes(q)
        PROVE  NumbersInv'
    <2>1. PICK e : /\ e.number = Cardinality(Updates) + 1 /\ e.flag = contract'.flag
                   /\ Updates' = Updates \cup {e}
      BY <1>3 DEF Called
    <2>2. e \notin Updates
      BY <2>1, UpdatesCounted DEF NumbersInv
    <2>3. Cardinality(Updates') = Cardinality(Updates) + 1
      BY <2>1, <2>2, UpdatesCounted, FS_AddElement
    <2>4. ASSUME NEW f \in Updates
          PROVE  f.number <= Cardinality(Updates) + 1 /\ ~(e.number <= f.number)
      BY <2>1, UpdatesCounted DEF NumbersInv
    <2>5. Cardinality(Updates)' = Cardinality(Updates) + 1
      BY <2>3
    <2>6. SUFFICES ASSUME NEW f \in Updates'
                   PROVE  /\ f.number <= Cardinality(Updates) + 1
                          /\ Latest(f)' => f.flag = contract'.flag
      BY <2>5 DEF NumbersInv
    <2>7. CASE f = e
      BY <2>1, <2>7, UpdatesCounted
    <2>8. CASE f \in Updates
      BY <2>1, <2>4, <2>8 DEF Latest
    <2> QED
      BY <2>1, <2>7, <2>8
  <1> QED
    BY <1>1, <1>2, <1>3, CallIs, OthersKeepChanges

\* Steps of a member's request but calls, and steps of others.
OtherStep ==
    /\ UNCHANGED request /\ (RowCalm \/ RowBumped)

LEMMA StepOfRequest ==
    ASSUME TypeOK, [Next]_vars
    PROVE  \/ OtherStep
           \/ \E q \in Request : /\ CommitChange(q) \/ GiveUp(q) \/ CallProvider(q)
                                    \/ \E want \in BOOLEAN : BeginChange(q, want)
  <1>1. row.version \in Nat
    BY FlagTyped
  <1>2. ASSUME NEW e \in issued, Hear(e) PROVE OtherStep
    BY <1>2, HearCalm DEF Hear, OtherStep
  <1>3. ASSUME NEW h \in handling, CommitHearing(h) PROVE OtherStep
    <2>1. RowCalm \/ RowBumped
      BY <1>1, <1>3, HandlerTyped, FailedCalm, DeletedBumps, UpdatedSets
         DEF CommitHearing, RowCalm
    <2> QED
      BY <1>3, <2>1 DEF CommitHearing, OtherStep
  <1>4. CASE UNCHANGED <<row, request>>
    BY <1>1, <1>4 DEF OtherStep, RowCalm
  <1> QED
    BY <1>2, <1>3, <1>4 DEF Next, vars, Bill, EndContract, BeginHearing, Rollback, Tick

\* The keys that a row at a later version, or with the flag set, has met.
LEMMA KeysOfRow ==
    ASSUME TypeOK, KeysInv, ChangesKept, row'.version \in Nat,
           \A q \in Request : request'[q].version <= row'.version,
           \/ row'.version > row.version
           \/ row'.version = row.version /\ (row'.flag = row.flag \/ row'.flag = TRUE)
    PROVE  KeysInv'
  <1>1. row.version \in Nat /\ \A k \in contract.keys : k[2] \in Nat
    BY FlagTyped
  <1>2. CASE row'.version > row.version
    <2>1. \A k \in contract.keys : k[2] <= row'.version /\ k[2] # row'.version
      BY <1>1, <1>2 DEF KeysInv
    <2>2. <<FALSE, row'.version>> \notin contract.keys /\ <<TRUE, row'.version>> \notin contract.keys
      BY <2>1
    <2> QED
      BY <2>1, <2>2 DEF KeysInv, ChangesKept
  <1>3. CASE row'.version = row.version /\ (row'.flag = row.flag \/ row'.flag = TRUE)
    BY <1>3 DEF KeysInv, ChangesKept
  <1> QED
    BY <1>2, <1>3

\* Equal keys have equal wishes.
LEMMA PairFirst ==
    ASSUME NEW a, NEW b, NEW c, NEW d, <<a, b>> = <<c, d>>
    PROVE  a = c
  OBVIOUS

LEMMA KeysKeptByCall ==
    ASSUME TypeOK, KeysInv, CalledInv, NEW q \in Request, Called(q),
           \A p \in Request : p = q \/ request[p] = Idle
    PROVE  KeysInv' /\ CalledInv'
  <1>1. /\ row.version \in Nat /\ row.flag \in BOOLEAN /\ contract.flag \in BOOLEAN
        /\ request[q].version \in Nat /\ request[q].want \in BOOLEAN
        /\ \A k \in contract.keys : k[2] \in Nat
    BY FlagTyped DEF RequestRow
  <1>2. contract'.flag = request[q].want
    BY <1>1 DEF Called, Changes, CalledInv
  <1>3. CalledInv'
    <2>1. \A p \in Request : p = q \/ request'[p].op = "idle"
      BY DEF Called, Idle
    <2> QED
      BY <1>2, <2>1 DEF Called, CalledInv
  <1>4. /\ Key(q) = <<request[q].want, request[q].version>>
        /\ request[q].version <= row.version
    BY DEF Key, KeysInv
  <1>5. \A k \in contract'.keys : k[2] <= row'.version
    BY <1>1, <1>4 DEF Called, KeysInv
  <1>6. \A p \in Request : request'[p].version <= row'.version
    BY DEF Called, KeysInv
  <1>7. ASSUME NEW flag \in BOOLEAN, <<flag, row.version>> \in contract.keys
        PROVE  row.flag # request[q].want
    <2>1. row.version <= request[q].version
      BY <1>1, <1>7 DEF Called, CalledInv
    <2> QED
      BY <1>1, <1>4, <2>1 DEF Called, CalledInv
  <1>8. Key(q) = <<request[q].want, row.version>> => row.flag # request[q].want
    BY <1>1, <1>4 DEF Called, CalledInv
  <1>9. ASSUME <<FALSE, row'.version>> \in contract'.keys PROVE row'.flag /\ ~contract'.flag
    <2>1. CASE <<FALSE, row.version>> \in contract.keys
      BY <1>1, <1>2, <1>7, <2>1 DEF KeysInv, Called
    <2>2. CASE Key(q) = <<FALSE, row.version>>
      <3>1. request[q].want = FALSE
        BY <1>4, <2>2, PairFirst, Zenon
      <3> QED
        BY <1>1, <1>2, <1>4, <1>8, <2>2, <3>1 DEF Called
    <2> QED
      BY <1>9, <2>1, <2>2 DEF Called
  <1>10. ASSUME <<TRUE, row'.version>> \in contract'.keys PROVE row'.flag \/ contract'.flag
    <2>1. CASE <<TRUE, row.version>> \in contract.keys
      BY <1>1, <1>2, <1>7, <2>1 DEF Called
    <2>2. CASE Key(q) = <<TRUE, row.version>>
      <3>1. request[q].want = TRUE
        BY <1>4, <2>2, PairFirst, Zenon
      <3> QED
        BY <1>1, <1>2, <1>4, <2>2, <3>1 DEF Called
    <2> QED
      BY <1>10, <2>1, <2>2 DEF Called
  <1> QED
    BY <1>3, <1>5, <1>6, <1>9, <1>10 DEF KeysInv

LEMMA AloneKept ==
    ASSUME TypeOK, AloneInv, [Next]_vars, ~overlapped'
    PROVE  AloneInv'
  <1>1. request \in [Request -> RequestRow]
    BY Parts DEF RequestsTyped
  <1>2. CASE OtherStep
    BY <1>2 DEF OtherStep, AloneInv
  <1>3. ASSUME NEW q \in Request, CommitChange(q) \/ GiveUp(q) PROVE AloneInv'
    BY <1>1, <1>3 DEF CommitChange, GiveUp, AloneInv
  <1>4. ASSUME NEW q \in Request, CallProvider(q) PROVE AloneInv'
    <2>1. request[q] # Idle
      BY <1>4 DEF CallProvider, Idle
    <2>2. \A p \in Request \ {q} : request'[p] = request[p]
      BY <1>4, CallIs DEF Called
    <2> QED
      BY <2>1, <2>2 DEF AloneInv
  <1>5. ASSUME NEW q \in Request, NEW want \in BOOLEAN, BeginChange(q, want) PROVE AloneInv'
    <2>1. \A p \in Request \ {q} : request'[p] = request[p] /\ request[p] = Idle
      BY <1>1, <1>5 DEF BeginChange
    <2> QED
      BY <2>1 DEF AloneInv
  <1> QED
    BY <1>2, <1>3, <1>4, <1>5, StepOfRequest

LEMMA KeysKept ==
    ASSUME TypeOK, AloneInv, KeysInv, CalledInv, [Next]_vars, ~overlapped'
    PROVE  KeysInv' /\ CalledInv'
  <1>1. /\ row.version \in Nat /\ row.flag \in BOOLEAN /\ contract.flag \in BOOLEAN
        /\ \A q \in Request : request[q].version \in Nat /\ request[q].want \in BOOLEAN
        /\ request \in [Request -> RequestRow]
    BY FlagTyped, Parts DEF RequestRow, RequestsTyped
  <1>2. CASE \E q \in Request : CallProvider(q)
    <2>1. PICK q \in Request : CallProvider(q)
      BY <1>2
    <2>2. request[q] # Idle
      BY <2>1 DEF CallProvider, Idle
    <2>3. \A p \in Request : p = q \/ request[p] = Idle
      BY <2>2 DEF AloneInv
    <2> QED
      BY <2>1, <2>3, CallIs, KeysKeptByCall
  <1>3. CASE ChangesKept /\ OtherStep
    <2>1. /\ row'.version \in Nat /\ row'.version >= row.version
          /\ row'.version > row.version \/ (row'.version = row.version /\ row'.flag = row.flag)
      BY <1>1, <1>3 DEF OtherStep, RowCalm, RowBumped
    <2>2. \A q \in Request : request'[q].version <= row'.version
      BY <1>1, <1>3, <2>1 DEF OtherStep, KeysInv
    <2>3. KeysInv'
      BY <1>3, <2>1, <2>2, KeysOfRow
    <2>4. ASSUME NEW q \in Request, request[q].version = row'.version
          PROVE  request[q].version = row.version /\ row'.flag = row.flag
      BY <1>1, <2>1, <2>4 DEF KeysInv
    <2>5. CalledInv'
      BY <1>3, <2>4 DEF CalledInv, OtherStep, ChangesKept, Key
    <2> QED
      BY <2>3, <2>5
  <1>4. ASSUME NEW q \in Request, CommitChange(q) \/ GiveUp(q), ChangesKept
        PROVE  KeysInv' /\ CalledInv'
    <2>1. request' = [request EXCEPT ![q] = Idle]
      BY <1>4 DEF CommitChange, GiveUp
    <2>2. \A p \in Request : request'[p] = Idle
      <3>1. request[q] # Idle
        BY <1>4 DEF CommitChange, GiveUp, Idle
      <3> QED
        BY <1>1, <2>1, <3>1 DEF AloneInv
    <2>6. \A p \in Request : request'[p].op = "idle" /\ request'[p].version = 0
      BY <2>2 DEF Idle
    <2>3. /\ row'.version \in Nat
          /\ \/ row'.version > row.version
             \/ row'.version = row.version /\ (row'.flag = row.flag \/ row'.flag = TRUE)
      BY <1>1, <1>4, CommitSets DEF GiveUp, RowBumped
    <2>4. CalledInv'
      BY <2>6 DEF CalledInv
    <2>5. KeysInv'
      <3>1. \A p \in Request : request'[p].version <= row'.version
        BY <1>1, <2>6, <2>3
      <3> QED
        BY <1>4, <2>3, <3>1, KeysOfRow
    <2> QED
      BY <2>4, <2>5
  <1>5. ASSUME NEW q \in Request, NEW want \in BOOLEAN, BeginChange(q, want), ChangesKept
        PROVE  KeysInv' /\ CalledInv'
    <2>1. PICK new : new = [op |-> IF row.flag = want THEN "committing" ELSE "calling",
                            want |-> want, version |-> row.version, called |-> row.flag # want]
      OBVIOUS
    <2>2. /\ new.op = IF row.flag = want THEN "committing" ELSE "calling"
          /\ new.want = want /\ new.version = row.version /\ (new.called <=> row.flag # want)
      BY <2>1
    <2>3. request' = [request EXCEPT ![q] = new] /\ row' = row
      BY <1>5, <2>1 DEF BeginChange
    <2>4. request'[q] = new /\ \A p \in Request : p = q \/ request'[p] = Idle
      BY <1>1, <1>5, <2>3 DEF BeginChange
    <2>9. \A p \in Request : p = q \/ (request'[p].op = "idle" /\ request'[p].version = 0)
      BY <2>4 DEF Idle
    <2>5. KeysInv'
      <3>1. \A p \in Request : request'[p].version <= row'.version
        BY <1>1, <2>2, <2>3, <2>4, <2>9
      <3> QED
        BY <1>1, <1>5, <2>3, <3>1, KeysOfRow
    <2>6. ASSUME row.flag # want, <<want, row.version>> \in contract.keys
          PROVE  contract.flag = want
      BY <1>1, <2>6 DEF KeysInv
    <2>7. Key(q)' = <<want, row.version>>
      BY <2>2, <2>4 DEF Key
    <2>8. CalledInv'
      BY <1>1, <1>5, <2>2, <2>3, <2>4, <2>6, <2>7, <2>9 DEF CalledInv, KeysInv, ChangesKept
    <2> QED
      BY <2>5, <2>8
  <1> QED
    BY <1>2, <1>3, <1>4, <1>5, StepOfRequest, OthersKeepChanges

\* Steps after which the flag is the provider's if it was.
FlagStays ==
    /\ contract'.flag = contract.flag /\ Updates' = Updates /\ row'.flag = row.flag
    /\ contract'.state = "RUNNING" => contract.state = "RUNNING"
    /\ Unheard({"updated"})' = {} => Unheard({"updated"}) = {}
    /\ \A h \in handling' : h \in handling \/ h.row = row
    /\ (disordered' <=> disordered) /\ (skipped' <=> skipped) /\ (overlapped => overlapped')

LEMMA AgreesStays ==
    ASSUME AgreesInv, FlagStays
    PROVE  AgreesInv'
  <1>1. SUFFICES ASSUME contract'.state = "RUNNING", ~disordered', ~skipped', ~overlapped'
                 PROVE  /\ Unheard({"updated"})' = {} => row'.flag = contract'.flag
                        /\ \A h \in handling' :
                              Latest(h.event)' /\ h.row.flag = contract'.flag => row'.flag = contract'.flag
    BY DEF AgreesInv
  <1>2. contract.state = "RUNNING" /\ ~disordered /\ ~skipped /\ ~overlapped
    BY <1>1 DEF FlagStays
  <1>3. \A h : Latest(h.event)' => Latest(h.event)
    BY DEF FlagStays, Latest
  <1> QED
    BY <1>2, <1>3 DEF AgreesInv, FlagStays

\* An event of another kind that is heard is not one of the flag.
LEMMA OtherHeard ==
    ASSUME NEW e, e.type # "updated", received' = received \cup {e}, UNCHANGED issued
    PROVE  Unheard({"updated"})' = Unheard({"updated"})
  BY DEF Unheard

\* A call that changes the flag is a later event than any; others change nothing.
LEMMA AgreesCalled ==
    ASSUME TypeOK, NumbersInv, AgreesInv, NEW q \in Request, Called(q)
    PROVE  AgreesInv'
  <1>1. CASE ~Changes(q)
    <2>1. FlagStays
      <3>1. /\ contract'.flag = contract.flag /\ Updates' = Updates
            /\ contract.state = "RUNNING"
        BY <1>1 DEF Called
      <3>2. UNCHANGED <<issued, received, row, handling, disordered, skipped, overlapped>>
        BY <1>1 DEF Called, history
      <3> QED
        BY <3>1, <3>2 DEF FlagStays, Unheard
    <2> QED
      BY <2>1, AgreesStays
  <1>2. CASE Changes(q)
    <2>1. PICK e : /\ e.type = "updated" /\ e.number = Cardinality(Updates) + 1
                   /\ Updates' = Updates \cup {e} /\ issued' = issued \cup {e}
      BY <1>2 DEF Called
    <2>2. \A f \in Updates : f.number < e.number
      BY <2>1, UpdatesCounted DEF NumbersInv
    <2>3. e \notin issued
      BY <2>1, <2>2, UpdatesCounted DEF Updates
    <2>4. e \in Unheard({"updated"})'
      BY <2>1, <2>3 DEF Unheard, TypeOK, Called
    <2>5. \A h \in handling : ~Latest(h.event)'
      <3>1. SUFFICES ASSUME NEW h \in handling, h.event \in Updates', e.number <= h.event.number
                     PROVE  FALSE
        BY <2>1 DEF Latest
      <3>2. h.event \in issued
        BY HandlerTyped
      <3>3. h.event \in Updates
        BY <2>1, <2>3, <3>1, <3>2
      <3> QED
        BY <2>1, <2>2, <3>1, <3>3, UpdatesCounted
    <2> QED
      BY <1>2, <2>4, <2>5 DEF AgreesInv, Called
  <1> QED
    BY <1>1, <1>2

\* A change that was called for writes what the provider has.
LEMMA AgreesCommitted ==
    ASSUME TypeOK, ~overlapped => CalledInv, AgreesInv, NEW q \in Request, CommitChange(q), ChangesKept
    PROVE  AgreesInv'
  <1>1. CASE row' = row
    <2>1. FlagStays
      BY <1>1 DEF CommitChange, FlagStays, ChangesKept, Unheard
    <2> QED
      BY <2>1, AgreesStays
  <1>2. CASE row' # row /\ ~request[q].called
    BY <1>2 DEF CommitChange, AgreesInv
  <1>3. CASE row' # row /\ request[q].called /\ ~overlapped
    <2>1. row'.flag = request[q].want /\ contract.flag = request[q].want
      BY <1>3, CommitSets DEF CalledInv, CommitChange
    <2>2. row'.flag = contract'.flag
      BY <2>1 DEF ChangesKept
    <2> QED
      BY <2>2 DEF AgreesInv
  <1>4. CASE overlapped
    BY <1>4 DEF AgreesInv, CommitChange
  <1> QED
    BY <1>1, <1>2, <1>3, <1>4

\* The last event of the flag that is to be heard is the latest, unless a later
\* one was heard before.
LEMMA AgreesUpdated ==
    ASSUME TypeOK, NumbersInv, AgreesInv, NEW h \in handling, CommitHearing(h),
           HearUpdated(h.event, h.row), ChangesKept
    PROVE  AgreesInv'
  <1>1. SUFFICES ASSUME contract'.state = "RUNNING", ~disordered', ~skipped', ~overlapped'
                 PROVE  /\ Unheard({"updated"})' = {} => row'.flag = contract'.flag
                        /\ \A g \in handling' : ~Latest(g.event)'
    BY DEF AgreesInv
  <1>2. /\ contract.state = "RUNNING" /\ ~disordered /\ ~skipped /\ ~overlapped
        /\ contract'.flag = contract.flag
        /\ h.event.type = "updated" /\ h.event \in issued /\ h.event \in EventRow
    BY <1>1, HandlerTyped DEF ChangesKept, HearUpdated, CommitHearing
  <1>3. \A d \in received : d.type = "updated" => ~(d.number > h.event.number)
    BY <1>1 DEF HearUpdated
  <1>4. \A g \in handling' : ~Latest(g.event)'
    <2>1. \A g \in handling : g.event.type = "updated" => g.event = h.event
      BY <1>1 DEF HearUpdated
    <2>2. \A g \in handling' : g \in handling /\ g.event # h.event
      BY HandlerTyped DEF CommitHearing
    <2> QED
      BY <2>1, <2>2 DEF Latest, Updates
  <1>5. ASSUME Unheard({"updated"})' = {} PROVE row'.flag = contract'.flag
    <2>1. \A f \in Updates : f \in received \/ f = h.event
      BY <1>5 DEF Unheard, Updates, CommitHearing
    <2>2. Latest(h.event)
      <3>1. \A f \in Updates : f.number \in Nat /\ h.event \in Updates /\ h.event.number \in Nat
        BY <1>2, UpdatesCounted DEF Updates
      <3>2. \A f \in Updates : f.number <= h.event.number
        BY <1>3, <2>1, <3>1 DEF Updates
      <3> QED
        BY <1>2, <3>2 DEF Latest, Updates
    <2>3. h.event.flag = contract.flag
      BY <2>2 DEF NumbersInv, Latest
    <2>4. CASE row' = row /\ h.row.flag = h.event.flag
      BY <1>2, <2>2, <2>3, <2>4 DEF AgreesInv
    <2>5. CASE row'.flag = h.event.flag
      BY <1>2, <2>3, <2>5
    <2> QED
      BY <1>2, <2>4, <2>5, UpdatedSets
  <1> QED
    BY <1>4, <1>5

LEMMA AgreesKept ==
    ASSUME TypeOK, BillsInv, NumbersInv, ~overlapped => CalledInv, AgreesInv, [Next]_vars
    PROVE  AgreesInv'
  <1>1. CASE \E q \in Request : CallProvider(q)
    BY <1>1, CallIs, AgreesCalled
  <1>2. CASE ChangesKept
    <2>1. ASSUME NEW e \in issued, Hear(e) PROVE AgreesInv'
      <3>1. e.type # "updated"
        BY <2>1 DEF Hear, HearCheckout, HearPaid
      <3>2. row'.flag = row.flag
        BY <2>1, HearCalm DEF RowCalm
      <3>3. FlagStays
        BY <1>2, <2>1, <3>1, <3>2, OtherHeard DEF Hear, FlagStays, ChangesKept
      <3> QED
        BY <3>3, AgreesStays
    <2>2. ASSUME NEW h \in handling, CommitHearing(h), HearFailed(h.event, h.row) PROVE AgreesInv'
      <3>1. row'.flag = row.flag
        BY <2>2, FailedCalm DEF RowCalm
      <3>2. h.event.type # "updated"
        BY <2>2 DEF HearFailed
      <3>3. FlagStays
        BY <1>2, <2>2, <3>1, <3>2, OtherHeard
           DEF CommitHearing, HearFailed, FlagStays, ChangesKept
      <3> QED
        BY <3>3, AgreesStays
    <2>3. ASSUME NEW h \in handling, CommitHearing(h), HearDeleted(h.event, h.row) PROVE AgreesInv'
      <3>1. contract.state = "DELETED"
        BY <2>3, HandlerTyped DEF HearDeleted, BillsInv
      <3> QED
        BY <1>2, <3>1 DEF ChangesKept, AgreesInv
    <2>4. CASE /\ UNCHANGED <<received, row, disordered, skipped>> /\ (overlapped => overlapped')
               /\ \A h \in handling' : h \in handling \/ h.row = row
               /\ issued \subseteq issued'
      <3>1. FlagStays
        BY <1>2, <2>4 DEF FlagStays, ChangesKept, Unheard, history
      <3> QED
        BY <3>1, AgreesStays
    <2>5. CASE Bill \/ EndContract
      <3>1. issued \subseteq issued' /\ UNCHANGED <<received, row, handling, disordered, skipped, overlapped>>
        BY <2>5 DEF Bill, EndContract, history
      <3> QED
        BY <2>4, <3>1
    <2>6. ASSUME NEW e \in issued, BeginHearing(e) PROVE AgreesInv'
      BY <2>4, <2>6 DEF BeginHearing, history
    <2>7. ASSUME NEW h \in handling, Rollback(h) PROVE AgreesInv'
      BY <2>4, <2>7 DEF Rollback, history
    <2>8. ASSUME NEW q \in Request, GiveUp(q) \/ \E want \in BOOLEAN : BeginChange(q, want)
          PROVE  AgreesInv'
      BY <2>4, <2>8 DEF GiveUp, BeginChange, history
    <2>9. CASE Tick \/ UNCHANGED vars
      BY <2>4, <2>9 DEF Tick, vars, history
    <2>10. ASSUME NEW h \in handling, CommitHearing(h) PROVE AgreesInv'
      BY <1>2, <2>2, <2>3, <2>10, AgreesUpdated DEF CommitHearing
    <2>11. ASSUME NEW q \in Request, CommitChange(q) PROVE AgreesInv'
      BY <1>2, <2>11, AgreesCommitted
    <2>12. CASE \E q \in Request : CallProvider(q)
      BY <1>1, <2>12
    <2> QED
      BY <2>1, <2>5, <2>6, <2>7, <2>8, <2>9, <2>10, <2>11, <2>12 DEF Next
  <1> QED
    BY <1>1, <1>2, OthersKeepChanges

LEMMA FlagInit == Init => FlagInv
  <1>1. SUFFICES ASSUME Init PROVE FlagInv
    OBVIOUS
  <1>2. Updates = {} /\ row.flag = FALSE /\ row.version = 0 /\ contract.flag = FALSE
        /\ contract.keys = {} /\ handling = {} /\ \A q \in Request : request[q] = Idle
    BY <1>1 DEF Init, Updates
  <1>3. NumbersInv
    BY <1>2 DEF NumbersInv
  <1>4. AloneInv /\ KeysInv /\ CalledInv
    BY <1>2 DEF AloneInv, KeysInv, CalledInv, Idle
  <1>5. AgreesInv
    BY <1>2 DEF AgreesInv
  <1> QED
    BY <1>3, <1>4, <1>5 DEF FlagInv

\* The member is shown what the provider will do, once nothing is in flight,
\* unless requests overlapped, flags were heard out of order or a cancellation
\* wrote the row without a call.
THEOREM FlagAgreesWhenCalledCorrect == Spec => []FlagAgreesWhenCalled
  <1>1. FlagInv => FlagAgreesWhenCalled
    BY DEF FlagInv, AgreesInv, FlagAgreesWhenCalled, AtRest
  <1>2. ASSUME HeardInv, FlagInv, [Next]_vars PROVE FlagInv'
    <2>1. TypeOK /\ BillsInv
      BY <1>2 DEF HeardInv
    <2>2. NumbersInv' /\ AgreesInv'
      BY <1>2, <2>1, NumbersKept, AgreesKept DEF FlagInv
    <2>3. ASSUME ~overlapped' PROVE AloneInv' /\ KeysInv' /\ CalledInv'
      BY <1>2, <2>1, <2>3, OverlapStays, AloneKept, KeysKept DEF FlagInv
    <2> QED
      BY <2>2, <2>3 DEF FlagInv
  <1>3. HeardInv /\ FlagInv /\ [Next]_vars => FlagInv'
    BY <1>2
  <1> QED
    BY <1>1, <1>3, FlagInit, HeardInvInit, HeardInvKept, PTL DEF Spec

=============================================================================
