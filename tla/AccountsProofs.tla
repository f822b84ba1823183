--------------------------- MODULE AccountsProofs ---------------------------
(***************************************************************************)
(* Theorems about Accounts, for any accounts, LINE identities, sessions    *)
(* and requests, and whatever roles the accounts start with.               *)
(***************************************************************************)
EXTENDS Accounts, FiniteSetTheorems, TLAPS

-----------------------------------------------------------------------------
(***************************************************************************)
(* Requests.                                                               *)
(***************************************************************************)

\* What a request carries follows from what it asks for.
LEMMA CarriedBy ==
    ASSUME TypeOK, NEW q \in Request
    PROVE  /\ request[q].op = "change" =>
                  request[q] \in [op : {"change"}, user : User, to : Target,
                                  rows : [User -> UserRow], sessions : SUBSET SessionId,
                                  written : SUBSET (User \cup SessionId)]
           /\ request[q].op \in {"login", "close"} =>
                  request[q] \in [op : {"login", "close"}, user : User]
           /\ request[q].op = "stepUp" =>
                  request[q] \in [op : {"stepUp"}, user : User, session : SessionId]
           /\ request[q].op = "restore" =>
                  request[q] \in [op : {"restore"}, user : User, linked : BOOLEAN]
           /\ request[q].op = "register" =>
                  request[q] \in [op : {"register"}, subject : Subject, had : LinkRow,
                                  used : BOOLEAN]
           /\ request[q].op = "link" =>
                  request[q] \in [op : {"link"}, user : User, subject : Subject]
  <1>1. request[q] \in Asked
    BY DEF TypeOK
  <1>2. QED
    BY <1>1 DEF Asked, Idle

\* Whoever answers leaves the other requests as they are, but for what the
\* changes of rows notice.
LEMMA Answered ==
    ASSUME TypeOK, NEW q, NEW W \in SUBSET (User \cup SessionId), Answer(q, W)
    PROVE  /\ request' \in [Request -> Asked]
           /\ \A p \in Request :
                  \/ request'[p] = Idle
                  \/ request[p].op # "change" /\ request'[p] = request[p]
                  \/ /\ request[p].op = "change"
                     /\ request'[p] = [request[p] EXCEPT !.written = request[p].written \cup W]
  <1>1. ASSUME NEW p \in Request
        PROVE  /\ request'[p] \in Asked
               /\ \/ request'[p] = Idle
                  \/ request[p].op # "change" /\ request'[p] = request[p]
                  \/ /\ request[p].op = "change"
                     /\ request'[p] = [request[p] EXCEPT !.written = request[p].written \cup W]
    <2>1. CASE p = q
      BY <2>1 DEF Answer, Asked
    <2>2. CASE p # q /\ request[p].op = "change"
      <3>1. request'[p] = [request[p] EXCEPT !.written = request[p].written \cup W]
        BY <2>2 DEF Answer
      <3>2. request[p] \in [op : {"change"}, user : User, to : Target,
                            rows : [User -> UserRow], sessions : SUBSET SessionId,
                            written : SUBSET (User \cup SessionId)]
        BY <2>2, CarriedBy
      <3>3. request[p].written \cup W \in SUBSET (User \cup SessionId)
        BY <3>2
      <3>4. [request[p] EXCEPT !.written = request[p].written \cup W]
                \in [op : {"change"}, user : User, to : Target,
                     rows : [User -> UserRow], sessions : SUBSET SessionId,
                     written : SUBSET (User \cup SessionId)]
        BY <3>2, <3>3
      <3>5. QED
        BY <2>2, <3>1, <3>4 DEF Asked
    <2>3. CASE p # q /\ request[p].op # "change"
      BY <2>3 DEF Answer, TypeOK
    <2>4. QED
      BY <2>1, <2>2, <2>3
  <1>2. request' = [p \in Request |-> request'[p]]
    BY DEF Answer
  <1>3. QED
    BY <1>1, <1>2

\* Whoever asks leaves the other requests as they are.
LEMMA Posed ==
    ASSUME TypeOK, NEW q \in Request, NEW asked \in Asked, Ask(q, asked)
    PROVE  /\ request' \in [Request -> Asked] /\ request'[q] = asked
           /\ \A p \in Request \ {q} : request'[p] = request[p]
  BY DEF Ask, TypeOK

-----------------------------------------------------------------------------
(***************************************************************************)
(* Steps.                                                                  *)
(***************************************************************************)

\* Steps that only ask.
AskStep ==
    \E q \in Request :
        \/ \E u \in User :
            \/ \E to \in Target : BeginChange(q, u, to)
            \/ BeginLogin(q, u) \/ BeginClose(q, u) \/ BeginRestore(q, u)
            \/ \E s \in Subject : BeginLink(q, u, s)
        \/ \E i \in SessionId : BeginStepUp(q, i)
        \/ \E s \in Subject : BeginRegister(q, s)

\* Steps that change accounts and sessions, and no identity.
RowStep ==
    \/ \E q \in Request : CommitChange(q) \/ CommitLogin(q) \/ CommitStepUp(q) \/ GiveUp(q)
    \/ \E u \in User :
           VerifyFallback(u) \/ ResetPassword(u) \/ EnrolBackup(u) \/ RevokeBackup(u)
    \/ \E i \in SessionId : EndSession(i)

\* Steps that change identities.
IdentityStep ==
    \/ \E q \in Request :
           \/ CommitClose(q) \/ CommitRestore(q) \/ CommitLink(q)
           \/ \E invited \in BOOLEAN : CommitRegister(q, invited)
    \/ \E u \in User : Unlink(u)

\* There are no others.
LEMMA Steps == Next => AskStep \/ RowStep \/ IdentityStep
  BY DEF Next, AskStep, RowStep, IdentityStep

-----------------------------------------------------------------------------
(***************************************************************************)
(* Type correctness.                                                       *)
(***************************************************************************)

\* The part of TypeOK about rows of accounts and what is left of the bounds.
UsersTyped ==
    /\ user \in [User -> UserRow] /\ revoked \in [User -> Nat] /\ local \in BOOLEAN
    /\ left \in [changes : Nat, sessions : Nat, identity : Nat]

\* The part of TypeOK about identities.
LinksTyped ==
    /\ link \in [Subject -> LinkRow]
    /\ \A s \in Subject : link[s].user = NoOne => link[s] = NoLink
    /\ referred \subseteq User
    /\ through \in [Subject -> SUBSET User] /\ released \subseteq Subject
    /\ displaced \subseteq User \cup {NoOne}

\* The part of TypeOK about sessions.
SessionsTyped ==
    /\ session \in [SessionId -> Session]
    /\ \A i \in SessionId : session[i].user = NoOne => session[i] = NoSession

\* The parts are the whole, before a step and after it.
LEMMA Parts ==
    /\ TypeOK <=> UsersTyped /\ LinksTyped /\ SessionsTyped /\ request \in [Request -> Asked]
    /\ TypeOK' <=> UsersTyped' /\ LinksTyped' /\ SessionsTyped' /\ request' \in [Request -> Asked]
  BY DEF TypeOK, UsersTyped, LinksTyped, SessionsTyped

\* At first there are only the accounts the installation starts with.
LEMMA TypeInit == Init => TypeOK
  <1> SUFFICES ASSUME Init PROVE TypeOK
    OBVIOUS
  <1>1. PICK bound \in Bounds :
            /\ local = bound.local
            /\ user = [u \in User |->
                   [role |-> bound.roles[u], disabled |-> FALSE, closed |-> FALSE,
                    fallback |-> bound.roles[u] # "NONE", ready |-> bound.roles[u] = "ADMIN"]]
            /\ left = [changes |-> bound.changes, sessions |-> bound.sessions,
                       identity |-> bound.identity]
    BY DEF Init
  <1>2. /\ bound.local \in BOOLEAN /\ bound.roles \in [User -> Role]
        /\ bound.changes \in Nat /\ bound.sessions \in Nat /\ bound.identity \in Nat
    BY ConstantsAssumption
  <1>3. user \in [User -> UserRow]
    BY <1>1, <1>2 DEF UserRow
  <1>4. left \in [changes : Nat, sessions : Nat, identity : Nat]
    BY <1>1, <1>2
  <1>5. NoLink \in LinkRow /\ NoSession \in Session /\ Idle \in Asked
    BY DEF NoLink, NoSession, LinkRow, Session, Asked
  <1>6. revoked \in [User -> Nat]
    BY DEF Init
  <1>7. LinksTyped
    BY <1>5 DEF Init, LinksTyped
  <1>8. SessionsTyped
    BY <1>5 DEF Init, SessionsTyped
  <1>9. request \in [Request -> Asked]
    BY <1>5 DEF Init
  <1>10. UsersTyped
    BY <1>1, <1>2, <1>3, <1>4, <1>6 DEF UsersTyped
  <1>11. QED
    BY <1>7, <1>8, <1>9, <1>10, Parts

\* What is left of a bound shrinks, and stays a number.
LEMMA Spent ==
    ASSUME TypeOK, NEW kind \in {"changes", "sessions", "identity"}, Spend(kind)
    PROVE  left' \in [changes : Nat, sessions : Nat, identity : Nat]
  <1>1. left \in [changes : Nat, sessions : Nat, identity : Nat]
    BY DEF TypeOK
  <1>2. CASE kind = "changes"
    <2>1. left' = [left EXCEPT !.changes = left.changes - 1] /\ left.changes > 0
      BY <1>2 DEF Spend
    <2>2. QED
      BY <1>1, <2>1
  <1>3. CASE kind = "sessions"
    <2>1. left' = [left EXCEPT !.sessions = left.sessions - 1] /\ left.sessions > 0
      BY <1>3 DEF Spend
    <2>2. QED
      BY <1>1, <2>1
  <1>4. CASE kind = "identity"
    <2>1. left' = [left EXCEPT !.identity = left.identity - 1] /\ left.identity > 0
      BY <1>4 DEF Spend
    <2>2. QED
      BY <1>1, <2>1
  <1>5. QED
    BY <1>2, <1>3, <1>4

\* Sessions that end leave the others as they are.
LEMMA Ended ==
    ASSUME TypeOK, NEW ids
    PROVE  /\ Without(ids) \in [SessionId -> Session]
           /\ \A i \in SessionId : Without(ids)[i].user = NoOne => Without(ids)[i] = NoSession
           /\ \A i \in SessionId : i \in ids => Without(ids)[i] = NoSession
           /\ \A i \in SessionId : i \notin ids => Without(ids)[i] = session[i]
  <1>1. NoSession \in Session
    BY DEF NoSession, Session
  <1>2. \A i \in SessionId : Without(ids)[i] = IF i \in ids THEN NoSession ELSE session[i]
    BY DEF Without
  <1>3. Without(ids) \in [SessionId -> Session]
    BY <1>1 DEF Without, TypeOK
  <1>4. QED
    BY <1>2, <1>3 DEF TypeOK

\* A session that is opened is the account's, with one factor.
LEMMA OpenedOne ==
    ASSUME TypeOK, NEW u \in User, Open(u, session)
    PROVE  /\ SessionsTyped'
           /\ \A i \in SessionId : session'[i] = session[i] \/ session'[i] = Opened(u, 1)
  <1>1. PICK i \in SessionId : session' = [session EXCEPT ![i] = Opened(u, 1)]
    BY DEF Open
  <1>2. Opened(u, 1) \in Session /\ Opened(u, 1).user # NoOne
    BY ConstantsAssumption DEF Opened, Session, TypeOK
  <1>3. QED
    BY <1>1, <1>2 DEF SessionsTyped, TypeOK

\* Requests that are only asked for keep the types.
LEMMA AskedTyped ==
    ASSUME TypeOK, NEW q \in Request, NEW asked \in Asked, Ask(q, asked),
           NEW kind \in {"changes", "sessions", "identity"}, Spend(kind),
           UNCHANGED <<local, user, identities, session, revoked>>
    PROVE  TypeOK'
  <1>1. request' \in [Request -> Asked]
    BY Posed
  <1>2. left' \in [changes : Nat, sessions : Nat, identity : Nat]
    BY Spent
  <1>3. UsersTyped'
    BY <1>2 DEF TypeOK, UsersTyped
  <1>4. LinksTyped' /\ SessionsTyped'
    BY DEF TypeOK, LinksTyped, SessionsTyped, identities
  <1>5. QED
    BY <1>1, <1>3, <1>4, Parts

\* Asking keeps the types, whatever is asked for.
LEMMA BeginsTyped == ASSUME TypeOK, AskStep PROVE TypeOK'
  <1> SUFFICES ASSUME NEW q \in Request,
                      \/ \E u \in User :
                          \/ \E to \in Target : BeginChange(q, u, to)
                          \/ BeginLogin(q, u) \/ BeginClose(q, u) \/ BeginRestore(q, u)
                          \/ \E s \in Subject : BeginLink(q, u, s)
                      \/ \E i \in SessionId : BeginStepUp(q, i)
                      \/ \E s \in Subject : BeginRegister(q, s)
               PROVE  TypeOK'
    BY DEF AskStep
  <1>1. ASSUME NEW u \in User, NEW to \in Target, BeginChange(q, u, to) PROVE TypeOK'
    <2>1. [op |-> "change", user |-> u, to |-> to, rows |-> user, sessions |-> SessionsOf(u),
           written |-> {}] \in Asked
      <3>1. user \in [User -> UserRow] /\ SessionsOf(u) \in SUBSET SessionId
        BY DEF TypeOK, SessionsOf
      <3>2. QED
        BY <3>1 DEF Asked
    <2>2. QED
      BY <1>1, <2>1, AskedTyped DEF BeginChange
  <1>2. ASSUME NEW u \in User, BeginLogin(q, u) PROVE TypeOK'
    BY <1>2, AskedTyped DEF BeginLogin, Asked
  <1>3. ASSUME NEW u \in User, BeginClose(q, u) PROVE TypeOK'
    BY <1>3, AskedTyped DEF BeginClose, Asked
  <1>4. ASSUME NEW u \in User, BeginRestore(q, u) PROVE TypeOK'
    BY <1>4, AskedTyped DEF BeginRestore, Asked
  <1>5. ASSUME NEW u \in User, NEW s \in Subject, BeginLink(q, u, s) PROVE TypeOK'
    BY <1>5, AskedTyped DEF BeginLink, Asked
  <1>6. ASSUME NEW i \in SessionId, BeginStepUp(q, i) PROVE TypeOK'
    <2>1. session[i].user \in User
      BY <1>6 DEF BeginStepUp, TypeOK, Session, NoSession
    <2>2. QED
      BY <1>6, <2>1, AskedTyped DEF BeginStepUp, Asked
  <1>7. ASSUME NEW s \in Subject, BeginRegister(q, s) PROVE TypeOK'
    <2>1. [op |-> "register", subject |-> s, had |-> link[s], used |-> ReferralUsed(link[s])]
              \in Asked
      <3>1. link[s] \in LinkRow
        BY DEF TypeOK
      <3>2. ReferralUsed(link[s]) \in BOOLEAN
        BY <3>1 DEF ReferralUsed, LinkRow
      <3>3. QED
        BY <3>1, <3>2 DEF Asked
    <2>2. QED
      BY <1>7, <2>1, AskedTyped DEF BeginRegister
  <1>8. QED
    BY <1>1, <1>2, <1>3, <1>4, <1>5, <1>6, <1>7

\* A row that changes stays a row.
LEMMA ChangedTyped ==
    ASSUME NEW row \in UserRow, NEW to \in Target
    PROVE  /\ Changed(row, to) \in UserRow
           /\ Changed(row, to).fallback = row.fallback
           /\ Changed(row, to).closed = row.closed
           /\ Changed(row, to).ready = row.ready
           /\ Changed(row, to).disabled = IF to = "suspended" THEN TRUE ELSE
                                          IF to = "enabled" THEN FALSE ELSE row.disabled
           /\ Changed(row, to).role = IF to \in {"suspended", "enabled"} THEN row.role ELSE to
  BY DEF Changed, UserRow, Target, Role

\* Changes of sessions and credentials keep the types.
LEMMA RowStepsTyped == ASSUME TypeOK, RowStep PROVE TypeOK'
  <1> USE Parts
  <1>1. ASSUME NEW q \in Request, CommitChange(q) PROVE TypeOK'
    <2> DEFINE r == request[q]
    <2>1. /\ r.user \in User /\ r.to \in Target /\ r.rows[r.user] \in UserRow
          /\ {r.user} \cup r.sessions \in SUBSET (User \cup SessionId)
      BY <1>1, CarriedBy DEF CommitChange
    <2>2. /\ user' = [user EXCEPT ![r.user] = Changed(r.rows[r.user], r.to)]
          /\ session' = Without(r.sessions)
          /\ revoked' = [revoked EXCEPT ![r.user] = @ + 1]
          /\ Answer(q, {r.user} \cup r.sessions)
          /\ UNCHANGED <<local, identities, left>>
      BY <1>1 DEF CommitChange
    <2>3. request' \in [Request -> Asked]
      BY <2>1, <2>2, Answered
    <2>4. UsersTyped'
      <3>1. user' \in [User -> UserRow]
        BY <2>1, <2>2, ChangedTyped DEF UsersTyped
      <3>2. revoked' \in [User -> Nat]
        BY <2>1, <2>2 DEF UsersTyped
      <3>3. QED
        BY <2>2, <3>1, <3>2 DEF UsersTyped
    <2>5. SessionsTyped'
      BY <2>2, Ended DEF SessionsTyped
    <2>6. LinksTyped'
      BY <2>2 DEF LinksTyped, identities
    <2>7. QED
      BY <2>3, <2>4, <2>5, <2>6
  <1>2. ASSUME NEW q \in Request, CommitLogin(q) PROVE TypeOK'
    <2>1. request[q].user \in User
      BY <1>2, CarriedBy DEF CommitLogin
    <2>2. request' \in [Request -> Asked]
      BY <1>2, Answered DEF CommitLogin
    <2>3. SessionsTyped'
      BY <1>2, <2>1, OpenedOne DEF CommitLogin
    <2>4. UsersTyped' /\ LinksTyped'
      BY <1>2 DEF CommitLogin, UsersTyped, LinksTyped, identities
    <2>5. QED
      BY <2>2, <2>3, <2>4
  <1>3. ASSUME NEW q \in Request, CommitStepUp(q) PROVE TypeOK'
    <2> DEFINE r == request[q]
    <2>1. r.user \in User /\ r.session \in SessionId
      BY <1>3, CarriedBy DEF CommitStepUp
    <2>2. /\ session' = [session EXCEPT ![r.session] = Opened(r.user, 2)]
          /\ Answer(q, {r.session, r.user})
      BY <1>3 DEF CommitStepUp, StepUpWrites
    <2>3. request' \in [Request -> Asked]
      BY <2>1, <2>2, Answered
    <2>4. Opened(r.user, 2) \in Session /\ Opened(r.user, 2).user # NoOne
      BY <2>1, ConstantsAssumption DEF Opened, Session, UsersTyped
    <2>5. SessionsTyped'
      BY <2>1, <2>2, <2>4 DEF SessionsTyped
    <2>6. UsersTyped' /\ LinksTyped'
      BY <1>3 DEF CommitStepUp, UsersTyped, LinksTyped, identities
    <2>7. QED
      BY <2>3, <2>5, <2>6
  <1>4. ASSUME NEW q \in Request, GiveUp(q) PROVE TypeOK'
    <2>1. request' \in [Request -> Asked]
      BY <1>4, Answered DEF GiveUp
    <2>2. QED
      BY <1>4, <2>1 DEF GiveUp, UsersTyped, LinksTyped, SessionsTyped, identities
  <1>5. ASSUME NEW i \in SessionId, EndSession(i) PROVE TypeOK'
    <2>1. request' \in [Request -> Asked]
      BY <1>5, Answered DEF EndSession, AtOnce
    <2>2. SessionsTyped'
      BY <1>5, Ended DEF EndSession, SessionsTyped
    <2>3. QED
      BY <1>5, <2>1, <2>2 DEF EndSession, UsersTyped, LinksTyped, identities
  <1>6. ASSUME NEW u \in User, VerifyFallback(u) PROVE TypeOK'
    <2>1. request' \in [Request -> Asked]
      BY <1>6, Answered DEF VerifyFallback, AtOnce
    <2>2. SessionsTyped'
      BY <1>6, OpenedOne DEF VerifyFallback
    <2>3. user' \in [User -> UserRow]
      BY <1>6 DEF VerifyFallback, UsersTyped, UserRow
    <2>4. left' \in [changes : Nat, sessions : Nat, identity : Nat]
      BY <1>6, Spent DEF VerifyFallback
    <2>5. QED
      BY <1>6, <2>1, <2>2, <2>3, <2>4 DEF VerifyFallback, UsersTyped, LinksTyped, identities
  <1>7. ASSUME NEW u \in User, ResetPassword(u) PROVE TypeOK'
    <2>1. SessionsOf(u) \in SUBSET SessionId
      BY DEF SessionsOf
    <2>2. request' \in [Request -> Asked]
      BY <1>7, <2>1, Answered DEF ResetPassword, AtOnce
    <2>3. SessionsTyped'
      BY <1>7, Ended DEF ResetPassword, SessionsTyped
    <2>4. left' \in [changes : Nat, sessions : Nat, identity : Nat]
      BY <1>7, Spent DEF ResetPassword
    <2>5. QED
      BY <1>7, <2>2, <2>3, <2>4 DEF ResetPassword, UsersTyped, LinksTyped, identities
  <1>8. ASSUME NEW u \in User, EnrolBackup(u) PROVE TypeOK'
    <2>1. request' \in [Request -> Asked]
      BY <1>8, Answered DEF EnrolBackup, AtOnce
    <2>2. user' \in [User -> UserRow]
      BY <1>8 DEF EnrolBackup, UsersTyped, UserRow
    <2>3. QED
      BY <1>8, <2>1, <2>2 DEF EnrolBackup, UsersTyped, LinksTyped, SessionsTyped, identities
  <1>9. ASSUME NEW u \in User, RevokeBackup(u) PROVE TypeOK'
    <2>1. SessionsOf(u) \in SUBSET SessionId
      BY DEF SessionsOf
    <2>2. request' \in [Request -> Asked]
      BY <1>9, <2>1, Answered DEF RevokeBackup, AtOnce
    <2>3. SessionsTyped'
      BY <1>9, Ended DEF RevokeBackup, SessionsTyped
    <2>4. left' \in [changes : Nat, sessions : Nat, identity : Nat]
      BY <1>9, Spent DEF RevokeBackup
    <2>5. user' \in [User -> UserRow]
      BY <1>9 DEF RevokeBackup, UsersTyped, UserRow
    <2>6. QED
      BY <1>9, <2>2, <2>3, <2>4, <2>5 DEF RevokeBackup, UsersTyped, LinksTyped, identities
  <1>10. QED
    BY <1>1, <1>2, <1>3, <1>4, <1>5, <1>6, <1>7, <1>8, <1>9 DEF RowStep

\* A row of an identity that is linked or unlinked stays one.
LEMMA LinkRowTyped ==
    ASSUME NEW row \in LinkRow, NEW b \in BOOLEAN
    PROVE  /\ [row EXCEPT !.unlinked = b] \in LinkRow
           /\ [row EXCEPT !.unlinked = b].unlinked = b
           /\ [row EXCEPT !.unlinked = b].user = row.user
           /\ [row EXCEPT !.unlinked = b].owner = row.owner
           /\ [row EXCEPT !.unlinked = b].consumed = row.consumed
  BY DEF LinkRow

\* An identity without an account has no row to be linked or unlinked.
LEMMA UserOfLink ==
    ASSUME TypeOK, NEW u \in User, NEW s \in LinkedBy(u)
    PROVE  s \in Subject /\ link[s] \in LinkRow /\ link[s].user = u /\ u # NoOne
  BY ConstantsAssumption DEF TypeOK, LinkedBy

\* Who had an identity first is an account, if it has a row.
LEMMA OwnerTyped ==
    ASSUME NEW row \in LinkRow
    PROVE  /\ OwnerOf(row) \in User \cup {NoOne}
           /\ row.user \in User => OwnerOf(row) \in User
  BY DEF OwnerOf, LinkRow

\* An account nobody has had is found, if there is one.
LEMMA NewUserIs ==
    ASSUME NEW v \in User, user[v].role = "NONE"
    PROVE  NewUser \in User /\ user[NewUser].role = "NONE"
  BY DEF NewUser

\* Closing an account ends its sessions and unlinks its identity.
LEMMA CloseTyped == ASSUME TypeOK, NEW q \in Request, CommitClose(q) PROVE TypeOK'
  <1> DEFINE u == request[q].user
  <1>1. u \in User
    BY CarriedBy DEF CommitClose
  <1>2. /\ user' = [user EXCEPT ![u].disabled = TRUE, ![u].closed = TRUE]
        /\ link' = [s \in Subject |->
               IF s \in LinkedBy(u) THEN [link[s] EXCEPT !.unlinked = TRUE] ELSE link[s]]
        /\ through' = [s \in Subject |->
               IF s \in LinkedBy(u) THEN through[s] \cup {u} ELSE through[s]]
        /\ session' = Without(SessionsOf(u))
        /\ revoked' = [revoked EXCEPT ![u] = @ + 1]
        /\ Answer(q, {u} \cup SessionsOf(u))
        /\ UNCHANGED <<local, referred, released, displaced, left>>
    BY DEF CommitClose
  <1>3. SessionsOf(u) \in SUBSET SessionId
    BY DEF SessionsOf
  <1>4. request' \in [Request -> Asked]
    BY <1>1, <1>2, <1>3, Answered
  <1>5. SessionsTyped'
    BY <1>2, Ended DEF SessionsTyped
  <1>6. UsersTyped'
    <2>1. UsersTyped
      BY Parts
    <2>2. user' \in [User -> UserRow]
      BY <1>1, <1>2, <2>1 DEF UsersTyped, UserRow
    <2>3. revoked' \in [User -> Nat]
      BY <1>1, <1>2, <2>1 DEF UsersTyped
    <2>4. QED
      BY <1>2, <2>1, <2>2, <2>3 DEF UsersTyped
  <1>7. LinksTyped'
    <2>1. LinksTyped
      BY Parts
    <2>2. ASSUME NEW s \in Subject
          PROVE  link'[s] \in LinkRow /\ (link'[s].user = NoOne => link'[s] = NoLink)
      <3>1. CASE s \in LinkedBy(u)
        <4>1. link'[s] = [link[s] EXCEPT !.unlinked = TRUE]
          BY <1>2, <3>1
        <4>2. link[s] \in LinkRow /\ link[s].user = u /\ u # NoOne
          BY <1>1, <3>1, UserOfLink
        <4>3. QED
          BY <4>1, <4>2, LinkRowTyped
      <3>2. CASE s \notin LinkedBy(u)
        BY <1>2, <2>1, <3>2 DEF LinksTyped
      <3>3. QED
        BY <3>1, <3>2
    <2>3. through' \in [Subject -> SUBSET User]
      BY <1>1, <1>2, <2>1 DEF LinksTyped
    <2>4. QED
      BY <1>2, <2>1, <2>2, <2>3 DEF LinksTyped
  <1>8. QED
    BY <1>4, <1>5, <1>6, <1>7, Parts

\* Restoring an account links its identity.
LEMMA RestoreTyped == ASSUME TypeOK, NEW q \in Request, CommitRestore(q) PROVE TypeOK'
  <1> DEFINE u == request[q].user
  <1>1. u \in User
    BY CarriedBy DEF CommitRestore
  <1>2. /\ user' = [user EXCEPT ![u].disabled = FALSE]
        /\ link' = [s \in Subject |->
               IF request[q].linked /\ s \in LinkedBy(u)
               THEN [link[s] EXCEPT !.unlinked = FALSE] ELSE link[s]]
        /\ Answer(q, {u})
        /\ UNCHANGED <<local, referred, through, released, displaced, session, revoked, left>>
    BY DEF CommitRestore
  <1>3. request' \in [Request -> Asked]
    BY <1>1, <1>2, Answered
  <1>4. UsersTyped' /\ SessionsTyped'
    <2>1. UsersTyped /\ SessionsTyped
      BY Parts
    <2>2. user' \in [User -> UserRow]
      BY <1>1, <1>2, <2>1 DEF UsersTyped, UserRow
    <2>3. QED
      BY <1>2, <2>1, <2>2 DEF UsersTyped, SessionsTyped
  <1>5. LinksTyped'
    <2>1. LinksTyped
      BY Parts
    <2>2. ASSUME NEW s \in Subject
          PROVE  link'[s] \in LinkRow /\ (link'[s].user = NoOne => link'[s] = NoLink)
      <3>1. CASE request[q].linked /\ s \in LinkedBy(u)
        <4>1. link'[s] = [link[s] EXCEPT !.unlinked = FALSE]
          BY <1>2, <3>1
        <4>2. link[s] \in LinkRow /\ link[s].user = u /\ u # NoOne
          BY <1>1, <3>1, UserOfLink
        <4>3. QED
          BY <4>1, <4>2, LinkRowTyped
      <3>2. CASE ~(request[q].linked /\ s \in LinkedBy(u))
        BY <1>2, <2>1, <3>2 DEF LinksTyped
      <3>3. QED
        BY <3>1, <3>2
    <2>3. QED
      BY <1>2, <2>1, <2>2 DEF LinksTyped
  <1>6. QED
    BY <1>3, <1>4, <1>5, Parts

\* What a registration does: account u, which nobody has had, gets the row of
\* identity s, as it was read and as the invitation was used.
Registers(q, invited, u, s, had, used, row) ==
    /\ request[q].op = "register" /\ request[q].subject = s
    /\ request[q].had = had /\ request[q].used = used
    /\ user[u].role = "NONE" /\ (link[s] = NoLink <=> had = NoLink)
    /\ row = [user |-> u, unlinked |-> FALSE,
              owner |-> IF had = NoLink THEN u ELSE OwnerOf(had),
              consumed |-> used \/ (invited /\ ~used)]
    /\ user' = [user EXCEPT ![u].role = "MEMBER"]
    /\ link' = [link EXCEPT ![s] = row]
    /\ referred' = IF invited /\ ~used THEN referred \cup {u} ELSE referred
    /\ through' = [through EXCEPT ![s] = through[s] \cup {u}]
    /\ displaced' = displaced \cup ({link[s].user} \ {had.user})
    /\ Open(u, session) /\ Answer(q, {u})
    /\ UNCHANGED <<local, released, revoked, left>>

\* There are such an account and identity.
LEMMA RegisterIs ==
    ASSUME TypeOK, NEW q \in Request, NEW invited \in BOOLEAN, CommitRegister(q, invited)
    PROVE  \E u \in User, s \in Subject, had \in LinkRow, used \in BOOLEAN, row \in LinkRow :
               Registers(q, invited, u, s, had, used, row)
  <1>1. PICK v \in User : user[v].role = "NONE"
    BY DEF CommitRegister
  <1>2. PICK u \in User : u = NewUser /\ user[u].role = "NONE"
    BY <1>1, NewUserIs
  <1>3. request[q] \in [op : {"register"}, subject : Subject, had : LinkRow, used : BOOLEAN]
    BY CarriedBy DEF CommitRegister
  <1>4. PICK s \in Subject, had \in LinkRow, used \in BOOLEAN :
            request[q].subject = s /\ request[q].had = had /\ request[q].used = used
    BY <1>3
  <1>5. PICK row : row = [user |-> u, unlinked |-> FALSE,
                          owner |-> IF had = NoLink THEN u ELSE OwnerOf(had),
                          consumed |-> used \/ (invited /\ ~used)]
    OBVIOUS
  <1>6. row \in LinkRow /\ row.user = u
    BY <1>5, OwnerTyped DEF LinkRow
  <1>7. Registers(q, invited, u, s, had, used, row)
    BY <1>2, <1>4, <1>5 DEF CommitRegister, Registers
  <1>8. QED
    BY <1>6, <1>7

\* A registration keeps the types.
LEMMA RegisterTyped ==
    ASSUME TypeOK, NEW q \in Request, NEW invited \in BOOLEAN, CommitRegister(q, invited)
    PROVE  TypeOK'
  <1> PICK u \in User, s \in Subject, had \in LinkRow, used \in BOOLEAN, row \in LinkRow :
          Registers(q, invited, u, s, had, used, row)
    BY RegisterIs
  <1>1. /\ user' = [user EXCEPT ![u].role = "MEMBER"]
        /\ link' = [link EXCEPT ![s] = row] /\ row.user = u
        /\ referred' = IF invited /\ ~used THEN referred \cup {u} ELSE referred
        /\ through' = [through EXCEPT ![s] = through[s] \cup {u}]
        /\ displaced' = displaced \cup ({link[s].user} \ {had.user})
        /\ Open(u, session) /\ Answer(q, {u})
        /\ UNCHANGED <<local, released, revoked, left>>
    BY DEF Registers
  <1>2. request' \in [Request -> Asked]
    BY <1>1, Answered
  <1>3. SessionsTyped'
    BY <1>1, OpenedOne
  <1>4. UsersTyped'
    <2>1. UsersTyped
      BY Parts
    <2>2. user' \in [User -> UserRow]
      BY <1>1, <2>1 DEF UsersTyped, UserRow, Role
    <2>3. QED
      BY <1>1, <2>1, <2>2 DEF UsersTyped
  <1>5. LinksTyped'
    <2>1. LinksTyped
      BY Parts
    <2>2. /\ link' \in [Subject -> LinkRow]
          /\ \A p \in Subject : link'[p].user = NoOne => link'[p] = NoLink
      BY <1>1, <2>1, ConstantsAssumption DEF LinksTyped
    <2>3. through' \in [Subject -> SUBSET User] /\ referred' \subseteq User
      BY <1>1, <2>1 DEF LinksTyped
    <2>4. link[s].user \in User \cup {NoOne}
      BY <2>1 DEF LinksTyped, LinkRow
    <2>5. displaced' \subseteq User \cup {NoOne}
      BY <1>1, <2>1, <2>4 DEF LinksTyped
    <2>6. QED
      BY <1>1, <2>1, <2>2, <2>3, <2>5 DEF LinksTyped
  <1>6. QED
    BY <1>2, <1>3, <1>4, <1>5, Parts

\* What linking does: the account's row, or a new one, is the identity's, and
\* nothing else has a row of the account.
Links(q, u, s, row) ==
    /\ request[q].op = "link" /\ request[q].user = u /\ request[q].subject = s
    /\ link[s].user \in {NoOne, u} /\ row.user = u /\ row.unlinked = FALSE
    /\ \/ LinkedBy(u) = {} /\ row = [NoLink EXCEPT !.user = u]
       \/ \E old \in LinkedBy(u) : row = [link[old] EXCEPT !.unlinked = FALSE]
    /\ link' = [p \in Subject |-> IF p = s THEN row
                                  ELSE IF p \in LinkedBy(u) THEN NoLink ELSE link[p]]
    /\ released' = released \cup (LinkedBy(u) \ {s})
    /\ Answer(q, {})
    /\ UNCHANGED <<local, user, referred, through, displaced, session, revoked, left>>

\* There are such a row, account and identity.
LEMMA LinkIs ==
    ASSUME TypeOK, NEW q \in Request, CommitLink(q)
    PROVE  \E u \in User, s \in Subject, row \in LinkRow : Links(q, u, s, row)
  <1>1. request[q] \in [op : {"link"}, user : User, subject : Subject]
    BY CarriedBy DEF CommitLink
  <1>2. PICK u \in User, s \in Subject :
            request[q].op = "link" /\ request[q].user = u /\ request[q].subject = s
    BY <1>1
  <1>3. PICK row : row = IF LinkedBy(u) = {} THEN [NoLink EXCEPT !.user = u]
                         ELSE [link[CHOOSE p \in LinkedBy(u) : TRUE] EXCEPT !.unlinked = FALSE]
    OBVIOUS
  <1>4. /\ row \in LinkRow /\ row.user = u /\ row.unlinked = FALSE
        /\ \/ LinkedBy(u) = {} /\ row = [NoLink EXCEPT !.user = u]
           \/ \E old \in LinkedBy(u) : row = [link[old] EXCEPT !.unlinked = FALSE]
    <2>1. CASE LinkedBy(u) = {}
      BY <1>3, <2>1 DEF NoLink, LinkRow
    <2>2. CASE LinkedBy(u) # {}
      <3>1. PICK old \in LinkedBy(u) : old = CHOOSE p \in LinkedBy(u) : TRUE
        BY <2>2
      <3>2. row = [link[old] EXCEPT !.unlinked = FALSE]
        BY <1>3, <2>2, <3>1
      <3>3. link[old] \in LinkRow /\ link[old].user = u
        BY UserOfLink
      <3>4. QED
        BY <3>2, <3>3, LinkRowTyped
    <2>3. QED
      BY <2>1, <2>2
  <1>5. /\ link[s].user \in {NoOne, u}
        /\ link' = [p \in Subject |-> IF p = s THEN row
                                      ELSE IF p \in LinkedBy(u) THEN NoLink ELSE link[p]]
        /\ released' = released \cup (LinkedBy(u) \ {s})
        /\ Answer(q, {})
        /\ UNCHANGED <<local, user, referred, through, displaced, session, revoked, left>>
    BY <1>2, <1>3 DEF CommitLink
  <1>6. Links(q, u, s, row)
    BY <1>2, <1>4, <1>5 DEF Links
  <1>7. QED
    BY <1>4, <1>6

\* Linking keeps the types.
LEMMA LinkTyped == ASSUME TypeOK, NEW q \in Request, CommitLink(q) PROVE TypeOK'
  <1> PICK u \in User, s \in Subject, row \in LinkRow : Links(q, u, s, row)
    BY LinkIs
  <1>1. /\ row.user = u
        /\ link' = [p \in Subject |-> IF p = s THEN row
                                      ELSE IF p \in LinkedBy(u) THEN NoLink ELSE link[p]]
        /\ released' = released \cup (LinkedBy(u) \ {s})
        /\ Answer(q, {})
        /\ UNCHANGED <<local, user, referred, through, displaced, session, revoked, left>>
    BY DEF Links
  <1>2. request' \in [Request -> Asked]
    BY <1>1, Answered
  <1>3. LinksTyped'
    <2>1. LinksTyped
      BY Parts
    <2>2. NoLink \in LinkRow
      BY DEF NoLink, LinkRow
    <2>3. /\ link' \in [Subject -> LinkRow]
          /\ \A p \in Subject : link'[p].user = NoOne => link'[p] = NoLink
      BY <1>1, <2>1, <2>2, ConstantsAssumption DEF LinksTyped
    <2>4. LinkedBy(u) \in SUBSET Subject
      BY DEF LinkedBy
    <2>5. QED
      BY <1>1, <2>1, <2>3, <2>4 DEF LinksTyped
  <1>4. UsersTyped' /\ SessionsTyped'
    BY <1>1, Parts DEF UsersTyped, SessionsTyped
  <1>5. QED
    BY <1>2, <1>3, <1>4, Parts

\* Unlinking keeps the types.
LEMMA UnlinkTyped == ASSUME TypeOK, NEW u \in User, Unlink(u) PROVE TypeOK'
  <1>1. PICK s \in LinkedBy(u) : link' = [link EXCEPT ![s].unlinked = TRUE]
    BY DEF Unlink
  <1>2. s \in Subject /\ link[s] \in LinkRow /\ link[s].user = u /\ u # NoOne
    BY UserOfLink
  <1>3. LinksTyped'
    <2>1. LinksTyped
      BY Parts
    <2>2. link' = [link EXCEPT ![s] = [link[s] EXCEPT !.unlinked = TRUE]]
      BY <1>1, <1>2, <2>1 DEF LinksTyped
    <2>3. /\ link' \in [Subject -> LinkRow]
          /\ \A p \in Subject : link'[p].user = NoOne => link'[p] = NoLink
      BY <1>2, <2>1, <2>2, LinkRowTyped DEF LinksTyped
    <2>4. QED
      BY <2>1, <2>3 DEF Unlink, LinksTyped
  <1>4. left' \in [changes : Nat, sessions : Nat, identity : Nat]
    BY Spent DEF Unlink
  <1>5. UsersTyped' /\ SessionsTyped' /\ request' \in [Request -> Asked]
    BY <1>4, Parts DEF Unlink, UsersTyped, SessionsTyped
  <1>6. QED
    BY <1>3, <1>5, Parts

\* Every step keeps the types.
LEMMA TypeStep == TypeOK /\ [Next]_vars => TypeOK'
  <1> SUFFICES ASSUME TypeOK, [Next]_vars PROVE TypeOK'
    OBVIOUS
  <1>1. CASE UNCHANGED vars
    BY <1>1 DEF vars, identities, TypeOK
  <1>2. CASE AskStep
    BY <1>2, BeginsTyped
  <1>3. CASE RowStep
    BY <1>3, RowStepsTyped
  <1>4. CASE IdentityStep
    BY <1>4, CloseTyped, RestoreTyped, LinkTyped, RegisterTyped, UnlinkTyped DEF IdentityStep
  <1>5. QED
    BY <1>1, <1>2, <1>3, <1>4, Steps

\* Every row, session and request has its type, whatever is asked for at once.
THEOREM TypeCorrect == Spec => []TypeOK
  <1>1. QED
    BY TypeInit, TypeStep, PTL DEF Spec

-----------------------------------------------------------------------------
(***************************************************************************)
(* What the snapshots of changes notice.                                   *)
(***************************************************************************)

\* What was written is among W: accounts' rows, and the accounts of sessions
\* that have a second factor now.
Writes(W) ==
    /\ \A v \in User : user'[v] # user[v] => v \in W
    /\ \A i \in SessionId :
           session'[i] # session[i] /\ session'[i].aal = 2 => session'[i].user \in W

\* Sessions that end, or are opened with one factor, have no second factor.
LEMMA FewerFactors ==
    ASSUME TypeOK
    PROVE  /\ \A ids : session' = Without(ids) =>
                  \A i \in SessionId : session'[i] # session[i] => session'[i].aal # 2
           /\ \A u \in User : Open(u, session) =>
                  \A i \in SessionId : session'[i] # session[i] => session'[i].aal # 2
  <1>1. ASSUME NEW ids, session' = Without(ids), NEW i \in SessionId, session'[i] # session[i]
        PROVE  session'[i].aal # 2
    BY <1>1, Ended DEF NoSession
  <1>2. ASSUME NEW u \in User, Open(u, session), NEW i \in SessionId, session'[i] # session[i]
        PROVE  session'[i].aal # 2
    <2>1. session'[i] = Opened(u, 1)
      BY <1>2, OpenedOne
    <2>2. QED
      BY <2>1 DEF Opened
  <1>3. QED
    BY <1>1, <1>2

\* Every step that writes an account's row tells which.
LEMMA WrittenIsTold ==
    ASSUME TypeOK, RowStep \/ IdentityStep
    PROVE  \/ UNCHANGED <<user, session, request>>
           \/ \E q : \E W \in SUBSET (User \cup SessionId) : Answer(q, W) /\ Writes(W)
  <1> DEFINE Told == \E q : \E W \in SUBSET (User \cup SessionId) : Answer(q, W) /\ Writes(W)
  <1> HIDE DEF Told
  <1> USE ConstantsAssumption
  <1>a. ASSUME NEW q, NEW W \in SUBSET (User \cup SessionId), Answer(q, W), Writes(W)
        PROVE  Told
    BY <1>a DEF Told
  <1>1. ASSUME NEW q \in Request, CommitChange(q) PROVE Told
    <2> DEFINE r == request[q]
    <2>1. r.user \in User /\ r.sessions \in SUBSET SessionId
      BY <1>1, CarriedBy DEF CommitChange
    <2>2. /\ user' = [user EXCEPT ![r.user] = Changed(r.rows[r.user], r.to)]
          /\ session' = Without(r.sessions)
          /\ Answer(q, {r.user} \cup r.sessions)
      BY <1>1 DEF CommitChange
    <2>3. Writes({r.user} \cup r.sessions)
      BY <2>1, <2>2, FewerFactors DEF Writes, TypeOK
    <2>4. QED
      BY <2>1, <2>2, <2>3, <1>a
  <1>2. ASSUME NEW q \in Request, CommitLogin(q) PROVE Told
    <2>1. request[q].user \in User
      BY <1>2, CarriedBy DEF CommitLogin
    <2>2. Writes({})
      BY <1>2, <2>1, FewerFactors DEF CommitLogin, Writes
    <2>3. QED
      BY <1>2, <2>2, <1>a DEF CommitLogin
  <1>3. ASSUME NEW q \in Request, CommitStepUp(q) PROVE Told
    <2> DEFINE r == request[q]
    <2>1. r.user \in User /\ r.session \in SessionId
      BY <1>3, CarriedBy DEF CommitStepUp
    <2>2. /\ session' = [session EXCEPT ![r.session] = Opened(r.user, 2)]
          /\ Answer(q, {r.session, r.user}) /\ UNCHANGED user
      BY <1>3 DEF CommitStepUp, StepUpWrites
    <2>3. Writes({r.session, r.user})
      BY <2>1, <2>2 DEF Writes, Opened, TypeOK
    <2>4. QED
      BY <2>1, <2>2, <2>3, <1>a
  <1>4. ASSUME NEW q \in Request, GiveUp(q) PROVE Told
    BY <1>4, <1>a DEF GiveUp, Writes
  <1>5. ASSUME NEW i \in SessionId, EndSession(i) PROVE Told
    <2>1. Writes({i})
      BY <1>5, FewerFactors DEF EndSession, Writes
    <2>2. QED
      BY <1>5, <2>1, <1>a DEF EndSession, AtOnce
  <1>6. ASSUME NEW u \in User, VerifyFallback(u) PROVE Told
    <2>1. Writes({u})
      BY <1>6, FewerFactors DEF VerifyFallback, Writes, TypeOK
    <2>2. QED
      BY <1>6, <2>1, <1>a DEF VerifyFallback, AtOnce
  <1>7. ASSUME NEW u \in User, ResetPassword(u) PROVE Told
    <2>1. Writes({u} \cup SessionsOf(u))
      BY <1>7, FewerFactors DEF ResetPassword, Writes
    <2>2. SessionsOf(u) \in SUBSET SessionId
      BY DEF SessionsOf
    <2>3. QED
      BY <1>7, <2>1, <2>2, <1>a DEF ResetPassword, AtOnce
  <1>8. ASSUME NEW u \in User, EnrolBackup(u) PROVE Told
    <2>1. Writes({u})
      BY <1>8 DEF EnrolBackup, Writes, TypeOK
    <2>2. QED
      BY <1>8, <2>1, <1>a DEF EnrolBackup, AtOnce
  <1>9. ASSUME NEW u \in User, RevokeBackup(u) PROVE Told
    <2>1. Writes({u} \cup SessionsOf(u))
      BY <1>9, FewerFactors DEF RevokeBackup, Writes, TypeOK
    <2>2. SessionsOf(u) \in SUBSET SessionId
      BY DEF SessionsOf
    <2>3. QED
      BY <1>9, <2>1, <2>2, <1>a DEF RevokeBackup, AtOnce
  <1>10. ASSUME NEW q \in Request, CommitClose(q) PROVE Told
    <2> DEFINE u == request[q].user
    <2>1. u \in User /\ SessionsOf(u) \in SUBSET SessionId
      BY <1>10, CarriedBy DEF CommitClose, SessionsOf
    <2>2. /\ user' = [user EXCEPT ![u].disabled = TRUE, ![u].closed = TRUE]
          /\ session' = Without(SessionsOf(u)) /\ Answer(q, {u} \cup SessionsOf(u))
      BY <1>10 DEF CommitClose
    <2>3. Writes({u} \cup SessionsOf(u))
      BY <2>1, <2>2, FewerFactors DEF Writes, TypeOK
    <2>4. QED
      BY <2>1, <2>2, <2>3, <1>a
  <1>11. ASSUME NEW q \in Request, CommitRestore(q) PROVE Told
    <2> DEFINE u == request[q].user
    <2>1. u \in User
      BY <1>11, CarriedBy DEF CommitRestore
    <2>2. /\ user' = [user EXCEPT ![u].disabled = FALSE]
          /\ Answer(q, {u}) /\ UNCHANGED session
      BY <1>11 DEF CommitRestore
    <2>3. Writes({u})
      BY <2>1, <2>2 DEF Writes, TypeOK
    <2>4. QED
      BY <2>1, <2>2, <2>3, <1>a
  <1>12. ASSUME NEW q \in Request, NEW invited \in BOOLEAN, CommitRegister(q, invited) PROVE Told
    <2>1. PICK u \in User, s \in Subject, had \in LinkRow, used \in BOOLEAN, row \in LinkRow :
              Registers(q, invited, u, s, had, used, row)
      BY <1>12, RegisterIs
    <2>2. /\ user' = [user EXCEPT ![u].role = "MEMBER"] /\ Open(u, session) /\ Answer(q, {u})
      BY <2>1 DEF Registers
    <2>3. Writes({u})
      BY <2>2, FewerFactors DEF Writes, TypeOK
    <2>4. QED
      BY <2>2, <2>3, <1>a
  <1>13. ASSUME NEW q \in Request, CommitLink(q) PROVE Told
    <2>1. PICK u \in User, s \in Subject, row \in LinkRow : Links(q, u, s, row)
      BY <1>13, LinkIs
    <2>2. Writes({}) /\ Answer(q, {})
      BY <2>1 DEF Links, Writes
    <2>3. QED
      BY <2>2, <1>a
  <1>14. ASSUME NEW u \in User, Unlink(u) PROVE UNCHANGED <<user, session, request>>
    BY <1>14 DEF Unlink
  <1>15. Told \/ UNCHANGED <<user, session, request>>
    BY <1>1, <1>2, <1>3, <1>4, <1>5, <1>6, <1>7, <1>8, <1>9, <1>10, <1>11, <1>12, <1>13, <1>14
    DEF RowStep, IdentityStep
  <1>16. QED
    BY <1>15 DEF Told

\* The change that was asked for before a step is the one that waits after it,
\* but for what it noticed.
SameChange(q, W) ==
    /\ request[q].op = "change"
    /\ request'[q].user = request[q].user /\ request'[q].to = request[q].to
    /\ request'[q].rows = request[q].rows /\ request'[q].sessions = request[q].sessions
    /\ request'[q].written = request[q].written \cup W

\* A change that is asked for has read the rows and sessions as they are.
NewChange(q) ==
    /\ UNCHANGED <<user, session>>
    /\ request'[q].rows = user
    /\ request'[q].sessions = SessionsOf(request'[q].user)
    /\ Permitted(request'[q].rows[request'[q].user], request'[q].to)

\* A change that waits has just been asked for, or notices what is written.
LEMMA Noticed ==
    ASSUME TypeOK, [Next]_vars, NEW q \in Request, request'[q].op = "change"
    PROVE  \/ NewChange(q)
           \/ \E W : SameChange(q, W) /\ Writes(W)
  <1>1. ASSUME UNCHANGED <<user, session>>, request'[q] = request[q]
        PROVE  \E W : SameChange(q, W) /\ Writes(W)
    BY <1>1 DEF SameChange, Writes
  <1>2. CASE UNCHANGED vars
    BY <1>1, <1>2 DEF vars
  <1>3. CASE AskStep
    <2>1. PICK p \in Request :
              \/ \E u \in User :
                  \/ \E to \in Target : BeginChange(p, u, to)
                  \/ BeginLogin(p, u) \/ BeginClose(p, u) \/ BeginRestore(p, u)
                  \/ \E s \in Subject : BeginLink(p, u, s)
              \/ \E i \in SessionId : BeginStepUp(p, i)
              \/ \E s \in Subject : BeginRegister(p, s)
      BY <1>3 DEF AskStep
    <2>2. UNCHANGED <<user, session>>
      BY <2>1 DEF BeginChange, BeginLogin, BeginClose, BeginRestore, BeginLink, BeginStepUp,
                  BeginRegister
    <2>3. CASE p # q
      <3>1. request'[q] = request[q]
        BY <2>1, <2>3 DEF BeginChange, BeginLogin, BeginClose, BeginRestore, BeginLink,
                          BeginStepUp, BeginRegister, Ask, TypeOK
      <3>2. QED
        BY <1>1, <2>2, <3>1
    <2>4. CASE p = q
      <3>1. PICK u \in User, to \in Target : BeginChange(q, u, to)
        BY <2>1, <2>4 DEF BeginLogin, BeginClose, BeginRestore, BeginLink, BeginStepUp,
                          BeginRegister, Ask, TypeOK
      <3>2. request'[q] = [op |-> "change", user |-> u, to |-> to, rows |-> user,
                           sessions |-> SessionsOf(u), written |-> {}]
        BY <3>1 DEF BeginChange, Ask, TypeOK
      <3>3. Permitted(user[u], to)
        BY <3>1 DEF BeginChange
      <3>4. QED
        BY <2>2, <3>2, <3>3 DEF NewChange
    <2>5. QED
      BY <2>3, <2>4
  <1>4. CASE RowStep \/ IdentityStep
    <2>1. CASE UNCHANGED <<user, session, request>>
      BY <1>1, <2>1
    <2>2. CASE \E p : \E W \in SUBSET (User \cup SessionId) : Answer(p, W) /\ Writes(W)
      <3>1. PICK p : \E W \in SUBSET (User \cup SessionId) : Answer(p, W) /\ Writes(W)
        BY <2>2
      <3>2. PICK W \in SUBSET (User \cup SessionId) : Answer(p, W) /\ Writes(W)
        BY <3>1
      <3>3. /\ request[q].op = "change"
            /\ request'[q] = [request[q] EXCEPT !.written = request[q].written \cup W]
        BY <3>2, Answered DEF Idle
      <3>4. request[q] \in [op : {"change"}, user : User, to : Target,
                            rows : [User -> UserRow], sessions : SUBSET SessionId,
                            written : SUBSET (User \cup SessionId)]
        BY <3>3, CarriedBy
      <3>5. SameChange(q, W)
        BY <3>3, <3>4 DEF SameChange
      <3>6. QED
        BY <3>2, <3>5
    <2>3. QED
      BY <1>4, <2>1, <2>2, WrittenIsTold
  <1>5. QED
    BY <1>2, <1>3, <1>4, Steps

\* A snapshot is current but for the rows it noticed, and permits its change.
SnapshotInv ==
    \A q \in Request : request[q].op = "change" =>
        /\ Permitted(request[q].rows[request[q].user], request[q].to)
        /\ \A v \in User : v \notin request[q].written => user[v] = request[q].rows[v]

\* At first nothing is asked for.
LEMMA SnapshotInit == Init => SnapshotInv
  BY DEF Init, SnapshotInv, Idle

\* Every step that writes a row is noticed.
LEMMA SnapshotStep == TypeOK /\ SnapshotInv /\ [Next]_vars => SnapshotInv'
  <1> SUFFICES ASSUME TypeOK, SnapshotInv, [Next]_vars, NEW q \in Request,
                      request'[q].op = "change"
               PROVE  /\ Permitted(request'[q].rows[request'[q].user], request'[q].to)
                      /\ \A v \in User : v \notin request'[q].written =>
                             user'[v] = request'[q].rows[v]
    BY DEF SnapshotInv, Permitted
  <1>1. CASE NewChange(q)
    BY <1>1 DEF NewChange
  <1>2. CASE \E W : SameChange(q, W) /\ Writes(W)
    <2>1. PICK W : SameChange(q, W) /\ Writes(W)
      BY <1>2
    <2>2. QED
      BY <2>1 DEF SameChange, Writes, SnapshotInv
  <1>3. QED
    BY <1>1, <1>2, Noticed

-----------------------------------------------------------------------------
(***************************************************************************)
(* Continuity of administration.                                           *)
(***************************************************************************)

\* Two of a set stay two in a larger set.
LEMMA TwoStay ==
    ASSUME NEW S \in SUBSET User, NEW T \in SUBSET S, Cardinality(T) >= 2
    PROVE  Cardinality(S) >= 2
  <1>1. IsFiniteSet(S)
    BY ConstantsAssumption, FS_Subset
  <1>2. Cardinality(T) <= Cardinality(S) /\ Cardinality(S) \in Nat /\ Cardinality(T) \in Nat
    BY <1>1, FS_Subset, FS_CardinalityType
  <1>3. QED
    BY <1>2

\* What remains for a change that is committed is there after it: it locked the
\* administrators it counted, and their rows are as it read them.
LEMMA CountedRemain ==
    ASSUME TypeOK, SnapshotInv, NEW q \in Request, CommitChange(q),
           NEW u \in Administrators(user), u \notin Administrators(user')
    PROVE  Continues(user', Administrators(user'))
  <1>1. PICK r : r = request[q]
    OBVIOUS
  <1>2. r \in [op : {"change"}, user : User, to : Target, rows : [User -> UserRow],
               sessions : SUBSET SessionId, written : SUBSET (User \cup SessionId)]
    BY <1>1, CarriedBy DEF CommitChange
  <1>3. /\ r.written \cap (LockedToCount(r) \cup r.sessions) = {}
        /\ r.rows[r.user].role = "ADMIN" /\ r.to # "enabled" =>
               Continues(r.rows, Administrators(r.rows) \ {r.user})
        /\ user' = [user EXCEPT ![r.user] = Changed(r.rows[r.user], r.to)]
        /\ UNCHANGED local
    BY <1>1 DEF CommitChange
  <1>4. r.user \in LockedToCount(r)
    BY DEF LockedToCount
  <1>5. user[r.user] = r.rows[r.user]
    BY <1>1, <1>2, <1>3, <1>4 DEF SnapshotInv
  <1>6. u = r.user
    BY <1>2, <1>3 DEF Administrators, TypeOK
  <1>7. r.rows[r.user].role = "ADMIN" /\ ~r.rows[r.user].disabled
    BY <1>5, <1>6 DEF Administrators
  <1>8. r.to # "enabled"
    <2>1. SUFFICES ASSUME r.to = "enabled" PROVE FALSE
      OBVIOUS
    <2>2. r.rows[r.user] \in UserRow
      BY <1>2
    <2>3. Permitted(r.rows[r.user], r.to)
      BY <1>1, <1>2 DEF SnapshotInv
    <2>4. QED
      BY <1>7, <2>1, <2>3 DEF Permitted
  <1> DEFINE remaining == Administrators(r.rows) \ {r.user}
  <1>9. Continues(r.rows, remaining)
    BY <1>3, <1>7, <1>8
  <1>10. Administrators(r.rows) \subseteq LockedToCount(r)
    BY <1>7, <1>8 DEF LockedToCount
  <1>11. ASSUME NEW a \in remaining
         PROVE  user'[a] = r.rows[a] /\ a \in Administrators(user')
    <2>1. a \in User /\ a # r.user /\ r.rows[a].role = "ADMIN" /\ ~r.rows[a].disabled
      BY DEF Administrators
    <2>2. a \notin r.written
      BY <1>3, <1>10, <2>1
    <2>3. user[a] = r.rows[a]
      BY <1>1, <1>2, <2>1, <2>2 DEF SnapshotInv
    <2>4. user'[a] = user[a]
      BY <1>3, <2>1 DEF TypeOK
    <2>5. QED
      BY <2>1, <2>3, <2>4 DEF Administrators
  <1> HIDE DEF remaining
  <1>12. Administrators(user') \in SUBSET User
    BY DEF Administrators
  <1>13. Cardinality(Administrators(user')) >= 2
    BY <1>9, <1>11, <1>12, TwoStay DEF Continues
  <1>14. ASSUME ~local'
         PROVE  Cardinality({a \in Administrators(user') : user'[a].ready}) >= 2
    <2>1. Cardinality({a \in remaining : r.rows[a].ready}) >= 2
      BY <1>3, <1>9, <1>14 DEF Continues
    <2>2. {a \in remaining : r.rows[a].ready} \subseteq
              {a \in Administrators(user') : user'[a].ready}
      BY <1>11
    <2>3. QED
      BY <1>12, <2>1, <2>2, TwoStay
  <1>15. QED
    BY <1>3, <1>13, <1>14 DEF Continues

\* No other step but a closure takes an administrator away.
LEMMA AdministratorsStay ==
    ASSUME TypeOK, [Next]_vars, NEW u \in Administrators(user), u \notin Administrators(user')
    PROVE  (user'[u].closed /\ user'[u].disabled) \/ \E q \in Request : CommitChange(q)
  <1>1. u \in User /\ user[u] \in UserRow /\ user[u].role = "ADMIN" /\ ~user[u].disabled
    BY DEF Administrators, TypeOK
  <1>2. user'[u].role # "ADMIN" \/ user'[u].disabled
    BY <1>1 DEF Administrators
  <1>3. user' # user
    BY DEF Administrators
  <1>4. CASE AskStep
    BY <1>3, <1>4 DEF AskStep, BeginChange, BeginLogin, BeginClose, BeginRestore, BeginLink,
                      BeginStepUp, BeginRegister
  <1>5. CASE RowStep
    <2>1. ASSUME NEW v \in User,
                 VerifyFallback(v) \/ ResetPassword(v) \/ EnrolBackup(v) \/ RevokeBackup(v)
          PROVE  FALSE
      <3>1. \/ user' = user \/ user' = [user EXCEPT ![v].fallback = TRUE]
            \/ user' = [user EXCEPT ![v].ready = TRUE]
            \/ user' = [user EXCEPT ![v].ready = FALSE]
        BY <2>1 DEF VerifyFallback, ResetPassword, EnrolBackup, RevokeBackup
      <3>2. user'[u].role = user[u].role /\ user'[u].disabled = user[u].disabled
        BY <1>1, <3>1 DEF TypeOK, UserRow
      <3>3. QED
        BY <1>1, <1>2, <3>2
    <2>2. QED
      BY <1>3, <1>5, <2>1 DEF RowStep, CommitLogin, CommitStepUp, GiveUp, EndSession
  <1>6. CASE IdentityStep
    <2>1. ASSUME NEW q \in Request, CommitClose(q)
          PROVE  user'[u].closed /\ user'[u].disabled
      <3>1. request[q].user \in User
        BY <2>1, CarriedBy DEF CommitClose
      <3>2. user' = [user EXCEPT ![request[q].user].disabled = TRUE,
                                 ![request[q].user].closed = TRUE]
        BY <2>1 DEF CommitClose
      <3>3. QED
        BY <1>1, <1>2, <3>1, <3>2 DEF TypeOK, UserRow
    <2>2. ASSUME NEW q \in Request, CommitRestore(q)
          PROVE  FALSE
      <3>1. request[q].user \in User
        BY <2>2, CarriedBy DEF CommitRestore
      <3>2. user' = [user EXCEPT ![request[q].user].disabled = FALSE]
        BY <2>2 DEF CommitRestore
      <3>3. QED
        BY <1>1, <1>2, <3>1, <3>2 DEF TypeOK, UserRow
    <2>3. ASSUME NEW q \in Request, NEW invited \in BOOLEAN, CommitRegister(q, invited)
          PROVE  FALSE
      <3>1. PICK v \in User, s \in Subject, had \in LinkRow, used \in BOOLEAN, row \in LinkRow :
                Registers(q, invited, v, s, had, used, row)
        BY <2>3, RegisterIs
      <3>2. user[v].role = "NONE" /\ user' = [user EXCEPT ![v].role = "MEMBER"]
        BY <3>1 DEF Registers
      <3>3. QED
        BY <1>1, <1>2, <3>2 DEF TypeOK, UserRow
    <2>4. ASSUME NEW q \in Request, CommitLink(q)
          PROVE  FALSE
      BY <1>3, <2>4, LinkIs DEF Links
    <2>5. QED
      BY <1>3, <1>6, <2>1, <2>2, <2>3, <2>4 DEF IdentityStep, Unlink
  <1>7. CASE UNCHANGED vars
    BY <1>3, <1>7 DEF vars
  <1>8. QED
    BY <1>4, <1>5, <1>6, <1>7, Steps

\* Two ready administrators stay whoever is suspended or demoted, however many
\* administrators change each other at once (staff.controller.ts,
\* admin-continuity.controller.ts).
THEOREM ContinuityKeptCorrect == Spec => ContinuityKept
  <1>1. TypeOK /\ SnapshotInv /\ [Next]_vars =>
            [\A u \in Administrators(user) \ Administrators(user') :
                \/ user'[u].closed /\ user'[u].disabled
                \/ Continues(user', Administrators(user'))]_vars
    BY AdministratorsStay, CountedRemain
  <1>2. QED
    BY <1>1, TypeInit, TypeStep, SnapshotInit, SnapshotStep, PTL DEF Spec, ContinuityKept

-----------------------------------------------------------------------------
(***************************************************************************)
(* Sessions with a second factor.                                          *)
(***************************************************************************)

\* A session with a second factor is current, and a change of its account has
\* seen it, or has noticed that one was stepped up since.
SteppedUpInv ==
    /\ SteppedUpIsCurrent
    /\ \A q \in Request : request[q].op = "change" =>
           \A i \in SessionId :
               session[i].aal = 2 /\ session[i].user = request[q].user =>
                   i \in request[q].sessions \/ request[q].user \in request[q].written

\* At first there are no sessions.
LEMMA SteppedUpInit == Init => SteppedUpInv
  BY DEF Init, SteppedUpInv, SteppedUpIsCurrent, Idle, NoSession

\* A change still has seen a session, or has noticed it.
LEMMA SeenOrNoticed ==
    ASSUME TypeOK, SteppedUpInv, [Next]_vars, NEW q \in Request, request'[q].op = "change",
           NEW i \in SessionId, session'[i].aal = 2, session'[i].user = request'[q].user
    PROVE  i \in request'[q].sessions \/ request'[q].user \in request'[q].written
  <1>1. CASE NewChange(q)
    BY <1>1 DEF NewChange, SessionsOf
  <1>2. CASE \E W : SameChange(q, W) /\ Writes(W)
    <2>1. PICK W : SameChange(q, W) /\ Writes(W)
      BY <1>2
    <2>2. CASE session'[i] = session[i]
      BY <2>1, <2>2 DEF SameChange, SteppedUpInv
    <2>3. CASE session'[i] # session[i]
      BY <2>1, <2>3 DEF SameChange, Writes
    <2>4. QED
      BY <2>2, <2>3
  <1>3. QED
    BY <1>1, <1>2, Noticed

\* Where sessions are revoked, none with a second factor is left.
LEMMA NoneLeft ==
    ASSUME TypeOK, SteppedUpIsCurrent, NEW u \in User, NEW ids,
           \A i \in SessionId : session[i].aal = 2 /\ session[i].user = u => i \in ids,
           session' = Without(ids), revoked' = [revoked EXCEPT ![u] = @ + 1]
    PROVE  SteppedUpIsCurrent'
  <1> SUFFICES ASSUME NEW i \in SessionId, session'[i].aal = 2
               PROVE  session'[i].since = revoked'[session'[i].user]
    BY DEF SteppedUpIsCurrent
  <1>1. i \notin ids /\ session'[i] = session[i]
    BY Ended DEF NoSession
  <1>2. session[i].user # u /\ session[i].since = revoked[session[i].user]
    BY <1>1 DEF SteppedUpIsCurrent
  <1>3. session[i].user \in User
    BY <1>1 DEF TypeOK, Session, NoSession
  <1>4. revoked'[session[i].user] = revoked[session[i].user]
    BY <1>2, <1>3 DEF TypeOK
  <1>5. QED
    BY <1>1, <1>2, <1>4

\* Where none is revoked, sessions that end or are opened anew change nothing.
LEMMA NoneRevoked ==
    ASSUME TypeOK, SteppedUpIsCurrent, UNCHANGED revoked,
           \A i \in SessionId : session'[i] # session[i] => session'[i].aal # 2
    PROVE  SteppedUpIsCurrent'
  BY DEF SteppedUpIsCurrent

\* Every step keeps them current.
LEMMA SteppedUpStep == TypeOK /\ SteppedUpInv /\ [Next]_vars => SteppedUpInv'
  <1> SUFFICES ASSUME TypeOK, SteppedUpInv, [Next]_vars PROVE SteppedUpIsCurrent'
    BY SeenOrNoticed DEF SteppedUpInv
  <1>0. SteppedUpIsCurrent
    BY DEF SteppedUpInv
  <1>1. CASE UNCHANGED <<session, revoked>>
    BY <1>0, <1>1, NoneRevoked
  <1>2. ASSUME NEW q \in Request, CommitChange(q) PROVE SteppedUpIsCurrent'
    <2>1. PICK r : r = request[q]
      OBVIOUS
    <2>2. r.user \in User
      BY <1>2, <2>1, CarriedBy DEF CommitChange
    <2>3. /\ r.written \cap (LockedToCount(r) \cup r.sessions) = {}
          /\ session' = Without(r.sessions)
          /\ revoked' = [revoked EXCEPT ![r.user] = @ + 1]
      BY <1>2, <2>1 DEF CommitChange
    <2>4. r.user \notin r.written
      BY <2>3 DEF LockedToCount
    <2>5. \A i \in SessionId : session[i].aal = 2 /\ session[i].user = r.user => i \in r.sessions
      BY <1>2, <2>1, <2>4 DEF SteppedUpInv, CommitChange
    <2>6. QED
      BY <1>0, <2>2, <2>3, <2>5, NoneLeft
  <1>3. ASSUME NEW q \in Request, CommitLogin(q) PROVE SteppedUpIsCurrent'
    BY <1>0, <1>3, CarriedBy, FewerFactors, NoneRevoked DEF CommitLogin
  <1>4. ASSUME NEW q \in Request, CommitStepUp(q) PROVE SteppedUpIsCurrent'
    <2>1. PICK r : r = request[q]
      OBVIOUS
    <2>2. /\ session' = [session EXCEPT ![r.session] = Opened(r.user, 2)]
          /\ UNCHANGED revoked
      BY <1>4, <2>1 DEF CommitStepUp
    <2>3. QED
      BY <1>0, <2>2 DEF SteppedUpIsCurrent, Opened, TypeOK
  <1>5. ASSUME NEW i \in SessionId, EndSession(i) PROVE SteppedUpIsCurrent'
    BY <1>0, <1>5, FewerFactors, NoneRevoked DEF EndSession
  <1>6. ASSUME NEW u \in User, VerifyFallback(u) PROVE SteppedUpIsCurrent'
    BY <1>0, <1>6, FewerFactors, NoneRevoked DEF VerifyFallback
  <1>7. ASSUME NEW u \in User, ResetPassword(u) \/ RevokeBackup(u) PROVE SteppedUpIsCurrent'
    <2>1. \A i \in SessionId : session[i].aal = 2 /\ session[i].user = u => i \in SessionsOf(u)
      BY DEF SessionsOf
    <2>2. /\ session' = Without(SessionsOf(u))
          /\ revoked' = [revoked EXCEPT ![u] = @ + 1]
      BY <1>7 DEF ResetPassword, RevokeBackup
    <2>3. QED
      BY <1>0, <2>1, <2>2, NoneLeft
  <1>8. ASSUME NEW q \in Request, CommitClose(q) PROVE SteppedUpIsCurrent'
    <2>1. PICK u : u = request[q].user
      OBVIOUS
    <2>2. u \in User
      BY <1>8, <2>1, CarriedBy DEF CommitClose
    <2>3. \A i \in SessionId : session[i].aal = 2 /\ session[i].user = u => i \in SessionsOf(u)
      BY DEF SessionsOf
    <2>4. /\ session' = Without(SessionsOf(u))
          /\ revoked' = [revoked EXCEPT ![u] = @ + 1]
      BY <1>8, <2>1 DEF CommitClose
    <2>5. QED
      BY <1>0, <2>2, <2>3, <2>4, NoneLeft
  <1>9. ASSUME NEW q \in Request, NEW invited \in BOOLEAN, CommitRegister(q, invited)
        PROVE  SteppedUpIsCurrent'
    <2>1. PICK u \in User, s \in Subject, had \in LinkRow, used \in BOOLEAN, row \in LinkRow :
              Registers(q, invited, u, s, had, used, row)
      BY <1>9, RegisterIs
    <2>2. Open(u, session) /\ UNCHANGED revoked
      BY <2>1 DEF Registers
    <2>3. QED
      BY <1>0, <2>2, FewerFactors, NoneRevoked
  <1>10. CASE AskStep
    BY <1>1, <1>10 DEF AskStep, BeginChange, BeginLogin, BeginClose, BeginRestore, BeginLink,
                       BeginStepUp, BeginRegister
  <1>11. CASE RowStep
    BY <1>1, <1>2, <1>3, <1>4, <1>5, <1>6, <1>7, <1>11 DEF RowStep, GiveUp, EnrolBackup
  <1>12. CASE IdentityStep
    <2>1. ASSUME NEW q \in Request, CommitRestore(q) PROVE SteppedUpIsCurrent'
      BY <1>1, <2>1 DEF CommitRestore
    <2>2. ASSUME NEW q \in Request, CommitLink(q) PROVE SteppedUpIsCurrent'
      BY <1>1, <2>2, LinkIs DEF Links
    <2>3. ASSUME NEW u \in User, Unlink(u) PROVE SteppedUpIsCurrent'
      BY <1>1, <2>3 DEF Unlink
    <2>4. QED
      BY <1>8, <1>9, <1>12, <2>1, <2>2, <2>3 DEF IdentityStep
  <1>13. CASE UNCHANGED vars
    BY <1>1, <1>13 DEF vars
  <1>14. QED
    BY <1>10, <1>11, <1>12, <1>13, Steps

\* A session with a second factor does not outlive a change of its account, a
\* new password or a factor given up (auth-*.service.ts, staff.controller.ts).
THEOREM SteppedUpIsCurrentCorrect == Spec => []SteppedUpIsCurrent
  <1>1. SteppedUpInv => SteppedUpIsCurrent
    BY DEF SteppedUpInv
  <1>2. QED
    BY <1>1, TypeInit, TypeStep, SteppedUpInit, SteppedUpStep, PTL DEF Spec

-----------------------------------------------------------------------------
(***************************************************************************)
(* Accounts and requests about identities.                                 *)
(***************************************************************************)

\* Somebody has had the account.
Registered(u) == user[u].role # "NONE"

\* Steps that leave identities alone register nobody, close nobody, take no
\* other way to log in away, and enable only who has one.
LEMMA RowsKept ==
    ASSUME TypeOK, SnapshotInv, AskStep \/ RowStep \/ UNCHANGED vars
    PROVE  /\ UNCHANGED identities
           /\ \A u \in User :
                  /\ Registered(u)' <=> Registered(u)
                  /\ user'[u].closed = user[u].closed
                  /\ user[u].fallback => user'[u].fallback
                  /\ user[u].disabled /\ ~user[u].fallback => user'[u].disabled
  <1> DEFINE Kept == /\ UNCHANGED identities
                     /\ \A u \in User :
                            /\ Registered(u)' <=> Registered(u)
                            /\ user'[u].closed = user[u].closed
                            /\ user[u].fallback => user'[u].fallback
                            /\ user[u].disabled /\ ~user[u].fallback => user'[u].disabled
  <1>1. CASE UNCHANGED <<user, identities>>
    BY <1>1 DEF Registered
  <1>2. CASE AskStep
    BY <1>1, <1>2 DEF AskStep, BeginChange, BeginLogin, BeginClose, BeginRestore, BeginLink,
                      BeginStepUp, BeginRegister
  <1>3. CASE UNCHANGED vars
    BY <1>1, <1>3 DEF vars, identities
  <1>4. ASSUME NEW q \in Request, CommitChange(q) PROVE Kept
    <2>1. PICK r : r = request[q]
      OBVIOUS
    <2>2. /\ r.user \in User /\ r.to \in Target /\ r.rows[r.user] \in UserRow
      BY <1>4, <2>1, CarriedBy DEF CommitChange
    <2>3. /\ r.written \cap (LockedToCount(r) \cup r.sessions) = {}
          /\ user' = [user EXCEPT ![r.user] = Changed(r.rows[r.user], r.to)]
          /\ UNCHANGED identities
      BY <1>4, <2>1 DEF CommitChange
    <2>4. r.user \notin r.written
      BY <2>3 DEF LockedToCount
    <2>5. user[r.user] = r.rows[r.user] /\ Permitted(user[r.user], r.to)
      BY <1>4, <2>1, <2>2, <2>4 DEF SnapshotInv, CommitChange
    <2>6. /\ user[r.user].fallback /\ user[r.user].role # "NONE"
          /\ r.to \notin {"suspended", "enabled"} => r.to # "NONE"
      BY <2>2, <2>5 DEF Permitted, Target
    <2>7. /\ user'[r.user].fallback = user[r.user].fallback
          /\ user'[r.user].closed = user[r.user].closed
          /\ user'[r.user].role # "NONE"
      <3>1. PICK row \in UserRow : row = user[r.user] /\ row = r.rows[r.user]
        BY <2>2, <2>5
      <3>2. user'[r.user] = Changed(row, r.to)
        BY <2>2, <2>3, <3>1 DEF TypeOK
      <3>3. /\ Changed(row, r.to).fallback = row.fallback
            /\ Changed(row, r.to).closed = row.closed
            /\ Changed(row, r.to).role = IF r.to \in {"suspended", "enabled"} THEN row.role
                                         ELSE r.to
        BY <2>2, ChangedTyped
      <3>4. QED
        BY <2>6, <3>1, <3>2, <3>3
    <2>8. \A u \in User : u # r.user => user'[u] = user[u]
      BY <2>3 DEF TypeOK
    <2>9. QED
      BY <2>3, <2>6, <2>7, <2>8 DEF Registered
  <1>5. ASSUME NEW u \in User,
               VerifyFallback(u) \/ ResetPassword(u) \/ EnrolBackup(u) \/ RevokeBackup(u)
        PROVE  Kept
    <2>1. /\ \/ user' = user \/ user' = [user EXCEPT ![u].fallback = TRUE]
             \/ user' = [user EXCEPT ![u].ready = TRUE]
             \/ user' = [user EXCEPT ![u].ready = FALSE]
          /\ UNCHANGED identities
      BY <1>5 DEF VerifyFallback, ResetPassword, EnrolBackup, RevokeBackup
    <2>2. \A v \in User :
              /\ user'[v].role = user[v].role /\ user'[v].disabled = user[v].disabled
              /\ user'[v].closed = user[v].closed /\ (user[v].fallback => user'[v].fallback)
      BY <2>1 DEF TypeOK, UserRow
    <2>3. QED
      BY <2>1, <2>2 DEF Registered
  <1>6. CASE RowStep
    BY <1>1, <1>4, <1>5, <1>6 DEF RowStep, CommitLogin, CommitStepUp, GiveUp, EndSession
  <1>7. QED
    BY <1>2, <1>3, <1>6

\* What is asked for about identities is as it is when it is asked for.
Posing(q) ==
    /\ UNCHANGED <<user, identities>>
    /\ \A p \in Request : p # q => request'[p] = request[p]
    /\ request'[q].op = "register" =>
           \E s \in Subject :
               /\ Registrable(link[s])
               /\ \A p \in Request : request[p].op = "register" => request[p].subject # s
               /\ request'[q] = [op |-> "register", subject |-> s, had |-> link[s],
                                 used |-> ReferralUsed(link[s])]
    /\ request'[q].op = "restore" =>
           \E u \in User :
               /\ user[u].closed
               /\ request'[q] = [op |-> "restore", user |-> u, linked |-> LinkedBy(u) # {}]
    /\ request'[q].op = "link" => Registered(request'[q].user)

\* Requests about identities were asked for before, or are asked for now.
LEMMA Waiting ==
    ASSUME TypeOK, [Next]_vars
    PROVE  \/ \A p \in Request : request'[p].op \in {"register", "restore", "link"} =>
                                     request'[p] = request[p]
           \/ \E q \in Request : Posing(q)
  <1>1. CASE UNCHANGED vars
    BY <1>1 DEF vars
  <1>2. CASE AskStep
    <2>1. PICK q \in Request :
              \/ \E u \in User :
                  \/ \E to \in Target : BeginChange(q, u, to)
                  \/ BeginLogin(q, u) \/ BeginClose(q, u) \/ BeginRestore(q, u)
                  \/ \E s \in Subject : BeginLink(q, u, s)
              \/ \E i \in SessionId : BeginStepUp(q, i)
              \/ \E s \in Subject : BeginRegister(q, s)
      BY <1>2 DEF AskStep
    <2> DEFINE Others == \A p \in Request : p # q => request'[p] = request[p]
    <2>2. /\ UNCHANGED <<user, identities>>
          /\ \E asked : Ask(q, asked)
      BY <2>1 DEF BeginChange, BeginLogin, BeginClose, BeginRestore, BeginLink, BeginStepUp,
                  BeginRegister
    <2>3. Others
      BY <2>2 DEF Ask, TypeOK
    <2>4. ASSUME request'[q].op \notin {"register", "restore", "link"} PROVE Posing(q)
      BY <2>2, <2>3, <2>4 DEF Posing
    <2>5. ASSUME NEW u \in User, NEW to \in Target, BeginChange(q, u, to) PROVE Posing(q)
      <3>1. request'[q].op = "change"
        BY <2>5 DEF BeginChange, Ask, TypeOK
      <3>2. QED
        BY <2>4, <3>1
    <2>6. ASSUME NEW i \in SessionId, BeginStepUp(q, i) PROVE Posing(q)
      <3>1. request'[q].op = "stepUp"
        BY <2>6 DEF BeginStepUp, Ask, TypeOK
      <3>2. QED
        BY <2>4, <3>1
    <2>7. ASSUME NEW u \in User, BeginRestore(q, u) PROVE Posing(q)
      <3>1. /\ request'[q] = [op |-> "restore", user |-> u, linked |-> LinkedBy(u) # {}]
            /\ user[u].closed
        BY <2>7 DEF BeginRestore, Ask, TypeOK
      <3>2. request'[q].op = "restore"
        BY <3>1
      <3>3. QED
        BY <2>2, <2>3, <3>1, <3>2 DEF Posing
    <2>8. ASSUME NEW u \in User, NEW s \in Subject, BeginLink(q, u, s) PROVE Posing(q)
      <3>1. request'[q] = [op |-> "link", user |-> u, subject |-> s]
        BY <2>8 DEF BeginLink, Ask, TypeOK
      <3>2. Registered(u)
        BY <2>8 DEF BeginLink, LoggedIn, Active, Registered
      <3>3. request'[q].op = "link" /\ request'[q].user = u
        BY <3>1
      <3>4. QED
        BY <2>2, <2>3, <3>2, <3>3 DEF Posing
    <2>9. ASSUME NEW s \in Subject, BeginRegister(q, s) PROVE Posing(q)
      <3>1. /\ request'[q] = [op |-> "register", subject |-> s, had |-> link[s],
                              used |-> ReferralUsed(link[s])]
            /\ Registrable(link[s])
            /\ \A p \in Request : request[p].op = "register" => request[p].subject # s
        BY <2>9 DEF BeginRegister, Ask, TypeOK
      <3>2. request'[q].op = "register"
        BY <3>1
      <3>3. QED
        BY <2>2, <2>3, <3>1, <3>2 DEF Posing
    <2>10. ASSUME NEW u \in User, BeginLogin(q, u) \/ BeginClose(q, u) PROVE Posing(q)
      <3>1. request'[q].op \in {"login", "close"}
        BY <2>10 DEF BeginLogin, BeginClose, Ask, TypeOK
      <3>2. QED
        BY <2>4, <3>1
    <2>11. Posing(q)
      BY <2>1, <2>5, <2>6, <2>7, <2>8, <2>9, <2>10
    <2>12. QED
      BY <2>11
  <1>3. CASE RowStep \/ IdentityStep
    <2>1. CASE UNCHANGED <<user, session, request>>
      BY <2>1
    <2>2. CASE \E p : \E W \in SUBSET (User \cup SessionId) : Answer(p, W) /\ Writes(W)
      <3>1. PICK p : \E W \in SUBSET (User \cup SessionId) : Answer(p, W) /\ Writes(W)
        BY <2>2
      <3>2. PICK W \in SUBSET (User \cup SessionId) : Answer(p, W)
        BY <3>1
      <3>3. ASSUME NEW o \in Request, request'[o].op \in {"register", "restore", "link"}
            PROVE  request'[o] = request[o]
        <4>1. request'[o] # Idle
          BY <3>3 DEF Idle
        <4>2. ASSUME request[o].op = "change",
                     request'[o] = [request[o] EXCEPT !.written = request[o].written \cup W]
              PROVE  FALSE
          <5>1. request[o] \in [op : {"change"}, user : User, to : Target,
                                rows : [User -> UserRow], sessions : SUBSET SessionId,
                                written : SUBSET (User \cup SessionId)]
            BY <4>2, CarriedBy
          <5>2. request'[o].op = "change"
            BY <4>2, <5>1
          <5>3. QED
            BY <3>3, <5>2
        <4>3. QED
          BY <3>2, <4>1, <4>2, Answered
      <3>4. QED
        BY <3>3
    <2>3. QED
      BY <1>3, <2>1, <2>2, WrittenIsTold
  <1>4. QED
    BY <1>1, <1>2, <1>3, Steps

\* Whoever is said to have, or to have had, an identity is registered, and so
\* is whoever was invited.
KnownLinks ==
    /\ \A s \in Subject : /\ link[s].user \in User => Registered(link[s].user)
                          /\ link[s].owner \in User => Registered(link[s].owner)
                          /\ \A u \in through[s] : Registered(u)
    /\ \A u \in referred : Registered(u)

\* The same of what requests have read of identities.
KnownRequests ==
    /\ \A q \in Request : request[q].op = "link" => Registered(request[q].user)
    /\ \A q \in Request : request[q].op = "register" =>
           /\ request[q].had.user \in User => Registered(request[q].had.user)
           /\ request[q].had.owner \in User => Registered(request[q].had.owner)

KnownInv == KnownLinks /\ KnownRequests

\* At first nobody has an identity.
LEMMA KnownInit == Init => KnownInv
  <1> SUFFICES ASSUME Init PROVE KnownInv
    OBVIOUS
  <1>1. /\ \A s \in Subject : link[s] = NoLink /\ through[s] = {}
        /\ referred = {} /\ \A q \in Request : request[q] = Idle
    BY DEF Init
  <1>2. NoLink.user \notin User /\ NoLink.owner \notin User /\ Idle.op = "idle"
    BY ConstantsAssumption DEF NoLink, Idle
  <1>3. QED
    BY <1>1, <1>2 DEF KnownInv, KnownLinks, KnownRequests

\* Whoever is registered stays registered, another way to log in stays one, and
\* an account that was closed once stays marked.
LEMMA StayRegistered ==
    ASSUME TypeOK, SnapshotInv, [Next]_vars, NEW u \in User
    PROVE  /\ Registered(u) => Registered(u)'
           /\ user[u].fallback => user'[u].fallback
           /\ user[u].closed => user'[u].closed
  <1>1. CASE AskStep \/ RowStep \/ UNCHANGED vars
    BY <1>1, RowsKept
  <1>2. CASE IdentityStep
    <2>1. \/ UNCHANGED user
          \/ \E v \in User :
                 \/ user' = [user EXCEPT ![v].disabled = TRUE, ![v].closed = TRUE]
                 \/ user' = [user EXCEPT ![v].disabled = FALSE]
                 \/ user' = [user EXCEPT ![v].role = "MEMBER"]
      <3>1. ASSUME NEW q \in Request, CommitClose(q)
            PROVE  \E v \in User : user' = [user EXCEPT ![v].disabled = TRUE, ![v].closed = TRUE]
        BY <3>1, CarriedBy DEF CommitClose
      <3>2. ASSUME NEW q \in Request, CommitRestore(q)
            PROVE  \E v \in User : user' = [user EXCEPT ![v].disabled = FALSE]
        BY <3>2, CarriedBy DEF CommitRestore
      <3>3. ASSUME NEW q \in Request, NEW invited \in BOOLEAN, CommitRegister(q, invited)
            PROVE  \E v \in User : user' = [user EXCEPT ![v].role = "MEMBER"]
        <4>1. PICK v \in User, s \in Subject, had \in LinkRow, used \in BOOLEAN, row \in LinkRow :
                  Registers(q, invited, v, s, had, used, row)
          BY <3>3, RegisterIs
        <4>2. QED
          BY <4>1 DEF Registers
      <3>4. ASSUME NEW q \in Request, CommitLink(q) PROVE UNCHANGED user
        BY <3>4, LinkIs DEF Links
      <3>5. QED
        BY <1>2, <3>1, <3>2, <3>3, <3>4 DEF IdentityStep, Unlink
    <2>2. CASE UNCHANGED user
      BY <2>2 DEF Registered
    <2>3. ASSUME NEW v \in User,
                 \/ user' = [user EXCEPT ![v].disabled = TRUE, ![v].closed = TRUE]
                 \/ user' = [user EXCEPT ![v].disabled = FALSE]
                 \/ user' = [user EXCEPT ![v].role = "MEMBER"]
          PROVE  /\ user'[u].role = user[u].role \/ user'[u].role = "MEMBER"
                 /\ user'[u].fallback = user[u].fallback
                 /\ user[u].closed => user'[u].closed
      <3>1. user \in [User -> UserRow]
        BY DEF TypeOK
      <3>2. CASE user' = [user EXCEPT ![v].disabled = TRUE, ![v].closed = TRUE]
        BY <3>1, <3>2 DEF UserRow
      <3>3. CASE user' = [user EXCEPT ![v].disabled = FALSE]
        BY <3>1, <3>3 DEF UserRow
      <3>4. CASE user' = [user EXCEPT ![v].role = "MEMBER"]
        BY <3>1, <3>4 DEF UserRow
      <3>5. QED
        BY <2>3, <3>2, <3>3, <3>4
    <2>4. QED
      BY <2>1, <2>2, <2>3 DEF Registered
  <1>3. QED
    BY <1>1, <1>2, Steps

\* Requests know accounts that are registered, if the rows they read do.
LEMMA KnownRequestsStep ==
    ASSUME TypeOK, SnapshotInv, KnownInv, [Next]_vars
    PROVE  KnownRequests'
  <1>1. ASSUME NEW q \in Request, request'[q] = request[q],
               request[q].op \in {"link", "register"}
        PROVE  /\ request[q].op = "link" => request[q].user \in User /\ user'[request[q].user].role # "NONE"
               /\ request[q].op = "register" =>
                      /\ request[q].had.user \in User => user'[request[q].had.user].role # "NONE"
                      /\ request[q].had.owner \in User => user'[request[q].had.owner].role # "NONE"
    BY <1>1, CarriedBy, StayRegistered DEF KnownInv, KnownRequests, Registered
  <1>2. CASE \A q \in Request : request'[q].op \in {"register", "restore", "link"} =>
                                    request'[q] = request[q]
    <2>1. ASSUME NEW q \in Request, request'[q].op \in {"link", "register"}
          PROVE  /\ request'[q].op = "link" => user'[request'[q].user].role # "NONE"
                 /\ request'[q].op = "register" =>
                        /\ request'[q].had.user \in User => user'[request'[q].had.user].role # "NONE"
                        /\ request'[q].had.owner \in User => user'[request'[q].had.owner].role # "NONE"
      <3>1. request'[q] = request[q]
        BY <1>2, <2>1
      <3>2. QED
        BY <1>1, <2>1, <3>1 DEF Registered
    <2>2. QED
      BY <2>1 DEF KnownRequests, Registered
  <1>3. ASSUME NEW o \in Request, Posing(o) PROVE KnownRequests'
    <2>1. UNCHANGED <<user, identities>> /\ \A p \in Request : p # o => request'[p] = request[p]
      BY <1>3 DEF Posing
    <2>2. ASSUME NEW q \in Request, request'[q].op = "link"
          PROVE  user[request'[q].user].role # "NONE"
      <3>1. CASE q = o
        BY <1>3, <2>2, <3>1 DEF Posing, Registered
      <3>2. CASE q # o
        BY <2>1, <2>2, <3>2 DEF KnownInv, KnownRequests, Registered
      <3>3. QED
        BY <3>1, <3>2
    <2>3. ASSUME NEW q \in Request, request'[q].op = "register"
          PROVE  /\ request'[q].had.user \in User => user[request'[q].had.user].role # "NONE"
                 /\ request'[q].had.owner \in User => user[request'[q].had.owner].role # "NONE"
      <3>1. CASE q = o
        <4>1. PICK s \in Subject : request'[q] = [op |-> "register", subject |-> s,
                                     had |-> link[s], used |-> ReferralUsed(link[s])]
          BY <1>3, <2>3, <3>1 DEF Posing
        <4>2. request'[q].had = link[s]
          BY <4>1
        <4>3. QED
          BY <4>2 DEF KnownInv, KnownLinks, Registered
      <3>2. CASE q # o
        BY <2>1, <2>3, <3>2 DEF KnownInv, KnownRequests, Registered
      <3>3. QED
        BY <3>1, <3>2
    <2>4. QED
      BY <2>1, <2>2, <2>3 DEF KnownRequests, Registered
  <1>4. QED
    BY <1>2, <1>3, Waiting

\* Steps that are no registration and move no row leave every identity with its
\* account, and close the account it is linked to, if any.
LEMMA RowsStay ==
    ASSUME TypeOK,
           \/ \E q \in Request : CommitClose(q) \/ CommitRestore(q)
           \/ \E u \in User : Unlink(u)
           \/ UNCHANGED identities
    PROVE  /\ \A s \in Subject :
                  /\ link'[s].user = link[s].user /\ link'[s].owner = link[s].owner
                  /\ link'[s].consumed = link[s].consumed
                  /\ through[s] \subseteq through'[s]
                  /\ through'[s] \subseteq through[s] \cup {link[s].user}
           /\ UNCHANGED <<referred, released>>
  <1>1. CASE UNCHANGED identities
    BY <1>1 DEF identities
  <1>2. ASSUME NEW q \in Request, CommitClose(q), NEW s \in Subject
        PROVE  /\ link'[s].user = link[s].user /\ link'[s].owner = link[s].owner
               /\ link'[s].consumed = link[s].consumed
               /\ through[s] \subseteq through'[s]
               /\ through'[s] \subseteq through[s] \cup {link[s].user}
    <2>1. PICK u \in User : u = request[q].user
      BY <1>2, CarriedBy DEF CommitClose
    <2>2. /\ link' = [p \in Subject |->
                 IF p \in LinkedBy(u) THEN [link[p] EXCEPT !.unlinked = TRUE] ELSE link[p]]
          /\ through' = [p \in Subject |->
                 IF p \in LinkedBy(u) THEN through[p] \cup {u} ELSE through[p]]
      BY <1>2, <2>1 DEF CommitClose
    <2>3. CASE s \in LinkedBy(u)
      <3>1. link'[s] = [link[s] EXCEPT !.unlinked = TRUE] /\ through'[s] = through[s] \cup {u}
        BY <2>2, <2>3
      <3>2. link[s] \in LinkRow /\ link[s].user = u
        BY <2>3, UserOfLink
      <3>3. QED
        BY <3>1, <3>2, LinkRowTyped
    <2>4. CASE s \notin LinkedBy(u)
      BY <2>2, <2>4
    <2>5. QED
      BY <2>3, <2>4
  <1>3. ASSUME NEW q \in Request, CommitRestore(q), NEW s \in Subject
        PROVE  /\ link'[s].user = link[s].user /\ link'[s].owner = link[s].owner
               /\ link'[s].consumed = link[s].consumed
    <2>1. link'[s] = link[s] \/ link'[s] = [link[s] EXCEPT !.unlinked = FALSE]
      BY <1>3 DEF CommitRestore
    <2>2. link[s] \in LinkRow
      BY DEF TypeOK
    <2>3. QED
      BY <2>1, <2>2, LinkRowTyped
  <1>4. ASSUME NEW u \in User, Unlink(u), NEW s \in Subject
        PROVE  /\ link'[s].user = link[s].user /\ link'[s].owner = link[s].owner
               /\ link'[s].consumed = link[s].consumed
    <2>1. PICK p \in LinkedBy(u) : link' = [link EXCEPT ![p].unlinked = TRUE]
      BY <1>4 DEF Unlink
    <2>2. QED
      BY <2>1 DEF TypeOK, LinkRow
  <1>5. ASSUME NEW q \in Request, CommitClose(q) PROVE UNCHANGED <<referred, released>>
    BY <1>5 DEF CommitClose
  <1>6. ASSUME NEW q \in Request, CommitRestore(q)
        PROVE  UNCHANGED <<through, referred, released>>
    BY <1>6 DEF CommitRestore
  <1>7. ASSUME NEW u \in User, Unlink(u) PROVE UNCHANGED <<through, referred, released>>
    BY <1>7 DEF Unlink
  <1>8. QED
    BY <1>1, <1>2, <1>3, <1>4, <1>5, <1>6, <1>7

\* Identities know accounts that are registered: whoever gets one is.
LEMMA KnownLinksStep ==
    ASSUME TypeOK, SnapshotInv, KnownInv, [Next]_vars
    PROVE  KnownLinks'
  <1>1. ASSUME \A s \in Subject :
                   /\ link'[s].user \in User => user'[link'[s].user].role # "NONE"
                   /\ link'[s].owner \in User => user'[link'[s].owner].role # "NONE"
                   /\ \A u \in through'[s] : user'[u].role # "NONE",
               \A u \in referred' : user'[u].role # "NONE"
        PROVE  KnownLinks'
    BY <1>1 DEF KnownLinks, Registered
  <1>2. /\ \A s \in Subject :
               /\ link[s].user \in User => user'[link[s].user].role # "NONE"
               /\ link[s].owner \in User => user'[link[s].owner].role # "NONE"
               /\ \A u \in through[s] : u \in User /\ user'[u].role # "NONE"
        /\ \A u \in referred : u \in User /\ user'[u].role # "NONE"
    BY StayRegistered DEF KnownInv, KnownLinks, Registered, TypeOK
  <1>3. CASE UNCHANGED identities
    BY <1>2, <1>3 DEF KnownLinks, identities, Registered
  <1>4. CASE \/ \E q \in Request : CommitClose(q) \/ CommitRestore(q)
             \/ \E u \in User : Unlink(u)
    <2>1. /\ \A s \in Subject :
                 /\ link'[s].user = link[s].user /\ link'[s].owner = link[s].owner
                 /\ through'[s] \subseteq through[s] \cup {link[s].user}
                 /\ through'[s] \subseteq User
          /\ UNCHANGED referred
      BY <1>4, RowsStay, TypeStep DEF TypeOK
    <2>2. QED
      BY <1>2, <2>1 DEF KnownLinks, Registered
  <1>5. ASSUME NEW q \in Request, NEW invited \in BOOLEAN, CommitRegister(q, invited)
        PROVE  KnownLinks'
    <2>1. PICK u \in User, s \in Subject, had \in LinkRow, used \in BOOLEAN, row \in LinkRow :
              Registers(q, invited, u, s, had, used, row)
      BY <1>5, RegisterIs
    <2>2. user'[u].role # "NONE"
      BY <2>1 DEF Registers, Registered, TypeOK, UserRow
    <2>3. row.user = u /\ row.owner = IF had = NoLink THEN u ELSE OwnerOf(had)
      BY <2>1 DEF Registers
    <2>4. /\ had.user \in User => user'[had.user].role # "NONE"
          /\ had.owner \in User => user'[had.owner].role # "NONE"
      <3>1. request[q].op = "register" /\ request[q].had = had
        BY <2>1 DEF Registers
      <3>2. QED
        BY <3>1, StayRegistered DEF KnownInv, KnownRequests, Registered
    <2>5. row.owner \in User => user'[row.owner].role # "NONE"
      BY <2>2, <2>3, <2>4 DEF OwnerOf
    <2>6. \A p \in Subject : link'[p] = IF p = s THEN row ELSE link[p]
      BY <2>1 DEF Registers, TypeOK
    <2>7. \A p \in Subject : through'[p] \subseteq through[p] \cup {u}
      BY <2>1 DEF Registers, TypeOK
    <2>8. referred' \subseteq referred \cup {u}
      BY <2>1 DEF Registers
    <2>9. QED
      BY <1>2, <2>2, <2>3, <2>5, <2>6, <2>7, <2>8 DEF KnownLinks, Registered
  <1>6. ASSUME NEW q \in Request, CommitLink(q) PROVE KnownLinks'
    <2>1. PICK u \in User, s \in Subject, row \in LinkRow : Links(q, u, s, row)
      BY <1>6, LinkIs
    <2>2. user'[u].role # "NONE"
      BY <2>1, StayRegistered DEF Links, KnownInv, KnownRequests, Registered
    <2>3. row.user = u
      BY <2>1 DEF Links
    <2>4. row.owner \in User => user'[row.owner].role # "NONE"
      <3>1. CASE row = [NoLink EXCEPT !.user = u]
        BY <3>1, ConstantsAssumption DEF NoLink
      <3>2. CASE \E old \in LinkedBy(u) : row = [link[old] EXCEPT !.unlinked = FALSE]
        <4>1. PICK old \in LinkedBy(u) : row = [link[old] EXCEPT !.unlinked = FALSE]
          BY <3>2
        <4>2. old \in Subject /\ link[old] \in LinkRow
          BY UserOfLink
        <4>3. row.owner = link[old].owner
          BY <4>1, <4>2, LinkRowTyped
        <4>4. QED
          BY <1>2, <4>2, <4>3
      <3>3. QED
        BY <2>1, <3>1, <3>2 DEF Links
    <2>5. NoLink.user \notin User /\ NoLink.owner \notin User
      BY ConstantsAssumption DEF NoLink
    <2>6. \A p \in Subject : link'[p] \in {row, NoLink, link[p]}
      BY <2>1 DEF Links
    <2>7. UNCHANGED <<through, referred>>
      BY <2>1 DEF Links
    <2>8. QED
      BY <1>2, <2>2, <2>3, <2>4, <2>5, <2>6, <2>7 DEF KnownLinks, Registered
  <1>7. QED
    BY <1>3, <1>4, <1>5, <1>6, RowsKept, Steps DEF IdentityStep

\* Every step keeps them known.
LEMMA KnownStep == TypeOK /\ SnapshotInv /\ KnownInv /\ [Next]_vars => KnownInv'
  BY KnownLinksStep, KnownRequestsStep DEF KnownInv

-----------------------------------------------------------------------------
(***************************************************************************)
(* Everyone can log in.                                                    *)
(***************************************************************************)

\* An identity that was the account's is another one's, who registered with it.
Superseded(u) ==
    \E s \in Subject : u \in through[s] /\ through[s] # {u} /\ link[s].user # u

\* An account without another way to log in has an identity or lost it to a
\* registration; and if it is unlinked, then because the account was closed.
LogInLinks ==
    \A u \in User : Registered(u) /\ ~user[u].fallback =>
        /\ LinkedBy(u) # {} \/ Superseded(u) \/ u \in displaced
        /\ \A s \in Subject : link[s].user = u /\ link[s].unlinked =>
               user[u].disabled /\ user[u].closed /\ u \in through[s]

\* Whoever a registration takes an identity from had it when it closed; and an
\* account that is to be restored without one has none that is unlinked.
LogInRequests ==
    \A q \in Request :
        /\ request[q].op = "register" =>
               (request[q].had.user \in User /\ ~user[request[q].had.user].fallback =>
                    request[q].had.user \in through[request[q].subject])
        /\ request[q].op = "restore" =>
               /\ user[request[q].user].closed
               /\ ~request[q].linked /\ ~user[request[q].user].fallback =>
                      \A s \in Subject : link[s].user = request[q].user => ~link[s].unlinked

LogInInv == LogInLinks /\ LogInRequests

\* At first whoever is registered has another way to log in.
LEMMA LogInInit == Init => LogInInv
  <1> SUFFICES ASSUME Init PROVE LogInInv
    OBVIOUS
  <1>1. \A q \in Request : request[q].op = "idle"
    BY DEF Init, Idle
  <1>2. \A u \in User : user[u].role = "NONE" \/ user[u].fallback
    <2>1. PICK bound \in Bounds :
              user = [u \in User |->
                   [role |-> bound.roles[u], disabled |-> FALSE, closed |-> FALSE,
                    fallback |-> bound.roles[u] # "NONE", ready |-> bound.roles[u] = "ADMIN"]]
      BY DEF Init
    <2>2. ASSUME NEW u \in User, user[u].role # "NONE" PROVE user[u].fallback
      <3>1. bound.roles[u] # "NONE"
        BY <2>1, <2>2
      <3>2. user[u].fallback <=> bound.roles[u] # "NONE"
        BY <2>1
      <3>3. QED
        BY <3>1, <3>2
    <2>3. QED
      BY <2>2
  <1>3. QED
    BY <1>1, <1>2 DEF LogInInv, LogInLinks, LogInRequests, Registered

\* Which accounts had an identity is not forgotten.
LEMMA ThroughGrows ==
    ASSUME TypeOK, SnapshotInv, [Next]_vars
    PROVE  \A s \in Subject : through[s] \subseteq through'[s]
  <1>1. CASE UNCHANGED through
    BY <1>1
  <1>2. ASSUME NEW q \in Request, CommitClose(q)
        PROVE  \A s \in Subject : through[s] \subseteq through'[s]
    <2>1. through' = [s \in Subject |-> IF s \in LinkedBy(request[q].user)
                                        THEN through[s] \cup {request[q].user} ELSE through[s]]
      BY <1>2 DEF CommitClose
    <2>2. QED
      BY <2>1
  <1>3. ASSUME NEW q \in Request, NEW invited \in BOOLEAN, CommitRegister(q, invited)
        PROVE  \A s \in Subject : through[s] \subseteq through'[s]
    <2>1. PICK u \in User, s \in Subject, had \in LinkRow, used \in BOOLEAN, row \in LinkRow :
              Registers(q, invited, u, s, had, used, row)
      BY <1>3, RegisterIs
    <2>2. QED
      BY <2>1 DEF Registers, TypeOK
  <1>4. ASSUME NEW q \in Request, CommitLink(q) PROVE UNCHANGED through
    BY <1>4, LinkIs DEF Links
  <1>5. QED
    BY <1>1, <1>2, <1>3, <1>4, RowsKept, Steps DEF IdentityStep, CommitRestore, Unlink, identities

\* An identity is unlinked when its account closes, which is not closed before,
\* or by an account that has another way to log in.
LEMMA NewlyUnlinked ==
    ASSUME TypeOK, SnapshotInv, [Next]_vars,
           NEW u \in User, NEW s \in Subject, link'[s].user = u, link'[s].unlinked
    PROVE  \/ link[s].user = u /\ link[s].unlinked
           \/ ~user[u].closed /\ user'[u].disabled /\ user'[u].closed /\ u \in through'[s]
           \/ user[u].fallback
  <1>1. CASE link'[s] = link[s]
    BY <1>1
  <1>2. ASSUME NEW q \in Request, CommitClose(q), link'[s] # link[s]
        PROVE  ~user[u].closed /\ user'[u].disabled /\ user'[u].closed /\ u \in through'[s]
    <2>1. PICK v \in User : v = request[q].user
      BY <1>2, CarriedBy DEF CommitClose
    <2>2. /\ ~user[v].closed
          /\ user' = [user EXCEPT ![v].disabled = TRUE, ![v].closed = TRUE]
          /\ link' = [p \in Subject |->
                 IF p \in LinkedBy(v) THEN [link[p] EXCEPT !.unlinked = TRUE] ELSE link[p]]
          /\ through' = [p \in Subject |->
                 IF p \in LinkedBy(v) THEN through[p] \cup {v} ELSE through[p]]
      BY <1>2, <2>1 DEF CommitClose
    <2>3. s \in LinkedBy(v)
      BY <1>2, <2>2
    <2>4. link'[s] = [link[s] EXCEPT !.unlinked = TRUE] /\ v \in through'[s]
      BY <2>2, <2>3
    <2>5. link[s] \in LinkRow /\ link[s].user = v
      BY <2>3, UserOfLink
    <2>6. v = u
      BY <2>4, <2>5, LinkRowTyped
    <2>7. user'[v].disabled /\ user'[v].closed
      BY <2>2 DEF TypeOK, UserRow
    <2>8. QED
      BY <2>2, <2>4, <2>6, <2>7
  <1>3. ASSUME NEW q \in Request, CommitRestore(q), link'[s] # link[s]
        PROVE  FALSE
    <2>1. link'[s] = [link[s] EXCEPT !.unlinked = FALSE]
      BY <1>3 DEF CommitRestore
    <2>2. link[s] \in LinkRow
      BY DEF TypeOK
    <2>3. QED
      BY <2>1, <2>2, LinkRowTyped
  <1>4. ASSUME NEW v \in User, Unlink(v), link'[s] # link[s]
        PROVE  user[u].fallback
    <2>1. PICK p \in LinkedBy(v) : link' = [link EXCEPT ![p].unlinked = TRUE]
      BY <1>4 DEF Unlink
    <2>2. p \in Subject /\ link[p] \in LinkRow /\ link[p].user = v
      BY UserOfLink
    <2>3. p = s /\ link'[p] = [link[p] EXCEPT !.unlinked = TRUE]
      BY <1>4, <2>1, <2>2 DEF TypeOK
    <2>4. v = u
      BY <2>2, <2>3, LinkRowTyped
    <2>5. QED
      BY <1>4, <2>4 DEF Unlink, MayUnlink
  <1>5. ASSUME NEW q \in Request, NEW invited \in BOOLEAN, CommitRegister(q, invited),
               link'[s] # link[s]
        PROVE  FALSE
    <2>1. PICK v \in User, p \in Subject, had \in LinkRow, used \in BOOLEAN, row \in LinkRow :
              Registers(q, invited, v, p, had, used, row)
      BY <1>5, RegisterIs
    <2>2. link' = [link EXCEPT ![p] = row] /\ row.unlinked = FALSE
      BY <2>1 DEF Registers
    <2>3. QED
      BY <1>5, <2>2 DEF TypeOK
  <1>6. ASSUME NEW q \in Request, CommitLink(q), link'[s] # link[s]
        PROVE  FALSE
    <2>1. PICK v \in User, p \in Subject, row \in LinkRow : Links(q, v, p, row)
      BY <1>6, LinkIs
    <2>2. link'[s] = row \/ link'[s] = NoLink
      BY <1>6, <2>1 DEF Links
    <2>3. row.unlinked = FALSE /\ NoLink.unlinked = FALSE
      BY <2>1 DEF Links, NoLink
    <2>4. QED
      BY <2>2, <2>3
  <1>7. QED
    BY <1>1, <1>2, <1>3, <1>4, <1>5, <1>6, RowsKept, Steps DEF IdentityStep, identities

\* What requests know of who can log in stays true.
LEMMA LogInRequestsStep ==
    ASSUME TypeOK, SnapshotInv, KnownInv, LogInInv, [Next]_vars
    PROVE  LogInRequests'
  <1>1. ASSUME NEW q \in Request, request'[q] = request[q]
        PROVE  /\ request[q].op = "register" =>
                      (request[q].had.user \in User /\ ~user'[request[q].had.user].fallback =>
                           request[q].had.user \in through'[request[q].subject])
               /\ request[q].op = "restore" =>
                      /\ user'[request[q].user].closed
                      /\ ~request[q].linked /\ ~user'[request[q].user].fallback =>
                             \A s \in Subject :
                                 link'[s].user = request[q].user => ~link'[s].unlinked
    <2>1. CASE request[q].op = "register"
      <3>1. request[q].subject \in Subject
        BY <2>1, CarriedBy
      <3>2. through[request[q].subject] \subseteq through'[request[q].subject]
        BY <3>1, ThroughGrows
      <3>3. QED
        BY <2>1, <3>2, StayRegistered DEF LogInInv, LogInRequests
    <2>2. CASE request[q].op = "restore"
      <3>1. PICK u \in User : u = request[q].user
        BY <2>2, CarriedBy
      <3>2. user[u].closed /\ user'[u].closed /\ (~user'[u].fallback => ~user[u].fallback)
        BY <2>2, <3>1, StayRegistered DEF LogInInv, LogInRequests
      <3>3. ASSUME ~request[q].linked, ~user[u].fallback, NEW s \in Subject, link'[s].user = u
            PROVE  ~link'[s].unlinked
        BY <2>2, <3>1, <3>2, <3>3, NewlyUnlinked DEF LogInInv, LogInRequests
      <3>4. QED
        BY <2>2, <3>1, <3>2, <3>3
    <2>3. QED
      BY <2>1, <2>2
  <1>2. CASE \A q \in Request : request'[q].op \in {"register", "restore", "link"} =>
                                    request'[q] = request[q]
    BY <1>1, <1>2 DEF LogInRequests
  <1>3. ASSUME NEW o \in Request, Posing(o) PROVE LogInRequests'
    <2>1. /\ UNCHANGED <<user, identities>>
          /\ \A p \in Request : p # o => request'[p] = request[p]
      BY <1>3 DEF Posing
    <2>2. UNCHANGED <<link, through>>
      BY <2>1 DEF identities
    <2>3. ASSUME request'[o].op = "register",
                 request'[o].had.user \in User, ~user[request'[o].had.user].fallback
          PROVE  request'[o].had.user \in through[request'[o].subject]
      <3>1. PICK s \in Subject : Registrable(link[s]) /\
                request'[o] = [op |-> "register", subject |-> s, had |-> link[s],
                               used |-> ReferralUsed(link[s])]
        BY <1>3, <2>3 DEF Posing
      <3>2. request'[o].had = link[s] /\ request'[o].subject = s
        BY <3>1
      <3>3. link[s].unlinked
        BY <2>3, <3>1, <3>2, ConstantsAssumption DEF Registrable, NoLink
      <3>4. Registered(link[s].user)
        BY <2>3, <3>2 DEF KnownInv, KnownLinks
      <3>5. QED
        BY <2>3, <3>2, <3>3, <3>4 DEF LogInInv, LogInLinks
    <2>4. ASSUME request'[o].op = "restore"
          PROVE  /\ user[request'[o].user].closed
                 /\ ~request'[o].linked =>
                        \A s \in Subject : link[s].user # request'[o].user
      <3>1. PICK u \in User : user[u].closed /\
                request'[o] = [op |-> "restore", user |-> u, linked |-> LinkedBy(u) # {}]
        BY <1>3, <2>4 DEF Posing
      <3>2. request'[o].user = u /\ request'[o].linked = (LinkedBy(u) # {})
        BY <3>1
      <3>3. QED
        BY <3>1, <3>2 DEF LinkedBy
    <2>5. ASSUME NEW q \in Request
          PROVE  /\ request'[q].op = "register" =>
                        (request'[q].had.user \in User /\ ~user[request'[q].had.user].fallback =>
                             request'[q].had.user \in through[request'[q].subject])
                 /\ request'[q].op = "restore" =>
                        /\ user[request'[q].user].closed
                        /\ ~request'[q].linked /\ ~user[request'[q].user].fallback =>
                               \A s \in Subject :
                                   link[s].user = request'[q].user => ~link[s].unlinked
      <3>1. CASE q = o
        BY <2>3, <2>4, <3>1
      <3>2. CASE q # o
        BY <2>1, <3>2 DEF LogInInv, LogInRequests
      <3>3. QED
        BY <3>1, <3>2
    <2>6. QED
      BY <2>1, <2>2, <2>5 DEF LogInRequests
  <1>4. QED
    BY <1>2, <1>3, Waiting

\* Whoever has no other way to log in and an unlinked identity stays disabled.
LEMMA StayDisabled ==
    ASSUME TypeOK, SnapshotInv, LogInInv, [Next]_vars,
           NEW u \in User, user[u].disabled, ~user[u].fallback,
           NEW s \in Subject, link[s].user = u, link[s].unlinked, link'[s].unlinked
    PROVE  user'[u].disabled
  <1>1. CASE UNCHANGED user
    BY <1>1
  <1>2. ASSUME NEW q \in Request, CommitClose(q) PROVE user'[u].disabled
    <2>1. PICK v \in User : v = request[q].user
      BY <1>2, CarriedBy DEF CommitClose
    <2>2. user' = [user EXCEPT ![v].disabled = TRUE, ![v].closed = TRUE]
      BY <1>2, <2>1 DEF CommitClose
    <2>3. QED
      BY <2>2 DEF TypeOK, UserRow
  <1>3. ASSUME NEW q \in Request, CommitRestore(q) PROVE user'[u].disabled
    <2>1. PICK v \in User : v = request[q].user
      BY <1>3, CarriedBy DEF CommitRestore
    <2>2. /\ user' = [user EXCEPT ![v].disabled = FALSE]
          /\ link' = [p \in Subject |->
                 IF request[q].linked /\ p \in LinkedBy(v)
                 THEN [link[p] EXCEPT !.unlinked = FALSE] ELSE link[p]]
          /\ request[q].op = "restore"
      BY <1>3, <2>1 DEF CommitRestore
    <2>3. ASSUME v = u PROVE FALSE
      <3>1. request[q].linked
        BY <2>1, <2>2, <2>3 DEF LogInInv, LogInRequests
      <3>2. s \in LinkedBy(v)
        BY <2>3 DEF LinkedBy
      <3>3. link'[s] = [link[s] EXCEPT !.unlinked = FALSE]
        BY <2>2, <3>1, <3>2
      <3>4. link[s] \in LinkRow
        BY DEF TypeOK
      <3>5. QED
        BY <3>3, <3>4, LinkRowTyped
    <2>4. QED
      BY <2>2, <2>3 DEF TypeOK
  <1>4. ASSUME NEW q \in Request, NEW invited \in BOOLEAN, CommitRegister(q, invited)
        PROVE  user'[u].disabled
    <2>1. PICK v \in User, p \in Subject, had \in LinkRow, used \in BOOLEAN, row \in LinkRow :
              Registers(q, invited, v, p, had, used, row)
      BY <1>4, RegisterIs
    <2>2. user' = [user EXCEPT ![v].role = "MEMBER"]
      BY <2>1 DEF Registers
    <2>3. QED
      BY <2>2 DEF TypeOK, UserRow
  <1>5. ASSUME NEW q \in Request, CommitLink(q) PROVE UNCHANGED user
    BY <1>5, LinkIs DEF Links
  <1>6. QED
    BY <1>1, <1>2, <1>3, <1>4, <1>5, RowsKept, Steps DEF IdentityStep, Unlink

\* Whoever had an identity has one, or lost it to a registration.
LEMMA StayLinked ==
    ASSUME TypeOK, SnapshotInv, KnownInv, LogInInv, [Next]_vars,
           NEW u \in User, Registered(u), ~user[u].fallback, LinkedBy(u) # {}
    PROVE  \/ \E s \in Subject : link'[s].user = u
           \/ u \in displaced'
           \/ \E s \in Subject : u \in through'[s] /\ through'[s] # {u} /\ link'[s].user # u
  <1>1. PICK s \in Subject : link[s].user = u
    BY DEF LinkedBy
  <1>2. CASE link'[s].user = link[s].user
    BY <1>1, <1>2
  <1>3. CASE \/ \E q \in Request : CommitClose(q) \/ CommitRestore(q)
             \/ \E v \in User : Unlink(v)
    BY <1>2, <1>3, RowsStay
  <1>4. ASSUME NEW q \in Request, NEW invited \in BOOLEAN, CommitRegister(q, invited),
               link'[s].user # link[s].user
        PROVE  \/ u \in displaced'
               \/ u \in through'[s] /\ through'[s] # {u} /\ link'[s].user # u
    <2>1. PICK v \in User, p \in Subject, had \in LinkRow, used \in BOOLEAN, row \in LinkRow :
              Registers(q, invited, v, p, had, used, row)
      BY <1>4, RegisterIs
    <2>2. /\ request[q].op = "register" /\ request[q].subject = p /\ request[q].had = had
          /\ user[v].role = "NONE"
          /\ link' = [link EXCEPT ![p] = row] /\ row.user = v
          /\ through' = [through EXCEPT ![p] = through[p] \cup {v}]
          /\ displaced' = displaced \cup ({link[p].user} \ {had.user})
      BY <2>1 DEF Registers
    <2>3. p = s
      BY <1>4, <2>2 DEF TypeOK
    <2>4. CASE had.user # u
      BY <1>1, <2>2, <2>3, <2>4
    <2>5. CASE had.user = u
      <3>1. u \in through[s]
        BY <2>2, <2>3, <2>5 DEF LogInInv, LogInRequests
      <3>2. v # u
        BY <2>2 DEF Registered
      <3>3. through'[s] = through[s] \cup {v} /\ link'[s].user = v
        BY <2>2, <2>3 DEF TypeOK
      <3>4. QED
        BY <3>1, <3>2, <3>3
    <2>6. QED
      BY <2>4, <2>5
  <1>5. ASSUME NEW q \in Request, CommitLink(q)
        PROVE  \E p \in Subject : link'[p].user = u
    <2>1. PICK v \in User, p \in Subject, row \in LinkRow : Links(q, v, p, row)
      BY <1>5, LinkIs
    <2>2. /\ link[p].user \in {NoOne, v} /\ row.user = v
          /\ link' = [o \in Subject |-> IF o = p THEN row
                                        ELSE IF o \in LinkedBy(v) THEN NoLink ELSE link[o]]
      BY <2>1 DEF Links
    <2>3. CASE v = u
      BY <2>2, <2>3
    <2>4. CASE v # u
      <3>1. s # p /\ s \notin LinkedBy(v)
        BY <1>1, <2>2, <2>4, ConstantsAssumption DEF LinkedBy
      <3>2. link'[s] = link[s]
        BY <2>2, <3>1
      <3>3. QED
        BY <1>1, <3>2
    <2>5. QED
      BY <2>3, <2>4
  <1>6. CASE UNCHANGED identities
    BY <1>1, <1>6 DEF identities
  <1>7. CASE IdentityStep
    BY <1>2, <1>3, <1>4, <1>5, <1>7 DEF IdentityStep
  <1>8. QED
    BY <1>6, <1>7, RowsKept, Steps

\* An account that is registered gets an identity with it.
LEMMA NewlyRegistered ==
    ASSUME TypeOK, SnapshotInv, [Next]_vars, NEW u \in User, ~Registered(u), Registered(u)'
    PROVE  \E s \in Subject : link'[s].user = u
  <1>1. ASSUME NEW q \in Request, NEW invited \in BOOLEAN, CommitRegister(q, invited)
        PROVE  \E s \in Subject : link'[s].user = u
    <2>1. PICK v \in User, s \in Subject, had \in LinkRow, used \in BOOLEAN, row \in LinkRow :
              Registers(q, invited, v, s, had, used, row)
      BY <1>1, RegisterIs
    <2>2. /\ user' = [user EXCEPT ![v].role = "MEMBER"]
          /\ link' = [link EXCEPT ![s] = row] /\ row.user = v
      BY <2>1 DEF Registers
    <2>3. v = u
      BY <2>2 DEF Registered, TypeOK
    <2>4. QED
      BY <2>2, <2>3 DEF TypeOK
  <1>2. ASSUME NEW q \in Request, CommitClose(q) \/ CommitRestore(q)
        PROVE  FALSE
    <2>1. PICK v \in User : v = request[q].user
      BY <1>2, CarriedBy DEF CommitClose, CommitRestore
    <2>2. \/ user' = [user EXCEPT ![v].disabled = TRUE, ![v].closed = TRUE]
          \/ user' = [user EXCEPT ![v].disabled = FALSE]
      BY <1>2, <2>1 DEF CommitClose, CommitRestore
    <2>3. user \in [User -> UserRow]
      BY DEF TypeOK
    <2>4. user'[u].role = user[u].role
      BY <2>2, <2>3 DEF UserRow
    <2>5. QED
      BY <2>4 DEF Registered
  <1>3. ASSUME NEW q \in Request, CommitLink(q) PROVE UNCHANGED user
    BY <1>3, LinkIs DEF Links
  <1>4. CASE UNCHANGED user
    BY <1>4 DEF Registered
  <1>5. QED
    BY <1>1, <1>2, <1>3, <1>4, RowsKept, Steps DEF IdentityStep, Unlink

\* Every step lets everyone keep a way to log in.
LEMMA LogInStep == TypeOK /\ SnapshotInv /\ KnownInv /\ LogInInv /\ [Next]_vars => LogInInv'
  <1> SUFFICES ASSUME TypeOK, SnapshotInv, KnownInv, LogInInv, [Next]_vars,
                      NEW u \in User, user'[u].role # "NONE", ~user'[u].fallback
               PROVE  /\ \/ \E s \in Subject : link'[s].user = u
                         \/ u \in displaced'
                         \/ \E s \in Subject : /\ u \in through'[s] /\ through'[s] # {u}
                                               /\ link'[s].user # u
                      /\ \A s \in Subject : link'[s].user = u /\ link'[s].unlinked =>
                             user'[u].disabled /\ user'[u].closed /\ u \in through'[s]
    BY LogInRequestsStep DEF LogInInv, LogInLinks, LinkedBy, Superseded, Registered
  <1>1. ~user[u].fallback
    BY StayRegistered
  <1>2. ASSUME NEW s \in Subject, link'[s].user = u, link'[s].unlinked
        PROVE  user'[u].disabled /\ user'[u].closed /\ u \in through'[s]
    <2>1. CASE link[s].user = u /\ link[s].unlinked
      <3>1. Registered(u)
        BY <2>1 DEF KnownInv, KnownLinks
      <3>2. user[u].disabled /\ user[u].closed /\ u \in through[s]
        BY <1>1, <2>1, <3>1 DEF LogInInv, LogInLinks
      <3>3. QED
        BY <1>1, <1>2, <2>1, <3>2, StayDisabled, StayRegistered, ThroughGrows
    <2>2. QED
      BY <1>1, <1>2, <2>1, NewlyUnlinked
  <1>3. \/ \E s \in Subject : link'[s].user = u
        \/ u \in displaced'
        \/ \E s \in Subject : /\ u \in through'[s] /\ through'[s] # {u}
                              /\ link'[s].user # u
    <2>1. CASE ~Registered(u)
      BY <2>1, NewlyRegistered DEF Registered
    <2>2. CASE Registered(u) /\ LinkedBy(u) # {}
      BY <1>1, <2>2, StayLinked
    <2>3. CASE Registered(u) /\ Superseded(u)
      <3>1. PICK s \in Subject : u \in through[s] /\ through[s] # {u}
        BY <2>3 DEF Superseded
      <3>2. u \in through'[s] /\ through'[s] # {u}
        BY <3>1, ThroughGrows
      <3>3. QED
        BY <3>2
    <2>4. CASE u \in displaced
      <3>1. displaced \subseteq displaced'
        <4>1. ASSUME NEW q \in Request, CommitLink(q) PROVE UNCHANGED displaced
          BY <4>1, LinkIs DEF Links
        <4>2. ASSUME NEW q \in Request, NEW invited \in BOOLEAN, CommitRegister(q, invited)
              PROVE  displaced \subseteq displaced'
          BY <4>2 DEF CommitRegister
        <4>3. QED
          BY <4>1, <4>2, RowsKept, Steps
          DEF IdentityStep, CommitClose, CommitRestore, Unlink, identities
      <3>2. QED
        BY <2>4, <3>1
    <2>5. QED
      BY <1>1, <2>1, <2>2, <2>3, <2>4 DEF LogInInv, LogInLinks
  <1>4. QED
    BY <1>2, <1>3

\* No order of closing, restoring, linking, unlinking and registering leaves an
\* active account without a way to log in, but for who lost the identity to a
\* registration (line-login.controller.ts, account-closure.service.ts).
THEOREM EveryoneCanLogInCorrect == Spec => []EveryoneCanLogIn
  <1>1. KnownInv /\ LogInInv => EveryoneCanLogIn
    <2> SUFFICES ASSUME KnownInv, LogInInv, NEW u \in User, Active(u), ~CanLogIn(u)
                 PROVE  Superseded(u) \/ u \in displaced
      BY DEF EveryoneCanLogIn, Superseded
    <2>1. Registered(u) /\ ~user[u].disabled
      BY DEF Active, Registered
    <2>2. ~user[u].fallback /\ \A s \in LinkedBy(u) : link[s].unlinked
      BY DEF CanLogIn, HasLine
    <2>3. LinkedBy(u) = {}
      BY <2>1, <2>2 DEF LogInInv, LogInLinks, LinkedBy
    <2>4. QED
      BY <2>1, <2>2, <2>3 DEF LogInInv, LogInLinks
  <1>2. QED
    BY <1>1, TypeInit, TypeStep, SnapshotInit, SnapshotStep, KnownInit, KnownStep, LogInInit,
       LogInStep, PTL DEF Spec

-----------------------------------------------------------------------------
(***************************************************************************)
(* One invitation.                                                         *)
(***************************************************************************)

\* An account has one identity at most, and whoever was invited is known from
\* it.  Of the accounts of an identity that kept its row one at most was
\* invited, its row tells, and it is the present one if that was invited.
InvitedLinks ==
    /\ \A s, p \in Subject : link[s].user = link[p].user /\ link[s].user \in User => s = p
    /\ \A s \in Subject : link[s].user \in referred => ReferralUsed(link[s])
    /\ \A s \in Subject : s \notin released =>
           /\ link[s] = NoLink => through[s] = {}
           /\ \A u \in through[s] : u \in referred => ReferralUsed(link[s])
           /\ link[s].user \in referred =>
                  \A u \in through[s] : u \in referred => u = link[s].user
           /\ \A u, v \in through[s] : u \in referred /\ v \in referred => u = v

\* Only one registration of an identity waits; it knows whether an invitation
\* was used, and the row it read, unless that went over to another identity.
InvitedRequests ==
    /\ \A p, q \in Request :
           request[p].op = "register" /\ request[q].op = "register"
               /\ request[p].subject = request[q].subject => p = q
    /\ \A q \in Request : request[q].op = "register" =>
           /\ request[q].used <=> ReferralUsed(request[q].had)
           /\ request[q].had.user = NoOne => request[q].had = NoLink
           /\ request[q].had # NoLink /\ request[q].subject \notin released =>
                  /\ link[request[q].subject].user = request[q].had.user
                  /\ link[request[q].subject].owner = request[q].had.owner
                  /\ link[request[q].subject].consumed = request[q].had.consumed

InvitedInv == InvitedLinks /\ InvitedRequests

\* At first nobody has an identity, and nobody was invited.
LEMMA InvitedInit == Init => InvitedInv
  <1> SUFFICES ASSUME Init PROVE InvitedInv
    OBVIOUS
  <1>1. /\ \A s \in Subject : link[s].user = NoOne /\ through[s] = {}
        /\ referred = {} /\ \A q \in Request : request[q].op = "idle"
    BY DEF Init, Idle, NoLink
  <1>2. QED
    BY <1>1, ConstantsAssumption DEF InvitedInv, InvitedLinks, InvitedRequests

\* Only an account that nobody had before can be invited.
LEMMA ReferredGrows ==
    ASSUME TypeOK, SnapshotInv, [Next]_vars
    PROVE  /\ referred \subseteq referred' /\ released \subseteq released'
           /\ \A u \in User : u \in referred' /\ Registered(u) => u \in referred
  <1>1. CASE UNCHANGED <<referred, released>>
    BY <1>1
  <1>2. ASSUME NEW q \in Request, NEW invited \in BOOLEAN, CommitRegister(q, invited)
        PROVE  /\ referred \subseteq referred' /\ released \subseteq released'
               /\ \A u \in User : u \in referred' /\ Registered(u) => u \in referred
    <2>1. PICK v \in User, s \in Subject, had \in LinkRow, used \in BOOLEAN, row \in LinkRow :
              Registers(q, invited, v, s, had, used, row)
      BY <1>2, RegisterIs
    <2>2. /\ referred' = IF invited /\ ~used THEN referred \cup {v} ELSE referred
          /\ user[v].role = "NONE" /\ UNCHANGED released
      BY <2>1 DEF Registers
    <2>3. QED
      BY <2>2 DEF Registered
  <1>3. ASSUME NEW q \in Request, CommitLink(q)
        PROVE  UNCHANGED referred /\ released \subseteq released'
    BY <1>3, LinkIs DEF Links
  <1>4. CASE AskStep \/ RowStep \/ UNCHANGED vars
    BY <1>1, <1>4, RowsKept DEF identities
  <1>5. CASE IdentityStep
    BY <1>1, <1>2, <1>3, <1>5, RowsStay DEF IdentityStep
  <1>6. QED
    BY <1>4, <1>5, Steps

\* Whether an identity's invitation is used does not change with what others
\* do.
LEMMA UsedStays ==
    ASSUME TypeOK, SnapshotInv, [Next]_vars, NEW l \in LinkRow,
           l.user = NoOne => l = NoLink,
           l.user \in User => Registered(l.user), l.owner \in User => Registered(l.owner)
    PROVE  OwnerOf(l) \in referred' /\ l # NoLink => OwnerOf(l) \in referred
  <1>1. l # NoLink => OwnerOf(l) \in User /\ Registered(OwnerOf(l))
    BY DEF OwnerOf, LinkRow
  <1>2. QED
    BY <1>1, ReferredGrows

\* A row that was moved says what it said.
LEMMA MovedRow ==
    ASSUME TypeOK, InvitedLinks, NEW q \in Request, NEW u \in User, NEW s \in Subject,
           NEW row \in LinkRow, Links(q, u, s, row)
    PROVE  \/ /\ LinkedBy(u) = {} /\ row.user = u /\ row.owner = NoOne /\ ~row.consumed
              /\ link[s] = NoLink
           \/ \E old \in LinkedBy(u) :
                  /\ LinkedBy(u) = {old}
                  /\ row.user = u /\ row.owner = link[old].owner
                  /\ row.consumed = link[old].consumed
                  /\ s # old => link[s] = NoLink
  <1>1. CASE LinkedBy(u) = {} /\ row = [NoLink EXCEPT !.user = u]
    <2>1. link[s].user = NoOne
      BY <1>1 DEF Links, LinkedBy
    <2>2. QED
      BY <1>1, <2>1 DEF NoLink, TypeOK
  <1>2. ASSUME NEW old \in LinkedBy(u), row = [link[old] EXCEPT !.unlinked = FALSE]
        PROVE  /\ LinkedBy(u) = {old}
               /\ row.user = u /\ row.owner = link[old].owner
               /\ row.consumed = link[old].consumed
               /\ s # old => link[s] = NoLink
    <2>1. old \in Subject /\ link[old] \in LinkRow /\ link[old].user = u
      BY UserOfLink
    <2>2. LinkedBy(u) = {old}
      BY <2>1 DEF InvitedLinks, LinkedBy
    <2>3. s # old => link[s].user # u
      BY <2>2 DEF LinkedBy
    <2>4. s # old => link[s] = NoLink
      BY <2>3 DEF Links, TypeOK
    <2>5. QED
      BY <1>2, <2>1, <2>2, <2>4, LinkRowTyped
  <1>3. QED
    BY <1>1, <1>2 DEF Links

\* The row a registration read is the identity's until it is committed, if it
\* did not go over to another identity.
LEMMA ReadStays ==
    ASSUME TypeOK, SnapshotInv, InvitedInv, [Next]_vars,
           NEW q \in Request, request[q].op = "register", request'[q] = request[q],
           NEW s \in Subject, s = request[q].subject, request[q].had # NoLink, s \notin released'
    PROVE  /\ link'[s].user = request[q].had.user /\ link'[s].owner = request[q].had.owner
           /\ link'[s].consumed = request[q].had.consumed
  <1>1. /\ link[s].user = request[q].had.user /\ link[s].owner = request[q].had.owner
        /\ link[s].consumed = request[q].had.consumed /\ link[s].user # NoOne
    BY ReferredGrows DEF InvitedInv, InvitedRequests
  <1>2. CASE \/ \E p \in Request : CommitClose(p) \/ CommitRestore(p)
             \/ \E u \in User : Unlink(u)
             \/ UNCHANGED identities
    BY <1>1, <1>2, RowsStay
  <1>3. ASSUME NEW p \in Request, NEW invited \in BOOLEAN, CommitRegister(p, invited)
        PROVE  link'[s] = link[s]
    <2>1. PICK u \in User, o \in Subject, had \in LinkRow, used \in BOOLEAN, row \in LinkRow :
              Registers(p, invited, u, o, had, used, row)
      BY <1>3, RegisterIs
    <2>2. /\ request[p].op = "register" /\ request[p].subject = o
          /\ link' = [link EXCEPT ![o] = row] /\ Answer(p, {u})
      BY <2>1 DEF Registers
    <2>3. p # q
      BY <2>2 DEF Answer, Idle
    <2>4. o # s
      BY <2>2, <2>3 DEF InvitedInv, InvitedRequests
    <2>5. QED
      BY <2>2, <2>4 DEF TypeOK
  <1>4. ASSUME NEW p \in Request, CommitLink(p)
        PROVE  /\ link'[s].user = link[s].user /\ link'[s].owner = link[s].owner
               /\ link'[s].consumed = link[s].consumed
    <2>1. PICK u \in User, o \in Subject, row \in LinkRow : Links(p, u, o, row)
      BY <1>4, LinkIs
    <2>2. /\ link' = [x \in Subject |-> IF x = o THEN row
                                        ELSE IF x \in LinkedBy(u) THEN NoLink ELSE link[x]]
          /\ released' = released \cup (LinkedBy(u) \ {o})
      BY <2>1 DEF Links
    <2>3. CASE s = o
      <3>1. link[o] # NoLink
        BY <1>1, <2>3 DEF NoLink
      <3>2. PICK old \in LinkedBy(u) :
                /\ LinkedBy(u) = {old}
                /\ row.user = u /\ row.owner = link[old].owner
                /\ row.consumed = link[old].consumed /\ (o # old => link[o] = NoLink)
        <4>1. InvitedLinks
          BY DEF InvitedInv
        <4>2. \/ /\ LinkedBy(u) = {} /\ row.user = u /\ row.owner = NoOne
                 /\ ~row.consumed /\ link[o] = NoLink
              \/ \E old \in LinkedBy(u) :
                     /\ LinkedBy(u) = {old}
                     /\ row.user = u /\ row.owner = link[old].owner
                     /\ row.consumed = link[old].consumed
                     /\ o # old => link[o] = NoLink
          BY <2>1, <4>1, MovedRow
        <4>3. QED
          BY <3>1, <4>2
      <3>3. old = s /\ link[s].user = u
        BY <2>3, <3>1, <3>2 DEF LinkedBy
      <3>4. QED
        BY <2>2, <2>3, <3>2, <3>3
    <2>4. CASE s # o
      BY <2>2, <2>4
    <2>5. QED
      BY <2>3, <2>4
  <1>5. QED
    BY <1>1, <1>2, <1>3, <1>4, RowsKept, Steps DEF IdentityStep

\* What registrations know stays true.
LEMMA InvitedRequestsStep ==
    ASSUME TypeOK, SnapshotInv, KnownInv, InvitedInv, [Next]_vars
    PROVE  InvitedRequests'
  <1>1. ASSUME NEW q \in Request, request'[q] = request[q], request[q].op = "register"
        PROVE  /\ request[q].used <=> (request[q].had # NoLink /\
                      (request[q].had.consumed \/ OwnerOf(request[q].had) \in referred'))
               /\ request[q].had.user = NoOne => request[q].had = NoLink
               /\ request[q].had # NoLink /\ request[q].subject \notin released' =>
                      /\ link'[request[q].subject].user = request[q].had.user
                      /\ link'[request[q].subject].owner = request[q].had.owner
                      /\ link'[request[q].subject].consumed = request[q].had.consumed
    <2>1. PICK had \in LinkRow, s \in Subject :
              had = request[q].had /\ s = request[q].subject
      BY <1>1, CarriedBy
    <2>2. had.user = NoOne => had = NoLink
      BY <1>1, <2>1 DEF InvitedInv, InvitedRequests
    <2>3. /\ had.user \in User => Registered(had.user)
          /\ had.owner \in User => Registered(had.owner)
      BY <1>1, <2>1 DEF KnownInv, KnownRequests
    <2>4. had # NoLink => (OwnerOf(had) \in referred' <=> OwnerOf(had) \in referred)
      BY <2>2, <2>3, UsedStays, ReferredGrows
    <2>5. request[q].used <=> (had # NoLink /\ (had.consumed \/ OwnerOf(had) \in referred))
      BY <1>1, <2>1 DEF InvitedInv, InvitedRequests, ReferralUsed
    <2>6. QED
      BY <1>1, <2>1, <2>2, <2>4, <2>5, ReadStays
  <1>2. CASE \A q \in Request : request'[q].op \in {"register", "restore", "link"} =>
                                    request'[q] = request[q]
    BY <1>1, <1>2 DEF InvitedInv, InvitedRequests, ReferralUsed, OwnerOf
  <1>3. ASSUME NEW o \in Request, Posing(o) PROVE InvitedRequests'
    <2>1. /\ UNCHANGED <<link, referred, released>>
          /\ \A p \in Request : p # o => request'[p] = request[p]
      BY <1>3 DEF Posing, identities
    <2>2. ASSUME request'[o].op = "register"
          PROVE  \E s \in Subject :
                     /\ request'[o].subject = s /\ request'[o].had = link[s]
                     /\ request'[o].used <=> ReferralUsed(link[s])
                     /\ \A p \in Request : request[p].op = "register" => request[p].subject # s
      <3>1. PICK s \in Subject :
                /\ request'[o] = [op |-> "register", subject |-> s, had |-> link[s],
                                  used |-> ReferralUsed(link[s])]
                /\ \A p \in Request : request[p].op = "register" => request[p].subject # s
        BY <1>3, <2>2 DEF Posing
      <3>2. QED
        BY <3>1
    <2>3. ASSUME NEW q \in Request, request'[q].op = "register"
          PROVE  /\ request'[q].used <=> ReferralUsed(request'[q].had)
                 /\ request'[q].had.user = NoOne => request'[q].had = NoLink
                 /\ request'[q].had # NoLink /\ request'[q].subject \notin released =>
                        /\ link[request'[q].subject].user = request'[q].had.user
                        /\ link[request'[q].subject].owner = request'[q].had.owner
                        /\ link[request'[q].subject].consumed = request'[q].had.consumed
      <3>1. CASE q = o
        <4>1. PICK s \in Subject :
                  /\ request'[o].subject = s /\ request'[o].had = link[s]
                  /\ request'[o].used <=> ReferralUsed(link[s])
          BY <2>2, <2>3, <3>1
        <4>2. QED
          BY <3>1, <4>1 DEF TypeOK
      <3>2. CASE q # o
        BY <2>1, <2>3, <3>2 DEF InvitedInv, InvitedRequests
      <3>3. QED
        BY <3>1, <3>2
    <2>4. ASSUME NEW p \in Request, NEW q \in Request, request'[p].op = "register",
                 request'[q].op = "register", request'[p].subject = request'[q].subject
          PROVE  p = q
      BY <2>1, <2>2, <2>4 DEF InvitedInv, InvitedRequests
    <2>5. QED
      BY <2>1, <2>3, <2>4 DEF InvitedRequests, ReferralUsed, OwnerOf
  <1>4. QED
    BY <1>2, <1>3, Waiting

\* Steps that leave every identity with its account keep it so.
LEMMA InvitedRowsStay ==
    ASSUME TypeOK, TypeOK', InvitedLinks, UNCHANGED <<referred, released>>,
           \A s \in Subject :
               /\ link'[s].user = link[s].user /\ link'[s].owner = link[s].owner
               /\ link'[s].consumed = link[s].consumed
               /\ through[s] \subseteq through'[s]
               /\ through'[s] \subseteq through[s] \cup {link[s].user}
    PROVE  InvitedLinks'
  <1>1. ASSUME NEW s \in Subject
        PROVE  /\ link'[s] = NoLink <=> link[s] = NoLink
               /\ link'[s].user = link[s].user
               /\ (link'[s] # NoLink /\ (link'[s].consumed \/ OwnerOf(link'[s]) \in referred))
                      <=> ReferralUsed(link[s])
               /\ \A u \in through'[s] : u \in through[s] \/ u = link[s].user
    <2>1. link'[s] = NoLink <=> link'[s].user = NoOne
      BY DEF TypeOK, NoLink
    <2>2. link[s] = NoLink <=> link[s].user = NoOne
      BY DEF TypeOK, NoLink
    <2>3. OwnerOf(link'[s]) = OwnerOf(link[s])
      BY DEF OwnerOf
    <2>4. QED
      BY <2>1, <2>2, <2>3 DEF ReferralUsed
  <1>2. \A s, p \in Subject : link'[s].user = link'[p].user /\ link'[s].user \in User => s = p
    BY DEF InvitedLinks
  <1>3. \A s \in Subject : link'[s].user \in referred =>
            (link'[s] # NoLink /\ (link'[s].consumed \/ OwnerOf(link'[s]) \in referred))
    BY <1>1 DEF InvitedLinks
  <1>4. ASSUME NEW s \in Subject, s \notin released
        PROVE  /\ link'[s] = NoLink => through'[s] = {}
               /\ \A u \in through'[s] : u \in referred =>
                      (link'[s] # NoLink /\ (link'[s].consumed \/ OwnerOf(link'[s]) \in referred))
               /\ link'[s].user \in referred =>
                      \A u \in through'[s] : u \in referred => u = link'[s].user
               /\ \A u, v \in through'[s] : u \in referred /\ v \in referred => u = v
    <2>1. link[s] = NoLink => through[s] = {} /\ through'[s] = {}
      <3>1. SUFFICES ASSUME link[s] = NoLink PROVE through[s] = {} /\ through'[s] = {}
        OBVIOUS
      <3>2. through[s] = {} /\ link[s].user = NoOne
        BY <1>4, <3>1 DEF InvitedLinks, NoLink
      <3>3. through'[s] \subseteq User /\ NoOne \notin User
        BY ConstantsAssumption DEF TypeOK
      <3>4. QED
        BY <3>2, <3>3
    <2>2. QED
      BY <1>1, <1>4, <2>1 DEF InvitedLinks
  <1>5. QED
    BY <1>2, <1>3, <1>4 DEF InvitedLinks, ReferralUsed

\* A registration invites one account, if none of the identity was invited.
LEMMA InvitedRegister ==
    ASSUME TypeOK, SnapshotInv, KnownInv, InvitedInv, [Next]_vars,
           NEW q \in Request, NEW invited \in BOOLEAN, CommitRegister(q, invited)
    PROVE  InvitedLinks'
  <1>1. PICK n \in User, s \in Subject, had \in LinkRow, used \in BOOLEAN, row \in LinkRow :
            Registers(q, invited, n, s, had, used, row)
    BY RegisterIs
  <1>2. /\ request[q].op = "register" /\ request[q].subject = s
        /\ request[q].had = had /\ request[q].used = used
        /\ ~Registered(n) /\ (link[s] = NoLink <=> had = NoLink)
        /\ row.user = n /\ row.consumed = (used \/ (invited /\ ~used))
        /\ link' = [link EXCEPT ![s] = row]
        /\ referred' = IF invited /\ ~used THEN referred \cup {n} ELSE referred
        /\ through' = [through EXCEPT ![s] = through[s] \cup {n}]
        /\ UNCHANGED released
    BY <1>1 DEF Registers, Registered
  <1>3. row # NoLink /\ n # NoOne
    BY <1>2, ConstantsAssumption DEF NoLink
  <1>4. /\ \A p \in Subject : link[p].user # n /\ n \notin through[p]
        /\ n \notin referred
    BY <1>2 DEF KnownInv, KnownLinks
  <1>5. \A p \in Subject : /\ link'[p] = IF p = s THEN row ELSE link[p]
                           /\ through'[p] = IF p = s THEN through[s] \cup {n} ELSE through[p]
    BY <1>2 DEF TypeOK
  <1>6. \A p, o \in Subject : link'[p].user = link'[o].user /\ link'[p].user \in User => p = o
    BY <1>2, <1>4, <1>5 DEF InvitedInv, InvitedLinks
  <1>7. \A u \in referred' : u \in referred \/ (u = n /\ invited /\ ~used)
    BY <1>2
  <1>8. ASSUME NEW p \in Subject, p # s
        PROVE  /\ link'[p].user \in referred' => link'[p].user \in referred
               /\ ReferralUsed(link[p]) =>
                      (link'[p] # NoLink /\ (link'[p].consumed \/ OwnerOf(link'[p]) \in referred'))
               /\ \A u \in through'[p] : u \in through[p] /\ (u \in referred' => u \in referred)
    BY <1>4, <1>5, <1>7, <1>8, ReferredGrows DEF ReferralUsed
  <1>9. used => row.consumed
    BY <1>2
  <1>10. ASSUME s \notin released
         PROVE  /\ \A u \in through[s] : u \in referred => used
                /\ \A u, v \in through[s] : u \in referred /\ v \in referred => u = v
    <2>1. CASE had = NoLink
      BY <1>2, <1>10, <2>1 DEF InvitedInv, InvitedLinks
    <2>2. CASE had # NoLink
      <3>1. /\ link[s].user = had.user /\ link[s].owner = had.owner
            /\ link[s].consumed = had.consumed
        BY <1>2, <1>10, <2>2 DEF InvitedInv, InvitedRequests
      <3>2. ReferralUsed(link[s]) <=> ReferralUsed(had)
        BY <1>2, <2>2, <3>1 DEF ReferralUsed, OwnerOf
      <3>3. used <=> ReferralUsed(had)
        BY <1>2 DEF InvitedInv, InvitedRequests
      <3>4. QED
        BY <1>10, <3>2, <3>3 DEF InvitedInv, InvitedLinks
    <2>3. QED
      BY <2>1, <2>2
  <1>11. \A p \in Subject : link'[p].user \in referred' =>
             (link'[p] # NoLink /\ (link'[p].consumed \/ OwnerOf(link'[p]) \in referred'))
    <2>1. row.user \in referred' => row.consumed
      BY <1>2, <1>4
    <2>2. QED
      BY <1>3, <1>5, <1>8, <2>1 DEF InvitedInv, InvitedLinks
  <1>12. ASSUME NEW p \in Subject, p \notin released
         PROVE  /\ link'[p] = NoLink => through'[p] = {}
                /\ \A u \in through'[p] : u \in referred' =>
                       (link'[p] # NoLink /\ (link'[p].consumed \/ OwnerOf(link'[p]) \in referred'))
                /\ link'[p].user \in referred' =>
                       \A u \in through'[p] : u \in referred' => u = link'[p].user
                /\ \A u, v \in through'[p] : u \in referred' /\ v \in referred' => u = v
    <2>1. CASE p # s
      <3>1. /\ link'[p] = link[p] /\ through'[p] = through[p]
        BY <1>5, <2>1
      <3>2. QED
        BY <1>8, <1>12, <2>1, <3>1 DEF InvitedInv, InvitedLinks
    <2>2. CASE p = s
      <3>1. link'[s] = row /\ through'[s] = through[s] \cup {n}
        BY <1>5
      <3>2. ASSUME NEW u \in through'[s], u \in referred'
            PROVE  \/ used /\ u \in through[s] /\ u \in referred
                   \/ ~used /\ u = n /\ invited
        BY <1>4, <1>7, <1>10, <1>12, <2>2, <3>1, <3>2
      <3>3. ASSUME NEW u \in through'[s], u \in referred' PROVE row.consumed
        BY <1>2, <3>2, <3>3
      <3>4. ASSUME n \in referred', NEW u \in through'[s], u \in referred' PROVE u = n
        BY <1>2, <1>4, <3>2, <3>4
      <3>5. ASSUME NEW u \in through'[s], NEW v \in through'[s], u \in referred', v \in referred'
            PROVE  u = v
        BY <1>10, <1>12, <2>2, <3>2, <3>5
      <3>6. QED
        BY <1>2, <1>3, <2>2, <3>1, <3>3, <3>4, <3>5
    <2>3. QED
      BY <2>1, <2>2
  <1>13. QED
    BY <1>2, <1>6, <1>11, <1>12 DEF InvitedLinks, ReferralUsed

\* A row that goes over to another identity says what was used of it.
LEMMA InvitedLink ==
    ASSUME TypeOK, InvitedLinks, NEW q \in Request, CommitLink(q)
    PROVE  InvitedLinks'
  <1>1. PICK u \in User, s \in Subject, row \in LinkRow : Links(q, u, s, row)
    BY LinkIs
  <1>2. /\ row.user = u
        /\ link' = [p \in Subject |-> IF p = s THEN row
                                      ELSE IF p \in LinkedBy(u) THEN NoLink ELSE link[p]]
        /\ released' = released \cup (LinkedBy(u) \ {s})
        /\ UNCHANGED <<referred, through>>
    BY <1>1 DEF Links
  <1>3. row # NoLink /\ u # NoOne /\ NoLink.user = NoOne /\ NoOne \notin referred
    BY <1>2, ConstantsAssumption DEF NoLink, TypeOK
  <1>4. \/ /\ row.owner = NoOne /\ link[s] = NoLink
        \/ \E old \in Subject :
               /\ link[old].user = u /\ row.owner = link[old].owner
               /\ (row.consumed <=> link[old].consumed)
               /\ s # old => link[s] = NoLink
    <2>1. CASE \E old \in LinkedBy(u) :
                   /\ LinkedBy(u) = {old}
                   /\ row.user = u /\ row.owner = link[old].owner
                   /\ row.consumed = link[old].consumed
                   /\ s # old => link[s] = NoLink
      BY <2>1 DEF LinkedBy
    <2>2. QED
      BY <1>1, <2>1, MovedRow
  <1>5. \A p, o \in Subject : link'[p].user = link'[o].user /\ link'[p].user \in User => p = o
    <2>1. \A p \in Subject : p # s =>
              link'[p].user # u /\ (link'[p].user \in User => link'[p].user = link[p].user)
      BY <1>2, <1>3, ConstantsAssumption DEF LinkedBy
    <2>2. link'[s].user = u
      BY <1>2
    <2>3. QED
      BY <2>1, <2>2 DEF InvitedLinks
  <1>6. u \in referred => row.consumed \/ OwnerOf(row) \in referred
    <2>1. CASE row.owner = NoOne /\ link[s] = NoLink
      BY <1>2, <2>1 DEF OwnerOf
    <2>2. ASSUME NEW old \in Subject, link[old].user = u, row.owner = link[old].owner,
                 row.consumed <=> link[old].consumed, u \in referred
          PROVE  row.consumed \/ OwnerOf(row) \in referred
      <3>1. link[old].consumed \/ OwnerOf(link[old]) \in referred
        BY <2>2 DEF InvitedLinks, ReferralUsed
      <3>2. OwnerOf(row) = OwnerOf(link[old])
        BY <1>2, <2>2 DEF OwnerOf
      <3>3. QED
        BY <2>2, <3>1, <3>2
    <2>3. QED
      BY <1>4, <2>1, <2>2
  <1>7. \A p \in Subject : link'[p].user \in referred' =>
            (link'[p] # NoLink /\ (link'[p].consumed \/ OwnerOf(link'[p]) \in referred'))
    <2>1. \A p \in Subject : p # s => link'[p] = NoLink \/ link'[p] = link[p]
      BY <1>2
    <2>2. link'[s] = row
      BY <1>2
    <2>3. QED
      BY <1>2, <1>3, <1>6, <2>1, <2>2 DEF InvitedLinks, ReferralUsed
  <1>8. ASSUME NEW p \in Subject, p \notin released'
        PROVE  /\ link'[p] = NoLink => through[p] = {}
               /\ \A v \in through[p] : v \in referred =>
                      (link'[p] # NoLink /\ (link'[p].consumed \/ OwnerOf(link'[p]) \in referred))
               /\ link'[p].user \in referred =>
                      \A v \in through[p] : v \in referred => v = link'[p].user
               /\ \A v, w \in through[p] : v \in referred /\ w \in referred => v = w
    <2>1. p \notin released
      BY <1>2, <1>8
    <2>2. CASE p # s
      <3>1. link'[p] = link[p]
        BY <1>2, <1>8, <2>2
      <3>2. QED
        BY <2>1, <3>1 DEF InvitedLinks, ReferralUsed
    <2>3. CASE p = s
      <3>1. CASE link[s] = NoLink
        BY <2>1, <2>3, <3>1 DEF InvitedLinks
      <3>2. CASE /\ link[s].user = u /\ row.owner = link[s].owner
                 /\ (row.consumed <=> link[s].consumed)
        <4>1. link'[s] = row
          BY <1>2
        <4>2. OwnerOf(row) = OwnerOf(link[s])
          BY <1>2, <3>2 DEF OwnerOf
        <4>3. /\ link[s] # NoLink
              /\ (row.consumed \/ OwnerOf(row) \in referred) <=> ReferralUsed(link[s])
          BY <1>3, <3>2, <4>2 DEF ReferralUsed
        <4>4. QED
          BY <1>2, <1>3, <2>1, <2>3, <3>2, <4>1, <4>3 DEF InvitedLinks
      <3>3. QED
        BY <1>4, <3>1, <3>2
    <2>4. QED
      BY <2>2, <2>3
  <1>9. QED
    BY <1>2, <1>5, <1>7, <1>8 DEF InvitedLinks, ReferralUsed

\* Every step keeps invitations to one.
LEMMA InvitedStep ==
    TypeOK /\ SnapshotInv /\ KnownInv /\ InvitedInv /\ [Next]_vars => InvitedInv'
  <1> SUFFICES ASSUME TypeOK, SnapshotInv, KnownInv, InvitedInv, [Next]_vars
               PROVE  InvitedLinks'
    BY InvitedRequestsStep DEF InvitedInv
  <1>1. TypeOK' /\ InvitedLinks
    BY TypeStep DEF InvitedInv
  <1>2. CASE \/ \E q \in Request : CommitClose(q) \/ CommitRestore(q)
             \/ \E u \in User : Unlink(u)
             \/ UNCHANGED identities
    BY <1>1, <1>2, RowsStay, InvitedRowsStay
  <1>3. ASSUME NEW q \in Request, NEW invited \in BOOLEAN, CommitRegister(q, invited)
        PROVE  InvitedLinks'
    BY <1>3, InvitedRegister
  <1>4. ASSUME NEW q \in Request, CommitLink(q) PROVE InvitedLinks'
    BY <1>1, <1>4, InvitedLink
  <1>5. QED
    BY <1>2, <1>3, <1>4, RowsKept, Steps DEF IdentityStep

\* However often an identity is closed and registered anew, one of its accounts
\* at most was invited, as long as its row stays with it (line-login.controller.ts).
THEOREM InvitedOnceCorrect == Spec => []InvitedOnce
  <1>1. TypeOK /\ InvitedInv => InvitedOnce
    <2> SUFFICES ASSUME TypeOK, InvitedInv, NEW s \in Subject \ released
                 PROVE  Cardinality(through[s] \cap referred) <= 1
      BY DEF InvitedOnce
    <2>1. \A u, v \in through[s] \cap referred : u = v
      BY DEF InvitedInv, InvitedLinks
    <2>2. CASE through[s] \cap referred = {}
      BY <2>2, FS_EmptySet
    <2>3. CASE through[s] \cap referred # {}
      <3>1. PICK u \in through[s] \cap referred : through[s] \cap referred = {u}
        BY <2>1, <2>3
      <3>2. QED
        <4>1. Cardinality({u}) = 1
          BY FS_Singleton
        <4>2. QED
          BY <3>1, <4>1
    <2>4. QED
      BY <2>2, <2>3
  <1>2. QED
    BY <1>1, TypeInit, TypeStep, SnapshotInit, SnapshotStep, KnownInit, KnownStep, InvitedInit,
       InvitedStep, PTL DEF Spec

=============================================================================
