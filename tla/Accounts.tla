------------------------------ MODULE Accounts ------------------------------
(***************************************************************************)
(* The accounts of members and staff: who administrates, who may log in,   *)
(* with which LINE identity and which sessions.  Administrators change     *)
(* roles and suspend accounts (apps/api/src/staff.controller.ts,           *)
(* admin-continuity.controller.ts); members close their accounts, which    *)
(* administrators may restore (account-closure.service.ts); LINE           *)
(* identities register, log in, are linked and unlinked                    *)
(* (line-login.controller.ts); and sessions are opened, stepped up by a    *)
(* second factor and revoked (auth-*.service.ts).                          *)
(*                                                                         *)
(* Changes of roles and suspensions are SERIALIZABLE: they read a snapshot *)
(* taken before they wait for their advisory locks, and fail if a row they *)
(* write or lock was written since.  The other transactions are READ       *)
(* COMMITTED, act on an account authenticated before them, and lock no     *)
(* account.  In a local installation passwords, mails and second factors   *)
(* are the application's own; in another they are the identity provider's, *)
(* with sessions that are no rows, and only LINE opens sessions.           *)
(*                                                                         *)
(* Left out: what a role's holder is responsible for (PublicationSchedule  *)
(* and ContentItems have it), paid access (Purchases), tokens and codes,   *)
(* what is mailed, and the identity provider's own sessions.  STAFF stands *)
(* for the roles between member and administrator.                         *)
(***************************************************************************)
EXTENDS Naturals, FiniteSets

CONSTANTS
    User, Subject,      \* accounts, and the LINE identities of people
    SessionId, Request,
    NoOne,              \* no account, where a LINE identity has none
    Bounds              \* the bounds one behaviour may keep to: its installation and
                        \* the roles it starts with, changes by administrators, sessions
                        \* opened and steps of LINE identities and closures

Role == {"ADMIN", "STAFF", "MEMBER", "NONE"}

ASSUME ConstantsAssumption ==
    /\ IsFiniteSet(User) /\ NoOne \notin User /\ User \cap SessionId = {}
    /\ Bounds \subseteq [local : BOOLEAN, roles : [User -> Role],
                        changes : Nat, sessions : Nat, identity : Nat]

VARIABLES
    local,      \* whether the installation is a local one
    user,       \* rows of users, with their closures; role NONE before registration
    link,       \* Subject -> its row of line_accounts
    referred,   \* accounts that were registered with an invitation
    session,    \* SessionId -> a row of sessions, or NoSession
    request,
    revoked,    \* history: how often an account's sessions were revoked
    through,    \* history: Subject -> accounts it registered, or had when they closed
    released,   \* history: identities whose row went over to another identity
    displaced,  \* history: accounts that lost their identity to a registration which
                \* had read it as that of another, closed account
    left        \* what remains of the bounds

identities == <<link, referred, through, released, displaced>>
vars == <<local, user, identities, session, request, revoked, left>>

NoSession == [user |-> NoOne, aal |-> 0, since |-> 0]
NoLink == [user |-> NoOne, unlinked |-> FALSE, owner |-> NoOne, consumed |-> FALSE]
Idle == [op |-> "idle"]

\* fallback: an address that was verified, and a password; ready: a second
\* factor and, with the provider, another in reserve.
Init ==
    \E bound \in Bounds :
        /\ local = bound.local
        /\ user = [u \in User |->
               [role |-> bound.roles[u], disabled |-> FALSE, closed |-> FALSE,
                fallback |-> bound.roles[u] # "NONE", ready |-> bound.roles[u] = "ADMIN"]]
        /\ link = [s \in Subject |-> NoLink] /\ referred = {}
        /\ session = [i \in SessionId |-> NoSession]
        /\ request = [q \in Request |-> Idle]
        /\ revoked = [u \in User |-> 0]
        /\ through = [s \in Subject |-> {}] /\ released = {} /\ displaced = {}
        /\ left = [changes |-> bound.changes, sessions |-> bound.sessions,
                   identity |-> bound.identity]

-----------------------------------------------------------------------------
Active(u) == user[u].role # "NONE" /\ ~user[u].disabled
LinkedBy(u) == {s \in Subject : link[s].user = u}
HasLine(u) == \E s \in LinkedBy(u) : ~link[s].unlinked
CanLogIn(u) == user[u].fallback \/ HasLine(u)
SessionsOf(u) == {i \in SessionId : session[i].user = u}
LoggedIn(u) == Active(u) /\ (SessionsOf(u) # {} \/ (~local /\ user[u].fallback))

Spend(kind) == left[kind] > 0 /\ left' = [left EXCEPT ![kind] = @ - 1]

Ask(q, asked) == request[q] = Idle /\ request' = [request EXCEPT ![q] = asked]

\* A request ends; snapshots that are older notice the rows it wrote.
Answer(q, written) ==
    request' = [p \in Request |->
        IF p = q THEN Idle
        ELSE IF request[p].op = "change"
             THEN [request[p] EXCEPT !.written = @ \cup written] ELSE request[p]]

\* Requests that one step describes.
AtOnce(written) == Answer(NoOne, written)

Without(ids) == [i \in SessionId |-> IF i \in ids THEN NoSession ELSE session[i]]

Opened(u, aal) == [user |-> u, aal |-> aal, since |-> revoked[u]]

Open(u, kept) ==
    \E i \in SessionId : kept[i] = NoSession /\ session' = [kept EXCEPT ![i] = Opened(u, 1)]

GiveUp(q) ==
    /\ request[q] # Idle
    /\ Answer(q, {})
    /\ UNCHANGED <<local, user, identities, session, revoked, left>>

-----------------------------------------------------------------------------
(***************************************************************************)
(* Administrators change roles, suspend and enable.                        *)
(***************************************************************************)
Administrators(rows) == {a \in User : rows[a].role = "ADMIN" /\ ~rows[a].disabled}

Permitted(row, to) ==
    /\ row.fallback
    /\ CASE to = "suspended" -> row.role \in {"ADMIN", "STAFF"} /\ ~row.disabled /\ ~row.closed
         [] to = "enabled"   -> row.role \in {"ADMIN", "STAFF"} /\ row.disabled /\ ~row.closed
         [] OTHER            -> row.role \notin {to, "NONE"} /\ ~row.disabled

Changed(row, to) ==
    CASE to = "suspended" -> [row EXCEPT !.disabled = TRUE]
      [] to = "enabled"   -> [row EXCEPT !.disabled = FALSE]
      [] OTHER            -> [row EXCEPT !.role = to]

Target == {"ADMIN", "STAFF", "MEMBER", "suspended", "enabled"}

\* Two administrators stay and, with the provider, two of them are ready for
\* a lost device.
Continues(rows, remaining) ==
    /\ Cardinality(remaining) >= 2
    /\ local \/ Cardinality({a \in remaining : rows[a].ready}) >= 2

BeginChange(q, u, to) ==
    /\ \E actor \in User \ {u} : user[actor].role = "ADMIN" /\ Active(actor)
    /\ Permitted(user[u], to)
    /\ Spend("changes")
    /\ Ask(q, [op |-> "change", user |-> u, to |-> to, rows |-> user,
               sessions |-> SessionsOf(u), written |-> {}])
    /\ UNCHANGED <<local, user, identities, session, revoked>>

\* Faulty variant: the administrators that stay are read without a lock.
LockedToCountNone(r) == {r.user}

\* The rows a change may not find written since its snapshot: the account it
\* changes and, where it takes an administrator away, those that stay.
LockedToCount(r) ==
    {r.user} \cup
    (IF r.rows[r.user].role = "ADMIN" /\ r.to # "enabled"
     THEN Administrators(r.rows) ELSE {})

\* It deletes the sessions its snapshot has.
CommitChange(q) ==
    LET r == request[q]
        row == r.rows[r.user]
    IN  /\ r.op = "change"
        /\ r.written \cap (LockedToCount(r) \cup r.sessions) = {}
        /\ row.role = "ADMIN" /\ r.to # "enabled" =>
               Continues(r.rows, Administrators(r.rows) \ {r.user})
        /\ user' = [user EXCEPT ![r.user] = Changed(row, r.to)]
        /\ session' = Without(r.sessions)
        /\ revoked' = [revoked EXCEPT ![r.user] = @ + 1]
        /\ Answer(q, {r.user} \cup r.sessions)
        /\ UNCHANGED <<local, identities, left>>

-----------------------------------------------------------------------------
(***************************************************************************)
(* Sessions and credentials.                                               *)
(***************************************************************************)
\* With LINE or, locally, the password: the account is read before the
\* transaction.
BeginLogin(q, u) ==
    /\ Active(u) /\ (IF local THEN CanLogIn(u) ELSE HasLine(u))
    /\ Spend("sessions")
    /\ Ask(q, [op |-> "login", user |-> u])
    /\ UNCHANGED <<local, user, identities, session, revoked>>

CommitLogin(q) ==
    /\ request[q].op = "login"
    /\ Open(request[q].user, session)
    /\ Answer(q, {})
    /\ UNCHANGED <<local, user, identities, revoked, left>>

BeginStepUp(q, i) ==
    /\ local /\ session[i].aal = 1 /\ Active(session[i].user)
    /\ Spend("sessions")
    /\ Ask(q, [op |-> "stepUp", user |-> session[i].user, session |-> i])
    /\ UNCHANGED <<local, user, identities, session, revoked>>

\* Faulty variant: which code was used last is not kept with the account.
StepUpWritesNothing(r) == {r.session}

\* The code that was used is recorded in the account's row.
StepUpWrites(r) == {r.session, r.user}

\* The session it stands on is deleted by its id, or the transaction fails.
CommitStepUp(q) ==
    LET r == request[q]
    IN  /\ r.op = "stepUp"
        /\ session[r.session].user = r.user /\ session[r.session].aal = 1
        /\ session' = [session EXCEPT ![r.session] = Opened(r.user, 2)]
        /\ Answer(q, StepUpWrites(r))
        /\ UNCHANGED <<local, user, identities, revoked, left>>

EndSession(i) ==
    /\ local /\ session[i] # NoSession
    /\ session' = Without({i})
    /\ AtOnce({i})
    /\ UNCHANGED <<local, user, identities, revoked, left>>

\* A link in the mail sets the address and the password, and logs in.
VerifyFallback(u) ==
    /\ local /\ Active(u) /\ ~user[u].fallback
    /\ Spend("sessions")
    /\ user' = [user EXCEPT ![u].fallback = TRUE]
    /\ Open(u, session)
    /\ AtOnce({u})
    /\ UNCHANGED <<local, identities, revoked>>

\* Another password, and no session stays open; the link was mailed when the
\* account was active.
ResetPassword(u) ==
    /\ local /\ user[u].fallback
    /\ Spend("sessions")
    /\ session' = Without(SessionsOf(u))
    /\ revoked' = [revoked EXCEPT ![u] = @ + 1]
    /\ AtOnce({u} \cup SessionsOf(u))
    /\ UNCHANGED <<local, user, identities>>

\* An administrator enrols the factor in reserve, or gives it up, which ends
\* all sessions.
EnrolBackup(u) ==
    /\ ~local /\ LoggedIn(u) /\ user[u].role = "ADMIN" /\ ~user[u].ready
    /\ user' = [user EXCEPT ![u].ready = TRUE]
    /\ AtOnce({u})
    /\ UNCHANGED <<local, identities, session, revoked, left>>

RevokeBackup(u) ==
    /\ ~local /\ LoggedIn(u) /\ user[u].role = "ADMIN" /\ user[u].ready
    /\ Spend("changes")
    /\ user' = [user EXCEPT ![u].ready = FALSE]
    /\ session' = Without(SessionsOf(u))
    /\ revoked' = [revoked EXCEPT ![u] = @ + 1]
    /\ AtOnce({u} \cup SessionsOf(u))
    /\ UNCHANGED <<local, identities>>

-----------------------------------------------------------------------------
(***************************************************************************)
(* Closing and restoring an account.                                       *)
(***************************************************************************)
BeginClose(q, u) ==
    /\ LoggedIn(u) /\ user[u].role = "MEMBER"
    /\ Spend("identity")
    /\ Ask(q, [op |-> "close", user |-> u])
    /\ UNCHANGED <<local, user, identities, session, revoked>>

\* The role is not read again.
CommitClose(q) ==
    LET u == request[q].user
    IN  /\ request[q].op = "close"
        /\ ~user[u].closed
        /\ user' = [user EXCEPT ![u].disabled = TRUE, ![u].closed = TRUE]
        /\ link' = [s \in Subject |->
               IF s \in LinkedBy(u) THEN [link[s] EXCEPT !.unlinked = TRUE] ELSE link[s]]
        /\ through' = [s \in Subject |->
               IF s \in LinkedBy(u) THEN through[s] \cup {u} ELSE through[s]]
        /\ session' = Without(SessionsOf(u))
        /\ revoked' = [revoked EXCEPT ![u] = @ + 1]
        /\ Answer(q, {u} \cup SessionsOf(u))
        /\ UNCHANGED <<local, referred, released, displaced, left>>

BeginRestore(q, u) ==
    /\ user[u].closed /\ user[u].disabled /\ user[u].role = "MEMBER"
    /\ Spend("identity")
    /\ Ask(q, [op |-> "restore", user |-> u, linked |-> LinkedBy(u) # {}])
    /\ UNCHANGED <<local, user, identities, session, revoked>>

\* The LINE identity comes back with the account, if the account still has it.
CommitRestore(q) ==
    LET u == request[q].user
    IN  /\ request[q].op = "restore"
        /\ request[q].linked => LinkedBy(u) # {}
        /\ user' = [user EXCEPT ![u].disabled = FALSE]
        /\ link' = [s \in Subject |->
               IF request[q].linked /\ s \in LinkedBy(u)
               THEN [link[s] EXCEPT !.unlinked = FALSE] ELSE link[s]]
        /\ Answer(q, {u})
        /\ UNCHANGED <<local, referred, through, released, displaced, session, revoked, left>>

-----------------------------------------------------------------------------
(***************************************************************************)
(* LINE identities.                                                        *)
(***************************************************************************)
\* An identity that has an account registers again only if that is closed.
Registrable(l) ==
    l = NoLink \/ (l.unlinked /\ user[l.user].disabled /\ user[l.user].closed)

\* The account that had the identity first.
OwnerOf(l) == IF l.owner # NoOne THEN l.owner ELSE l.user

\* Faulty variant: what the identity's row says is not asked.
UsedByOwner(l) == l # NoLink /\ OwnerOf(l) \in referred

\* The identity, or the account that had it first, was invited before.
ReferralUsed(l) == l # NoLink /\ (l.consumed \/ OwnerOf(l) \in referred)

\* Registrations of one identity wait for each other.
BeginRegister(q, s) ==
    /\ Registrable(link[s])
    /\ \A p \in Request : request[p].op = "register" => request[p].subject # s
    /\ Spend("identity")
    /\ Ask(q, [op |-> "register", subject |-> s, had |-> link[s],
               used |-> ReferralUsed(link[s])])
    /\ UNCHANGED <<local, user, identities, session, revoked>>

\* An account nobody has had.
NewUser == CHOOSE u \in User : user[u].role = "NONE"

CommitRegister(q, invited) ==
    LET r == request[q]
        u == NewUser
        mayInvite == invited /\ ~r.used
    IN  /\ r.op = "register" /\ \E v \in User : user[v].role = "NONE"
        /\ (link[r.subject] = NoLink) <=> (r.had = NoLink)
        /\ user' = [user EXCEPT ![u].role = "MEMBER"]
        /\ link' = [link EXCEPT ![r.subject] =
               [user |-> u, unlinked |-> FALSE,
                owner |-> IF r.had = NoLink THEN u ELSE OwnerOf(r.had),
                consumed |-> r.used \/ mayInvite]]
        /\ referred' = IF mayInvite THEN referred \cup {u} ELSE referred
        /\ through' = [through EXCEPT ![r.subject] = @ \cup {u}]
        /\ displaced' = displaced \cup ({link[r.subject].user} \ {r.had.user})
        /\ Open(u, session)
        /\ Answer(q, {u})
        /\ UNCHANGED <<local, released, revoked, left>>

BeginLink(q, u, s) ==
    /\ LoggedIn(u)
    /\ Spend("identity")
    /\ Ask(q, [op |-> "link", user |-> u, subject |-> s])
    /\ UNCHANGED <<local, user, identities, session, revoked>>

\* The account's row, if it has one, goes over to the identity with all it says.
CommitLink(q) ==
    LET r == request[q]
        had == LinkedBy(r.user)
        row == IF had = {} THEN [NoLink EXCEPT !.user = r.user]
               ELSE [link[CHOOSE s \in had : TRUE] EXCEPT !.unlinked = FALSE]
    IN  /\ r.op = "link"
        /\ link[r.subject].user \in {NoOne, r.user}
        /\ link' = [s \in Subject |-> IF s = r.subject THEN row
                                      ELSE IF s \in had THEN NoLink ELSE link[s]]
        /\ released' = released \cup (had \ {r.subject})
        /\ Answer(q, {})
        /\ UNCHANGED <<local, user, referred, through, displaced, session, revoked, left>>

\* Faulty variant: no other way to log in is asked for.
MayUnlinkAnyone(u) == LoggedIn(u)

\* The password is one of the application's.
MayUnlink(u) == LoggedIn(u) /\ local /\ user[u].fallback

Unlink(u) ==
    /\ MayUnlink(u)
    /\ \E s \in LinkedBy(u) :
        /\ ~link[s].unlinked
        /\ link' = [link EXCEPT ![s].unlinked = TRUE]
    /\ Spend("identity")
    /\ UNCHANGED <<local, user, referred, through, released, displaced, session, request, revoked>>

-----------------------------------------------------------------------------
Next ==
    \/ \E q \in Request :
        \/ \E u \in User :
            \/ \E to \in Target : BeginChange(q, u, to)
            \/ BeginLogin(q, u) \/ BeginClose(q, u) \/ BeginRestore(q, u)
            \/ \E s \in Subject : BeginLink(q, u, s)
        \/ \E invited \in BOOLEAN : CommitRegister(q, invited)
        \/ \E i \in SessionId : BeginStepUp(q, i)
        \/ \E s \in Subject : BeginRegister(q, s)
        \/ CommitChange(q) \/ CommitLogin(q) \/ CommitStepUp(q)
        \/ CommitClose(q) \/ CommitRestore(q) \/ CommitLink(q) \/ GiveUp(q)
    \/ \E u \in User :
        VerifyFallback(u) \/ ResetPassword(u) \/ EnrolBackup(u) \/ RevokeBackup(u) \/ Unlink(u)
    \/ \E i \in SessionId : EndSession(i)

Spec == Init /\ [][Next]_vars

-----------------------------------------------------------------------------
(***************************************************************************)
(* Properties.                                                             *)
(***************************************************************************)

\* Whoever is suspended or demoted, two administrators who are ready stay,
\* though several are changed at once, some of them restored after a closure.
\* Only the closing itself asks nobody: the account was a member's when it was
\* asked for.
ContinuityKept ==
    [][\A u \in Administrators(user) \ Administrators(user') :
           \/ user'[u].closed /\ user'[u].disabled
           \/ Continues(user', Administrators(user'))]_vars

\* The rows, what each request carries, and the histories.
UserRow == [role : Role, disabled : BOOLEAN, closed : BOOLEAN, fallback : BOOLEAN,
            ready : BOOLEAN]
LinkRow == [user : User \cup {NoOne}, unlinked : BOOLEAN, owner : User \cup {NoOne},
            consumed : BOOLEAN]
Session == [user : User \cup {NoOne}, aal : 0..2, since : Nat]

Asked ==
    {Idle}
    \cup [op : {"change"}, user : User, to : Target, rows : [User -> UserRow],
          sessions : SUBSET SessionId, written : SUBSET (User \cup SessionId)]
    \cup [op : {"login", "close"}, user : User]
    \cup [op : {"stepUp"}, user : User, session : SessionId]
    \cup [op : {"restore"}, user : User, linked : BOOLEAN]
    \cup [op : {"register"}, subject : Subject, had : LinkRow, used : BOOLEAN]
    \cup [op : {"link"}, user : User, subject : Subject]

TypeOK ==
    /\ user \in [User -> UserRow] /\ revoked \in [User -> Nat]
    /\ link \in [Subject -> LinkRow]
    /\ \A s \in Subject : link[s].user = NoOne => link[s] = NoLink
    /\ session \in [SessionId -> Session]
    /\ \A i \in SessionId : session[i].user = NoOne => session[i] = NoSession
    /\ request \in [Request -> Asked]
    /\ local \in BOOLEAN /\ referred \subseteq User
    /\ through \in [Subject -> SUBSET User] /\ released \subseteq Subject
    /\ displaced \subseteq User \cup {NoOne}
    /\ left \in [changes : Nat, sessions : Nat, identity : Nat]

\* No session with a second factor outlives a change of the account's role, a
\* suspension or a new password, though a change deletes only the sessions its
\* snapshot has.
SteppedUpIsCurrent ==
    \A i \in SessionId : session[i].aal = 2 => session[i].since = revoked[session[i].user]

\* An account that is not disabled can log in, though it was closed, restored,
\* linked and unlinked in any order, unless the LINE identity it closed with
\* was registered anew, or it took one over while that was being registered.
EveryoneCanLogIn ==
    \A u \in User :
        Active(u) => \/ CanLogIn(u)
                     \/ \E s \in Subject : u \in through[s] /\ through[s] # {u} /\ link[s].user # u
                     \/ u \in displaced

\* Of the accounts of one LINE identity one at most was invited, however often
\* it is closed and registered again, as long as its row stays with it.
InvitedOnce ==
    \A s \in Subject \ released : Cardinality(through[s] \cap referred) <= 1

\* What DECISIONS.md says: the same without the exception.
OneReferralPerIdentity ==
    \A s \in Subject : Cardinality(through[s] \cap referred) <= 1
=============================================================================
