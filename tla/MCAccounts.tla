----------------------------- MODULE MCAccounts -----------------------------
(***************************************************************************)
(* Instances of Accounts for TLC: three administrators and a member; or a  *)
(* person with two LINE identities.                                        *)
(***************************************************************************)
EXTENDS Accounts, TLC

Profile(isLocal, roles, changes, sessions, identity) ==
    [local |-> isLocal, roles |-> roles, changes |-> changes, sessions |-> sessions, identity |-> identity]

Staffed == [u1 |-> "ADMIN", u2 |-> "ADMIN", u3 |-> "ADMIN", u4 |-> "MEMBER"]
Small == [u1 |-> "ADMIN", u2 |-> "STAFF", u3 |-> "NONE", u4 |-> "NONE"]
Public == [u1 |-> "MEMBER", u2 |-> "NONE", u3 |-> "NONE", u4 |-> "NONE"]

\* Administrators who change each other, with the provider and locally, and
\* with a closure besides; sessions against changes; identities.
Profiles ==
    {Profile(FALSE, Staffed, 3, 0, 0), Profile(FALSE, Staffed, 2, 0, 1),
     Profile(TRUE, Staffed, 2, 1, 1), Profile(TRUE, Small, 1, 4, 0),
     Profile(FALSE, Public, 0, 0, 8), Profile(TRUE, Public, 0, 1, 6)}

Symmetric == Permutations(Subject) \cup Permutations(SessionId) \cup Permutations(Request)
=============================================================================
